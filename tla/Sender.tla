------------------------------- MODULE Sender -------------------------------
(***************************************************************************)
(* MTProtoSender of boka_tl/network/mtprotosender.py with its queue        *)
(* (extensions/messagepacker.py) and the Connection it sends through       *)
(* (network/connection/connection.py): send loop, receive loop, keepalive, *)
(* reconnection and disconnection are tasks of one event loop, which give  *)
(* way to each other only where they await.                                *)
(*                                                                         *)
(* External: the callers, the network, which may break or fall silent, and *)
(* the server, which executes a packet, or refuses it or one message of it *)
(* (bad salt, bad sequence number), and answers in any order.              *)
(*                                                                         *)
(* A message is <<item, n>>: the n-th time item is written in the session. *)
(* A container is known by the set of its messages.                        *)
(***************************************************************************)
EXTENDS Naturals, Sequences, Functions

CONSTANTS
  Requests,       \* what callers send
  Ping,           \* the PingRequest of the keepalive loop
  None,           \* no ping
  Calls,          \* the lists of requests, new ones each, that callers send at once
  GivenUp,        \* requests whose callers may stop waiting for them
  Rejects,        \* whether the server refuses messages for good
  Leaves,         \* whether disconnect may be called
  Hasty,          \* whether it may be called during a reconnection
  GivesUp,        \* whether the number of retries is limited
  MaxConnects, MaxBreaks, MaxRefusals     \* bounds

Items == Requests \cup {Ping}

ASSUME ItemsAssumption ==
  /\ None \notin Items /\ Ping \notin Requests
  /\ Calls \subseteq Seq(Requests) /\ GivenUp \subseteq Requests
  /\ \A call \in Calls : IsInjective(call)
ASSUME BoundsAssumption ==
  /\ {Rejects, Leaves, Hasty, GivesUp} \subseteq BOOLEAN
  /\ MaxConnects \in Nat /\ MaxBreaks \in Nat /\ MaxRefusals \in Nat

VARIABLES
  \* MTProtoSender
  user,           \* _user_connected
  reconnecting,   \* _reconnecting
  conn,           \* whether there is a _connection
  queue,          \* _send_queue
  pending,        \* _pending_state, in the order of insertion
  mid,            \* mid[i]: i's last message of this session, 0 for none
  cont,           \* cont[i]: its container_id, {} for None
  fut,            \* fut[r]: the future of r
  ping,           \* _ping
  ended,          \* whether _disconnected is done
  sendLoop,       \* where _send_loop stands
  recvLoop,       \* where _recv_loop stands
  rt,             \* where _reconnect_task stands
  dis,            \* where a call of disconnect stands
  \* Connection
  connected,      \* _connected
  outq,           \* _send_queue, of one packet
  held,           \* the packet that waits to be put there
  inq,            \* _recv_queue, of one answer
  \* the network and the server
  sock,           \* "up" or "dead"
  execs,          \* messages of this session that were executed
  refused,        \* refused message ids, not told yet
  connects, breaks, refusals   \* counters for the bounds

transport == <<connected, outq, held, inq>>
world == <<sock, execs, refused>>
counters == <<connects, breaks, refusals>>
tasks == <<sendLoop, recvLoop, rt, dis>>
states == <<queue, pending, mid, cont, fut, ping>>
flags == <<user, reconnecting, conn, ended>>
vars == <<user, reconnecting, conn, ended, queue, pending, mid, cont, fut, ping,
          sendLoop, recvLoop, rt, dis, connected, outq, held, inq,
          sock, execs, refused, connects, breaks, refusals>>

Running == user /\ ~ reconnecting       \* the loops' condition

(* The elements of s that are not in S, in their order. *)
Without(s, S) ==
  LET kept[n \in 0..Len(s)] == IF n = 0 THEN <<>>
                               ELSE IF s[n] \in S THEN kept[n - 1]
                               ELSE Append(kept[n - 1], s[n])
  IN kept[Len(s)]

-----------------------------------------------------------------------------
Init ==
  /\ user = FALSE /\ reconnecting = FALSE /\ conn = FALSE /\ ended = TRUE
  /\ queue = <<>> /\ pending = <<>>
  /\ mid = [i \in Items |-> 0] /\ cont = [i \in Items |-> {}]
  /\ fut = [r \in Requests |-> "none"] /\ ping = None
  /\ sendLoop = "off" /\ recvLoop = "off" /\ rt = "off" /\ dis = "off"
  /\ connected = FALSE /\ outq = <<>> /\ held = <<>> /\ inq = <<>>
  /\ sock = "up" /\ execs = {} /\ refused = {}
  /\ connects = 0 /\ breaks = 0 /\ refusals = 0

-----------------------------------------------------------------------------
(* Callers                                                                 *)

Send(call) ==
  /\ user
  /\ \A r \in Range(call) : fut[r] = "none"
  /\ queue' = queue \o call
  /\ fut' = [r \in Requests |-> IF r \in Range(call) THEN "pending" ELSE fut[r]]
  /\ UNCHANGED <<flags, pending, mid, cont, ping, tasks, transport, world, counters>>

(* A caller cancels the future it got: the request stays where it is. *)
GiveUp ==
  /\ \E r \in GivenUp : fut[r] = "pending" /\ fut' = [fut EXCEPT ![r] = "cancelled"]
  /\ UNCHANGED <<flags, queue, pending, mid, cont, ping, tasks, transport, world,
                 counters>>

(* The keepalive loop of client/updates.py wakes up.  A ping the server    *)
(* has, on a connection that works, is answered before it does so again.   *)
Unanswered == sock = "dead" \/ Ping \notin Range(queue) \cup Range(pending)

(* _start_reconnect *)
StartReconnect ==
  IF Running THEN reconnecting' = TRUE /\ rt' = "start"
             ELSE UNCHANGED <<reconnecting, rt>>

Keepalive ==
  /\ Running /\ conn /\ connected
  /\ \/ /\ ping = None /\ ping' = Ping /\ queue' = Append(queue, Ping)
        /\ UNCHANGED <<reconnecting, rt>>
     \/ /\ ping # None /\ Unanswered
        /\ StartReconnect
        /\ UNCHANGED <<ping, queue>>
  /\ UNCHANGED <<user, conn, ended, pending, mid, cont, fut, sendLoop, recvLoop, dis,
                 transport, world, counters>>

-----------------------------------------------------------------------------
(* connect, called when nothing of an earlier connection is running        *)

NewConnection == conn' = TRUE /\ outq' = <<>> /\ held' = <<>> /\ inq' = <<>>

StartLoops == sendLoop' = "top" /\ recvLoop' = "top"

Connect ==
  /\ ~ user /\ connects < MaxConnects
  /\ \A t \in {sendLoop, recvLoop, rt, dis} : t = "off"
  /\ connects' = connects + 1
  /\ NewConnection
  /\ connected' = TRUE /\ sock' = "up"
  /\ StartLoops
  /\ ended' = FALSE /\ user' = TRUE
  /\ UNCHANGED <<reconnecting, states, rt, dis, execs, refused, breaks, refusals>>

-----------------------------------------------------------------------------
(* _disconnect                                                             *)

(* Mutant: a future its caller cancelled is resolved like any other. *)
Overwrite(S, outcome) ==
  fut' = [r \in Requests |-> IF r \in S THEN outcome ELSE fut[r]]

(* What is done to the futures of _pending_state. *)
Resolve(S, outcome) ==
  fut' = [r \in Requests |-> IF r \in S /\ fut[r] = "pending" THEN outcome ELSE fut[r]]

DropPending(outcome) == Resolve(Range(pending), outcome) /\ pending' = <<>>

(* disconnect, while a reconnection runs: that is cancelled first.  The    *)
(* helper that cancels tasks swallows the cancellation of its caller, and  *)
(* then disconnect waits for the reconnection to end.                      *)
CancelReconnect ==
  /\ Leaves /\ Hasty /\ dis = "off"
  /\ \/ /\ rt \in {"start", "closing", "trying"} /\ rt' = "off" /\ dis' = "go"
     \/ /\ rt \in {"closing", "stopping"} /\ dis' = "await" /\ UNCHANGED rt
  /\ UNCHANGED <<flags, states, sendLoop, recvLoop, transport, world, counters>>

WakeDisconnect == dis' = IF dis = "await" THEN "go" ELSE dis

(* _disconnect is called, at once when no reconnection runs. *)
Leaving == conn /\ (dis = "go" \/ (Leaves /\ dis = "off" /\ rt = "off"))

CloseConnection ==
  /\ Leaving /\ connected
  /\ user' = FALSE /\ connected' = FALSE
  /\ dis' = "closing"
  /\ UNCHANGED <<reconnecting, conn, ended, states, sendLoop, recvLoop, rt, outq, held,
                 inq, world, counters>>

CancelPending ==
  /\ dis = "closing" \/ (Leaving /\ ~ connected)
  /\ user' = FALSE
  /\ DropPending("cancelled")
  /\ sendLoop' = "off" /\ held' = <<>>
  /\ dis' = "stopping"
  /\ UNCHANGED <<reconnecting, conn, ended, queue, mid, cont, ping, recvLoop, rt,
                 connected, outq, inq, world, counters>>

(* Mutant: only the send loop is cancelled. *)
DisconnectedListening ==
  /\ dis = "stopping" /\ dis' = "off"
  /\ conn' = FALSE /\ ended' = TRUE
  /\ UNCHANGED <<user, reconnecting, states, sendLoop, recvLoop, rt, transport, world,
                 counters>>

Disconnected ==
  /\ dis = "stopping" /\ dis' = "off"
  /\ recvLoop' = "off" /\ conn' = FALSE /\ ended' = TRUE
  /\ UNCHANGED <<user, reconnecting, states, sendLoop, rt, transport, world, counters>>

(* The reconnection that was waited for gave up and left no connection. *)
NotConnected ==
  /\ dis = "go" /\ ~ conn /\ dis' = "off"
  /\ UNCHANGED <<flags, states, sendLoop, recvLoop, rt, transport, world, counters>>

-----------------------------------------------------------------------------
(* _reconnect                                                              *)

(* A disconnect that was woken up is ahead of it. *)
ReconnectStart ==
  /\ rt = "start" /\ dis # "go"
  /\ \/ /\ connected /\ connected' = FALSE /\ rt' = "closing"
        /\ UNCHANGED <<sendLoop, held>>
     \/ /\ ~ connected /\ sendLoop' = "off" /\ held' = <<>> /\ rt' = "stopping"
        /\ UNCHANGED connected
  /\ UNCHANGED <<flags, states, recvLoop, dis, outq, inq, world, counters>>

ReconnectClosed ==
  /\ rt = "closing"
  /\ sendLoop' = "off" /\ held' = <<>> /\ rt' = "stopping"
  /\ UNCHANGED <<flags, states, recvLoop, dis, connected, outq, inq, world, counters>>

(* Mutant: the new connection continues the old session. *)
ResetNothing == UNCHANGED <<mid, execs, refused, outq, inq>>

(* MTProtoState.reset: a new session, in which nothing was written yet and *)
(* whose server knows nothing.  What is under way belongs to the old one.  *)
Aged(q) == IF q = <<>> THEN <<>> ELSE <<[q[1] EXCEPT !.old = TRUE]>>

ResetState ==
  /\ mid' = [i \in Items |-> 0]
  /\ execs' = {} /\ refused' = {}
  /\ outq' = Aged(outq) /\ inq' = Aged(inq)

(* Mutant: the flag is not reset before the loops are started again. *)
KeepReconnecting == UNCHANGED reconnecting

AllowLoops == reconnecting' = FALSE

ReconnectStopped ==
  /\ rt = "stopping"
  /\ recvLoop' = "off"
  /\ AllowLoops
  /\ ResetState
  /\ \/ /\ user /\ rt' = "trying"
        /\ UNCHANGED <<conn, ended, fut, pending, dis>>
     \/ /\ ~ user /\ rt' = "off"
        /\ conn' = FALSE /\ ended' = TRUE
        /\ DropPending("failed")
        /\ WakeDisconnect
  /\ UNCHANGED <<user, queue, cont, ping, sendLoop, connected, held, sock, counters>>

(* Mutants: pending states are not queued again; they are not cleared. *)
RequeueNothing == pending' = <<>> /\ UNCHANGED queue
RequeueKeep == queue' = queue \o pending /\ UNCHANGED pending

Requeue == queue' = queue \o pending /\ pending' = <<>>

Reconnected ==
  /\ rt = "trying"
  /\ connected' = TRUE /\ sock' = "up"
  /\ StartLoops
  /\ Requeue
  /\ rt' = "off" /\ WakeDisconnect
  /\ UNCHANGED <<flags, mid, cont, fut, ping, outq, held, inq, execs, refused,
                 counters>>

(* All attempts failed: _disconnect with the last error. *)
ReconnectFailed ==
  /\ GivesUp /\ rt = "trying"
  /\ user' = FALSE /\ conn' = FALSE /\ ended' = TRUE
  /\ DropPending("failed")
  /\ rt' = "off" /\ WakeDisconnect
  /\ UNCHANGED <<reconnecting, queue, mid, cont, ping, sendLoop, recvLoop, transport,
                 world, counters>>

-----------------------------------------------------------------------------
(* _send_loop                                                              *)

SendLoopEnds ==
  /\ sendLoop = "top" /\ ~ Running /\ sendLoop' = "off"
  /\ UNCHANGED <<flags, states, recvLoop, rt, dis, transport, world, counters>>

(* get finds the queue empty.  Once an item comes the condition of the     *)
(* loop is not looked at again.                                            *)
SendLoopWaits ==
  /\ sendLoop = "top" /\ Running /\ queue = <<>> /\ sendLoop' = "idle"
  /\ UNCHANGED <<flags, states, recvLoop, rt, dis, transport, world, counters>>

Getting == queue # <<>> /\ (sendLoop = "idle" \/ (sendLoop = "top" /\ Running))

(* The number of i's next message.  A ping is only sent when the last one  *)
(* was answered, or again when it was refused: one number is enough.       *)
NextId(i) == IF i = Ping THEN 1 ELSE mid[i] + 1

(* _pending_state[state.msg_id] = state, for all of the batch. *)
AddPending(batch) ==
  /\ mid' = [i \in Items |-> IF i \in Range(batch) THEN NextId(i) ELSE mid[i]]
  /\ cont' = IF Len(batch) = 1 THEN cont
             ELSE [i \in Items |-> IF i \in Range(batch)
                                   THEN {<<j, NextId(j)>> : j \in Range(batch)}
                                   ELSE cont[i]]
  /\ pending' = pending \o batch

(* How many items fit into a container depends on their sizes. *)
SendBatch ==
  /\ Getting
  /\ \E k \in 1..Len(queue) :
       LET batch == SubSeq(queue, 1, k)
           packet == [msgs |-> {<<i, NextId(i)>> : i \in Range(batch)}, old |-> FALSE]
       IN /\ queue' = SubSeq(queue, k + 1, Len(queue))
          /\ AddPending(batch)
          /\ \/ /\ ~ connected /\ StartReconnect /\ sendLoop' = "off"
                /\ UNCHANGED <<outq, held>>
             \/ /\ connected /\ outq = <<>> /\ outq' = <<packet>> /\ sendLoop' = "top"
                /\ UNCHANGED <<reconnecting, rt, held>>
             \/ /\ connected /\ outq # <<>> /\ held' = <<packet>> /\ sendLoop' = "full"
                /\ UNCHANGED <<reconnecting, rt, outq>>
  /\ UNCHANGED <<user, conn, ended, fut, ping, recvLoop, dis, connected, inq, world,
                 counters>>

SendHeld ==
  /\ sendLoop = "full" /\ outq = <<>>
  /\ outq' = held /\ held' = <<>> /\ sendLoop' = "top"
  /\ UNCHANGED <<flags, states, recvLoop, rt, dis, connected, inq, world, counters>>

-----------------------------------------------------------------------------
(* The network and the server                                              *)

(* The packet reaches the server, which executes it or refuses it, or one  *)
(* of its messages; or it is lost with the connection.                     *)
Transmit ==
  /\ connected /\ outq # <<>> /\ outq' = <<>>
  /\ LET p == outq[1] IN
       \/ /\ sock = "dead" \/ p.old
          /\ UNCHANGED <<execs, refused, refusals>>
       \/ /\ sock = "up" /\ ~ p.old
          /\ execs' = execs \cup p.msgs
          /\ UNCHANGED <<refused, refusals>>
       \/ /\ sock = "up" /\ ~ p.old /\ refusals < MaxRefusals
          /\ refusals' = refusals + 1
          /\ \E S \in {p.msgs} \cup {{m} : m \in p.msgs} :
               refused' = refused \cup {S} /\ execs' = execs \cup (p.msgs \ S)
  /\ UNCHANGED <<flags, states, tasks, connected, held, inq, sock, connects, breaks>>

(* Mutant: the queue of received answers has no bound. *)
IncomingUnbounded(answer) ==
  /\ connected /\ sock = "up"
  /\ inq' = Append(inq, answer)
  /\ UNCHANGED <<flags, states, tasks, connected, outq, held, sock, connects, refusals>>

(* The connection reads what the server sends. *)
Incoming(answer) ==
  /\ connected /\ sock = "up" /\ inq = <<>>
  /\ inq' = <<answer>>
  /\ UNCHANGED <<flags, states, tasks, connected, outq, held, sock, connects, refusals>>

(* The answer to an executed message; the server may repeat it. *)
Answer(r) ==
  /\ \E m \in execs, kind \in {"result", "error"} :
       m[1] = r /\ Incoming([kind |-> kind, id |-> {m}, old |-> FALSE])
  /\ UNCHANGED <<execs, refused, breaks>>

Pong ==
  /\ \E m \in execs :
       /\ m[1] = Ping /\ Incoming([kind |-> "pong", id |-> {m}, old |-> FALSE])
       /\ execs' = execs \ {m}
  /\ UNCHANGED <<refused, breaks>>

(* bad_server_salt, or bad_msg_notification with a code to try again with; *)
(* or with one that is final.                                              *)
Refuse ==
  /\ \E S \in refused, kind \in {"again"} \cup (IF Rejects THEN {"bad"} ELSE {}) :
       /\ Incoming([kind |-> kind, id |-> S, old |-> FALSE])
       /\ refused' = refused \ {S}
  /\ UNCHANGED <<execs, breaks>>

(* Nothing gets through any more. *)
Break ==
  /\ connected /\ sock = "up" /\ breaks < MaxBreaks
  /\ sock' = "dead" /\ breaks' = breaks + 1
  /\ UNCHANGED <<flags, states, tasks, transport, execs, refused, connects, refusals>>

(* The connection notices, and tells with its last read. *)
Notice ==
  /\ connected /\ sock = "dead" /\ inq = <<>>
  /\ inq' = <<[kind |-> "lost", id |-> {}, old |-> FALSE]>>
  /\ connected' = FALSE
  /\ UNCHANGED <<flags, states, tasks, outq, held, world, counters>>

(* It fails to write.  Its reading task is told first of a lost connection, *)
(* so this comes to pass only when that one waits for room in inq.         *)
WriteFails ==
  /\ connected /\ sock = "dead" /\ outq # <<>> /\ inq # <<>>
  /\ outq' = <<>> /\ connected' = FALSE
  /\ UNCHANGED <<flags, states, tasks, held, inq, world, counters>>

(* It reads what is no packet (a wrong checksum), tells and goes on. *)
Garbled ==
  /\ breaks < MaxBreaks /\ breaks' = breaks + 1
  /\ Incoming([kind |-> "lost", id |-> {}, old |-> FALSE])
  /\ UNCHANGED <<execs, refused>>

-----------------------------------------------------------------------------
(* _recv_loop                                                              *)

RecvLoopEnds ==
  /\ recvLoop = "top" /\ ~ Running /\ recvLoop' = "off"
  /\ UNCHANGED <<flags, states, sendLoop, rt, dis, transport, world, counters>>

RecvLoopWaits ==
  /\ recvLoop = "top" /\ Running /\ connected /\ recvLoop' = "recv"
  /\ UNCHANGED <<flags, states, sendLoop, rt, dis, transport, world, counters>>

RecvLoopFails ==
  /\ recvLoop = "top" /\ Running /\ ~ connected /\ recvLoop' = "off"
  /\ StartReconnect
  /\ UNCHANGED <<user, conn, ended, states, sendLoop, dis, transport, world, counters>>

(* ConnectionError, of an answer that may be of an earlier connection. *)
ConnectionLost ==
  /\ recvLoop = "recv" /\ inq # <<>> /\ inq[1].kind = "lost"
  /\ inq' = <<>> /\ recvLoop' = "off"
  /\ StartReconnect
  /\ UNCHANGED <<user, conn, ended, states, sendLoop, dis, connected, outq, held, world,
                 counters>>

Handling(kinds) ==
  /\ recvLoop = "recv" /\ inq # <<>> /\ inq[1].kind \in kinds
  /\ inq' = <<>> /\ recvLoop' = "top"
  /\ UNCHANGED <<flags, sendLoop, rt, dis, connected, outq, held, world, counters>>

Has(i, m) == i \in Range(pending) /\ <<i, mid[i]>> = m

(* decrypt_message_data: the session id is wrong. *)
HandleOld ==
  /\ Handling({"result", "error", "pong", "again", "bad"}) /\ inq[1].old
  /\ UNCHANGED states

(* _handle_rpc_result, for the request it is for if that still waits. *)
HandleResult ==
  /\ Handling({"result", "error"}) /\ ~ inq[1].old
  /\ LET S == {r \in Requests : \E m \in inq[1].id : Has(r, m)}
     IN /\ pending' = Without(pending, S)
        /\ Resolve(S, IF inq[1].kind = "result" THEN "done" ELSE "failed")
  /\ UNCHANGED <<queue, mid, cont, ping>>

(* Mutant: the pong is not recognised as the one for the last ping. *)
PongIgnored == UNCHANGED ping

PongReceived == ping' = None

HandlePong ==
  /\ Handling({"pong"}) /\ ~ inq[1].old
  /\ PongReceived
  /\ pending' = IF \E m \in inq[1].id : Has(Ping, m) THEN Without(pending, {Ping})
                ELSE pending
  /\ UNCHANGED <<queue, mid, cont, fut>>

(* _pop_states: what the message id S stands for. *)
States(S) == {i \in Range(pending) : S = {<<i, mid[i]>>} \/ S = cont[i]}

Retry(S) ==
  /\ queue' = queue \o Without(pending, Items \ S)
  /\ pending' = Without(pending, S)

(* _handle_bad_server_salt, _handle_bad_notification *)
HandleAgain ==
  /\ Handling({"again"}) /\ ~ inq[1].old
  /\ Retry(States(inq[1].id))
  /\ UNCHANGED <<mid, cont, fut, ping>>

Before(s, a, b) == \E x, y \in DOMAIN s : x < y /\ s[x] = a /\ s[y] = b

(* Each future gets the error in turn, until one was cancelled: that       *)
(* raises, and the states after it, popped already, are never told.        *)
Untold(S) ==
  {i \in S : \E j \in S \ {Ping} : fut[j] # "pending" /\ Before(pending, j, i)}

HandleBad ==
  /\ Handling({"bad"}) /\ ~ inq[1].old
  /\ LET S == States(inq[1].id)
     IN /\ Resolve(S \ Untold(S), "failed")
        /\ pending' = Without(pending, S)
  /\ UNCHANGED <<queue, mid, cont, ping>>

-----------------------------------------------------------------------------
Callers == (\E call \in Calls : Send(call)) \/ GiveUp \/ Connect \/ CancelReconnect

Disconnecting == CloseConnection \/ CancelPending \/ Disconnected \/ NotConnected

Reconnecting == ReconnectStart \/ ReconnectClosed \/ ReconnectStopped \/ Reconnected
                \/ ReconnectFailed

Sending == SendLoopEnds \/ SendLoopWaits \/ SendBatch \/ SendHeld

Network == \/ Transmit \/ (\E r \in Requests : Answer(r)) \/ Pong \/ Refuse
           \/ Break \/ Notice \/ WriteFails \/ Garbled

Receiving == \/ RecvLoopEnds \/ RecvLoopWaits \/ RecvLoopFails \/ ConnectionLost
             \/ HandleOld \/ HandleResult \/ HandlePong \/ HandleAgain \/ HandleBad

Next == Callers \/ Keepalive \/ Disconnecting \/ Reconnecting \/ Sending \/ Network
        \/ Receiving

Spec == Init /\ [][Next]_vars

(* Every task runs when it can, the keepalive loop wakes up again and      *)
(* again, attempts to connect succeed at last, and so do the server's      *)
(* answers.  Nothing makes the connection notice that it is dead.          *)
Fairness ==
  /\ WF_vars(dis # "off" /\ Disconnecting) /\ WF_vars(Reconnecting) /\ SF_vars(Reconnected)
  /\ WF_vars(Sending) /\ WF_vars(Receiving) /\ WF_vars(Keepalive)
  /\ WF_vars(Transmit) /\ SF_vars(Pong) /\ SF_vars(Refuse)
  /\ \A r \in Requests : SF_vars(Answer(r))

FairSpec == Spec /\ Fairness

-----------------------------------------------------------------------------
Messages == Items \X Nat
Packets == [msgs : SUBSET Messages, old : BOOLEAN]
Answers == [kind : {"result", "error", "pong", "again", "bad", "lost"},
            id : SUBSET Messages, old : BOOLEAN]

AtMostOne(q, S) == q = <<>> \/ (Len(q) = 1 /\ q[1] \in S)

TypeOK ==
  /\ user \in BOOLEAN /\ reconnecting \in BOOLEAN /\ conn \in BOOLEAN
  /\ ended \in BOOLEAN /\ connected \in BOOLEAN
  /\ queue \in Seq(Items) /\ pending \in Seq(Items)
  /\ mid \in [Items -> Nat] /\ cont \in [Items -> SUBSET Messages]
  /\ fut \in [Requests -> {"none", "pending", "done", "failed", "cancelled"}]
  /\ ping \in {None, Ping}
  /\ sendLoop \in {"off", "top", "idle", "full"}
  /\ recvLoop \in {"off", "top", "recv"}
  /\ rt \in {"off", "start", "closing", "stopping", "trying"}
  /\ dis \in {"off", "await", "go", "closing", "stopping"}
  /\ AtMostOne(outq, Packets) /\ AtMostOne(held, Packets) /\ AtMostOne(inq, Answers)
  /\ sock \in {"up", "dead"}
  /\ execs \subseteq Messages /\ refused \subseteq SUBSET Messages
  /\ connects \in 0..MaxConnects /\ breaks \in 0..MaxBreaks
  /\ refusals \in 0..MaxRefusals

Kept == Range(queue) \cup Range(pending)

(* A request whose caller waits is in the queue, or known to await its     *)
(* answer: no reconnection, refusal or late answer forgets it ("Its send   *)
(* state will be saved until a response arrives", send).  This is so where *)
(* nothing is refused for good, or nobody gives up.                        *)
Tracked == \A r \in Requests : fut[r] = "pending" => r \in Kept

(* Where both happen, one step only forgets a request whose caller goes on *)
(* waiting: the final refusal of a container, when it meets a future that  *)
(* was cancelled before it comes to this one.                              *)
Forgotten(r) == fut[r] = "pending" /\ r \notin Kept

OnlyUntoldForgotten ==
  [][\A r \in Requests :
       Forgotten(r)' /\ ~ Forgotten(r) =>
         /\ recvLoop = "recv" /\ inq # <<>> /\ inq[1].kind = "bad"
         /\ r \in Untold(States(inq[1].id))]_vars

(* A request is kept in one place, once, and no longer than it is          *)
(* unresolved: it is not sent twice for one reason, and no future is set   *)
(* a second time, which would raise.                                       *)
KeptOnce ==
  /\ IsInjective(queue \o pending)
  /\ \A r \in Requests : r \in Kept => fut[r] \in {"pending", "cancelled"}

(* In one session the server executes no request twice: one is written     *)
(* again only when the server refused it, or to a new session.             *)
OncePerSession == \A m1, m2 \in execs : m1[1] = m2[1] /\ m1[1] # Ping => m1 = m2

(* As long as the user is connected, both loops run or a reconnection does *)
(* ("Automatic reconnection due to temporary network issues is a concern   *)
(* for this class as well").                                               *)
Operational ==
  user /\ dis = "off" /\ rt = "off" => sendLoop # "off" /\ recvLoop # "off"

(* Nothing is left behind by a disconnection but what was never written:   *)
(* no loop, no state, and nobody waits for the disconnected future.        *)
CleanEnd ==
  ~ user /\ dis = "off" /\ rt = "off" =>
    /\ sendLoop = "off" /\ recvLoop = "off"
    /\ pending = <<>> /\ ended /\ ~ conn

(* The requests this session of the server has executed. *)
Ran == {r \in Requests : \E m \in execs : m[1] = r}

Promise == INSTANCE Rpc WITH open <- user, ran <- Ran

(* The sender implements Rpc: a future is resolved once and for a reason;  *)
(* no answer of an earlier session, of another request or of a refusal     *)
(* resolves it, and nothing is executed whose caller was told its outcome. *)
ImplementsRpc == Promise!Spec

(* With a working server every caller gets an answer, whatever broke on    *)
(* the way.                                                                *)
Answered == \A r \in Requests : (fut[r] = "pending") ~> (fut[r] # "pending")

(* The sender comes to rest: with a network that breaks no more it does    *)
(* not reconnect for ever.                                                 *)
Settles == <>[](rt = "off")
=============================================================================
