-------------------------------- MODULE Rpc ---------------------------------
(***************************************************************************)
(* What the sender promises those who call send, with no message, queue,   *)
(* container or reconnection in sight: a future is resolved once, by what  *)
(* the server made of the request or by the end of the connection, and a   *)
(* session of the server executes a request at most once, and only as long *)
(* as nobody was told what became of it.                                   *)
(***************************************************************************)

CONSTANTS Requests

VARIABLES
  open,   \* whether the user is connected
  fut,    \* fut[r]: "none" before r is asked, then "pending" until resolved
  ran     \* the requests this session of the server has executed

vars == <<open, fut, ran>>

Init == open = FALSE /\ fut = [r \in Requests |-> "none"] /\ ran = {}

(* Those of S that somebody waits for get the outcome; all others are as   *)
(* they were.                                                              *)
Settle(S, outcome) ==
  fut' = [r \in Requests |-> IF r \in S /\ fut[r] = "pending" THEN outcome ELSE fut[r]]

Open == ~ open /\ open' = TRUE /\ UNCHANGED <<fut, ran>>

(* A list of requests is sent at once. *)
Ask(S) ==
  /\ open /\ \A r \in S : fut[r] = "none"
  /\ fut' = [r \in Requests |-> IF r \in S THEN "pending" ELSE fut[r]]
  /\ UNCHANGED <<open, ran>>

GiveUp(r) == Settle({r}, "cancelled") /\ UNCHANGED <<open, ran>>

(* The server executes requests, even such as nobody waits for any more,   *)
(* but none twice and none whose caller knows the outcome.                 *)
Execute(S) ==
  /\ S \cap ran = {} /\ \A r \in S : fut[r] \in {"pending", "cancelled"}
  /\ ran' = ran \cup S
  /\ UNCHANGED <<open, fut>>

(* The result, or the error, of an executed request. *)
Return(r, outcome) ==
  /\ r \in ran /\ outcome \in {"done", "failed"}
  /\ Settle({r}, outcome)
  /\ UNCHANGED <<open, ran>>

(* Requests the server will never execute. *)
Refuse(S) == S \cap ran = {} /\ Settle(S, "failed") /\ UNCHANGED <<open, ran>>

(* A new session knows of nothing; who waits goes on waiting. *)
Renew == ran' = {} /\ UNCHANGED <<open, fut>>

(* The connection ends, at the user's wish or for want of another, and with *)
(* it the waiting of those whose requests were sent, executed or not.       *)
Close(S, outcome) ==
  /\ open' = FALSE /\ outcome \in {"cancelled", "failed"}
  /\ Settle(S, outcome)
  /\ ran' \in {ran, {}}

Next ==
  \/ Open \/ Renew
  \/ \E r \in Requests : GiveUp(r) \/ \E outcome \in {"done", "failed"} : Return(r, outcome)
  \/ \E S \in SUBSET Requests :
       Ask(S) \/ Execute(S) \/ Refuse(S)
       \/ \E outcome \in {"cancelled", "failed"} : Close(S, outcome)

Spec == Init /\ [][Next]_vars
=============================================================================
