----------------------------- MODULE QuicSender -----------------------------
(***************************************************************************)
(* The QUIC way to bloXroute and to NextBlock.  A provider task of Swqos   *)
(* tries it first and falls back to HTTP.  For bloXroute one worker is     *)
(* spawned for each region; for NextBlock the task itself is the worker.   *)
(* Workers share the connections of their sender under one RwLock, which   *)
(* serves its waiters in order: a worker holds it for reading while it     *)
(* sends on a stored connection, and for writing to store a new one.       *)
(***************************************************************************)
EXTENDS Integers, FiniteSets, Sequences, SequencesExt

CONSTANTS
  Calls,      \* provider tasks that use the sender at the same time
  Regions,    \* configured endpoints
  Single,     \* the one among them that NextBlock has
  Silent,     \* regions whose server may take a request and never answer
  Lossy       \* regions whose answer may be lost on the way

ASSUME QuicAssumption ==
  /\ IsFiniteSet(Regions)
  /\ Single \in Regions
  /\ Silent \subseteq Regions
  /\ Lossy \subseteq Regions

VARIABLES
  sender,     \* the sender that this behaviour is about: they share nothing
  slot,       \* what became of the stored connection of each region
  callPc,     \* where each call stands
  worker,     \* where each worker stands
  queue       \* workers that wait for the RwLock, in order

vars == <<sender, slot, callPc, worker, queue>>

Senders == {"bloxroute", "nextblock"}

(***************************************************************************)
(* "lost" is a connection whose end is_connection_error recognises;        *)
(* "closed" is one that the server's application has closed, which it does *)
(* not.                                                                    *)
(***************************************************************************)
Gone == {"lost", "closed"}

SlotStates == {"none", "live"} \cup Gone

(***************************************************************************)
(* What a call that is over tells Swqos is an answer or a refusal there.   *)
(***************************************************************************)
CallPhases == {"idle", "waiting", "http", "over"}

Workers == Calls \X Regions

WaitPhases == {"reading", "storing"}

ReadPhases == {"opening", "sendingOld"}

WorkerPhases ==
  {"none", "connecting", "sendingNew", "ok", "failed", "unanswered", "dropped"}
    \cup WaitPhases \cup ReadPhases

Failed == {"failed", "unanswered"}

Busy == {"connecting", "sendingNew"} \cup WaitPhases \cup ReadPhases

Init ==
  /\ sender \in Senders
  /\ slot = [r \in Regions |-> "none"]
  /\ callPc = [c \in Calls |-> "idle"]
  /\ worker = [w \in Workers |-> "none"]
  /\ queue = <<>>

TypeOK ==
  /\ sender \in Senders
  /\ slot \in [Regions -> SlotStates]
  /\ callPc \in [Calls -> CallPhases]
  /\ worker \in [Workers -> WorkerPhases]
  /\ queue \in Seq(Workers)

Goes(w, from, to) ==
  /\ worker[w] = from
  /\ worker' = [worker EXCEPT ![w] = to]

ReadersToTheEnd ==            \* mutant: the read guard lives to the end of send_tx
  {w \in Workers : worker[w] \in ReadPhases \cup {"connecting", "sendingNew", "storing"}}

Readers == {w \in Workers : worker[w] \in ReadPhases}

-----------------------------------------------------------------------------
(* A worker.                                                               *)

(***************************************************************************)
(* The read lock is granted.  A region without a connection gives it back  *)
(* at once.                                                                *)
(***************************************************************************)
GrantRead(w) ==
  /\ queue # <<>> /\ Head(queue) = w
  /\ Goes(w, "reading", IF slot[w[2]] = "none" THEN "connecting" ELSE "opening")
  /\ queue' = Tail(queue)
  /\ UNCHANGED <<sender, slot, callPc>>

(***************************************************************************)
(* open_bi on the stored connection.  Only an end that counts as           *)
(* ConnectionLost leads to a new connection.                               *)
(***************************************************************************)
Open(w) ==
  /\ \/ slot[w[2]] = "live"   /\ Goes(w, "opening", "sendingOld")
     \/ slot[w[2]] = "lost"   /\ Goes(w, "opening", "connecting")
     \/ slot[w[2]] = "closed" /\ Goes(w, "opening", "failed")
  /\ UNCHANGED <<sender, slot, callPc, queue>>

(***************************************************************************)
(* The write or the read fails, also because the connection has ended by   *)
(* now, or the answer is an error or no signature.  The region did not get *)
(* the transaction ("failed"), or took it and its answer was lost          *)
(* ("unanswered"): the worker cannot tell.  The stored connection stays.   *)
(***************************************************************************)
SendFails(w) ==
  /\ worker[w] \in {"sendingOld", "sendingNew"}
  /\ \E to \in IF w[2] \in Lossy THEN Failed ELSE {"failed"} :
       worker' = [worker EXCEPT ![w] = to]
  /\ UNCHANGED <<sender, slot, callPc, queue>>

OldAnswers(w) ==
  /\ slot[w[2]] = "live"
  /\ Goes(w, "sendingOld", "ok")
  /\ UNCHANGED <<sender, slot, callPc, queue>>

(***************************************************************************)
(* Name resolution, the handshake and the check of the ALPN.               *)
(***************************************************************************)
Connect(w) ==
  /\ \E to \in {"sendingNew", "failed"} : Goes(w, "connecting", to)
  /\ UNCHANGED <<sender, slot, callPc, queue>>

(***************************************************************************)
(* The signature is here; the worker queues for the write lock first.      *)
(***************************************************************************)
NewAnswers(w) ==
  /\ Goes(w, "sendingNew", "storing")
  /\ queue' = Append(queue, w)
  /\ UNCHANGED <<sender, slot, callPc>>

StoreUnlocked(w) ==           \* mutant: the connection is stored without the lock
  /\ Goes(w, "storing", "ok")
  /\ slot' = [slot EXCEPT ![w[2]] = "live"]
  /\ queue' = SelectSeq(queue, LAMBDA v : v # w)
  /\ UNCHANGED <<sender, callPc>>

(***************************************************************************)
(* The write lock is granted when no reader is left.  The new connection   *)
(* may have ended by then.                                                 *)
(***************************************************************************)
Store(w) ==
  /\ queue # <<>> /\ Head(queue) = w
  /\ Readers = {}
  /\ Goes(w, "storing", "ok")
  /\ queue' = Tail(queue)
  /\ \E s \in SlotStates \ {"none"} : slot' = [slot EXCEPT ![w[2]] = s]
  /\ UNCHANGED <<sender, callPc>>

Answers(w) == SendFails(w) \/ OldAnswers(w) \/ NewAnswers(w)

(***************************************************************************)
(* When a connection ends, its streams end with an error.                  *)
(***************************************************************************)
StreamEnds(w) ==
  worker[w] = "sendingOld" /\ slot[w[2]] \in Gone /\ SendFails(w)

WorkerStep(w) == GrantRead(w) \/ Open(w) \/ Connect(w) \/ Store(w)

-----------------------------------------------------------------------------
(* A call.                                                                 *)

Starts(c, regions) ==
  LET ws == {c} \X regions
  IN  /\ callPc' = [callPc EXCEPT ![c] = "waiting"]
      /\ worker' = [w \in Workers |-> IF w \in ws THEN "reading" ELSE worker[w]]
      /\ queue' \in {queue \o s : s \in SetToSeqs(ws)}
      /\ UNCHANGED <<sender, slot>>

(***************************************************************************)
(* send_concurrent spawns its workers, which reach the lock in any order.  *)
(***************************************************************************)
Begin(c) ==
  /\ callPc[c] = "idle"
  /\ \/ sender = "bloxroute" /\ Starts(c, Regions)
     \/ sender = "nextblock" /\ Starts(c, {Single})

Own(c) == {w \in Workers : w[1] = c /\ worker[w] # "none"}

Succeeds(c) ==
  /\ callPc[c] = "waiting"
  /\ \E w \in Own(c) : worker[w] = "ok"
  /\ callPc' = [callPc EXCEPT ![c] = "over"]
  /\ UNCHANGED <<sender, slot, worker, queue>>

(***************************************************************************)
(* AllRegionsFailed: the same transaction goes out over HTTP.              *)
(***************************************************************************)
FallsBack(c) ==
  /\ callPc[c] = "waiting"
  /\ \A w \in Own(c) : worker[w] \in Failed
  /\ callPc' = [callPc EXCEPT ![c] = "http"]
  /\ UNCHANGED <<sender, slot, worker, queue>>

HttpAnswers(c) ==
  /\ callPc[c] = "http"
  /\ callPc' = [callPc EXCEPT ![c] = "over"]
  /\ UNCHANGED <<sender, slot, worker, queue>>

\* the one worker of a call of NextBlock is dropped
Leaves(c) ==
  \/ \E i \in DOMAIN queue : queue[i][1] = c /\ queue' = RemoveAt(queue, i)
  \/ (\A i \in DOMAIN queue : queue[i][1] # c) /\ UNCHANGED queue

(***************************************************************************)
(* Another provider was faster, and Swqos aborts the task.  The workers of *)
(* bloXroute are tasks of their own and go on; the one of NextBlock is     *)
(* dropped where it stands, with its place in the queue or its guard.      *)
(***************************************************************************)
Abort(c) ==
  /\ callPc[c] \in {"waiting", "http"}
  /\ callPc' = [callPc EXCEPT ![c] = "over"]
  /\ IF sender = "bloxroute"
     THEN UNCHANGED <<worker, queue>>
     ELSE /\ worker' = [w \in Workers |->
               IF w \in Own(c) /\ worker[w] \in Busy THEN "dropped" ELSE worker[w]]
          /\ Leaves(c)
  /\ UNCHANGED <<sender, slot>>

(***************************************************************************)
(* The bot runs on: a call that is over, with all its workers, makes room  *)
(* for a later one.                                                        *)
(***************************************************************************)
NextCall(c) ==
  /\ callPc[c] = "over"
  /\ \A w \in Own(c) : worker[w] \notin Busy
  /\ callPc' = [callPc EXCEPT ![c] = "idle"]
  /\ worker' = [w \in Workers |-> IF w[1] = c THEN "none" ELSE worker[w]]
  /\ UNCHANGED <<sender, slot, queue>>

(***************************************************************************)
(* A stored connection ends: idle for too long, reset, or closed.          *)
(***************************************************************************)
Ends(r) ==
  /\ slot[r] = "live"
  /\ \E s \in Gone : slot' = [slot EXCEPT ![r] = s]
  /\ UNCHANGED <<sender, callPc, worker, queue>>

CallStep(c) == Succeeds(c) \/ FallsBack(c) \/ HttpAnswers(c)

Next ==
  \/ \E w \in Workers : WorkerStep(w) \/ Answers(w)
  \/ \E c \in Calls : Begin(c) \/ CallStep(c) \/ Abort(c) \/ NextCall(c)
  \/ \E r \in Regions : Ends(r)

Spec == Init /\ [][Next]_vars

(***************************************************************************)
(* Fairness: tasks run, and the lock serves its waiters in order.  A       *)
(* stream ends because the server answers or because quinn ends an idle    *)
(* connection after 30 seconds, its default; nothing in the sender ends a  *)
(* stream to a server that keeps the connection up and does not answer.    *)
(***************************************************************************)
Fairness ==
  /\ \A w \in Workers : WF_vars(WorkerStep(w)) /\ WF_vars(StreamEnds(w))
  /\ \A w \in Workers : w[2] \notin Silent => WF_vars(Answers(w))
  /\ \A c \in Calls : WF_vars(CallStep(c))

FairSpec == Spec /\ Fairness

-----------------------------------------------------------------------------
(***************************************************************************)
(* No connection is replaced while a worker sends on it: replacing drops   *)
(* the last handle, which closes the connection under the stream.          *)
(***************************************************************************)
InUseNotReplaced ==
  [][\A w, v \in Workers :
       worker[w] = "storing" /\ worker'[w] = "ok" /\ v[2] = w[2]
       => worker[v] \notin ReadPhases]_vars

(***************************************************************************)
(* Every worker ends, also those that outlive their aborted call, although *)
(* reconnecting workers and sending workers wait for one another's lock.   *)
(***************************************************************************)
WorkersEnd == \A w \in Workers : worker[w] \in Busy ~> worker[w] \notin Busy

(***************************************************************************)
(* Once a region took the transaction, its call is over soon.              *)
(***************************************************************************)
FirstSuccessEnds ==
  \A c \in Calls :
    (\E w \in Own(c) : worker[w] \in {"storing", "ok"}) ~> callPc[c] = "over"

-----------------------------------------------------------------------------
(* What a comment says, or one might expect, and the code does not do.     *)

(***************************************************************************)
(* A transaction goes out over HTTP only when no region took it.           *)
(***************************************************************************)
HttpOnlyUntaken ==
  \A c \in Calls :
    callPc[c] = "http" => \A w \in Own(c) : worker[w] # "unanswered"

(***************************************************************************)
(* is_connection_error: "Check if a Quinn error indicates the connection   *)
(* is gone"; send_tx then makes a new one.                                 *)
(***************************************************************************)
GoneMeansReconnect ==
  [][\A w \in Workers :
       worker[w] = "opening" /\ slot[w[2]] \in Gone /\ worker'[w] # "opening"
       => worker'[w] \in {"connecting", "dropped"}]_vars
=============================================================================
