----------------------------- MODULE CopyEngine -----------------------------
(***************************************************************************)
(* The WebSocket way of detection: the listener forwards notifications to  *)
(* the copy engine, which spawns a task for each that may be a trade; the  *)
(* task fetches the transaction while it holds one of a few permits, and   *)
(* keeps the permit until what it found is in the channels of Dispatch.    *)
(***************************************************************************)
EXTENDS Dispatch, FiniteSets

CONSTANTS
  Stream,       \* what the node notifies of: a sequence of signatures
  Trades,       \* those whose logs look like a trade on a known exchange
  WsCap,        \* capacity of the channel of notifications (1000 in main)
  MaxRpc,       \* MAX_CONCURRENT_RPC
  MaxRetries    \* Len of RETRY_DELAYS_MS

ASSUME CopyEngineAssumption ==
  /\ Stream \in Seq(Sigs)
  /\ Trades \subseteq Sigs
  /\ WsCap \in Nat \ {0}
  /\ MaxRpc \in Nat \ {0}
  /\ MaxRetries \in Nat

VARIABLES
  next,      \* what the node sends next
  wsChan,    \* notifications that the engine has not taken yet
  job,       \* what became of each notification
  attempt,   \* the attempt each fetch is in
  found,     \* what a job has found and still has to send
  permits    \* free permits of rpc_semaphore

engineVars == <<next, wsChan, job, attempt, found, permits>>

vars == <<dispatchVars, engineVars>>

(***************************************************************************)
(* A notification is its place in the stream: the node may send one twice. *)
(***************************************************************************)
Notifications == 1 .. Len(Stream)

Kinds == {"buy", "sell"}

JobStates == {"none", "skipped", "waiting", "fetching", "sending", "done"}

Over == {"skipped", "done"}

Init ==
  /\ DispatchInit
  /\ next = 1
  /\ wsChan = <<>>
  /\ job = [n \in Notifications |-> "none"]
  /\ attempt = [n \in Notifications |-> 0]
  /\ found = [n \in Notifications |-> <<>>]
  /\ permits = MaxRpc

TypeOK ==
  /\ DispatchTypeOK
  /\ next \in 1 .. Len(Stream) + 1
  /\ wsChan \in Seq(Notifications) /\ Len(wsChan) <= WsCap
  /\ job \in [Notifications -> JobStates]
  /\ attempt \in [Notifications -> 0 .. MaxRetries]
  /\ found \in [Notifications -> Seq(Kinds)]
  /\ permits \in 0 .. MaxRpc

-----------------------------------------------------------------------------
(* The listener.                                                           *)

Forward ==
  /\ next <= Len(Stream)
  /\ Len(wsChan) < WsCap
  /\ wsChan' = Append(wsChan, next)
  /\ next' = next + 1
  /\ UNCHANGED <<dispatchVars, job, attempt, found, permits>>

(***************************************************************************)
(* The connection was down when the node would have sent this one.         *)
(***************************************************************************)
Miss ==
  /\ next <= Len(Stream)
  /\ next' = next + 1
  /\ UNCHANGED <<dispatchVars, wsChan, job, attempt, found, permits>>

-----------------------------------------------------------------------------
(* The engine.                                                             *)

TakeNotification ==
  /\ wsChan # <<>>
  /\ wsChan' = Tail(wsChan)
  /\ job' = [job EXCEPT ![Head(wsChan)] =
               IF Stream[Head(wsChan)] \in Trades THEN "waiting" ELSE "skipped"]
  /\ UNCHANGED <<dispatchVars, next, attempt, found, permits>>

Acquire(n) ==
  /\ job[n] = "waiting"
  /\ permits > 0
  /\ permits' = permits - 1
  /\ job' = [job EXCEPT ![n] = "fetching"]
  /\ UNCHANGED <<dispatchVars, next, wsChan, attempt, found>>

RateLimitedForever(n) ==      \* mutant: the attempts start over
  /\ job[n] = "fetching"
  /\ attempt' = [attempt EXCEPT ![n] = IF @ < MaxRetries THEN @ + 1 ELSE 0]
  /\ UNCHANGED <<dispatchVars, next, wsChan, job, found, permits>>

RateLimited(n) ==
  /\ job[n] = "fetching"
  /\ attempt[n] < MaxRetries
  /\ attempt' = [attempt EXCEPT ![n] = @ + 1]
  /\ UNCHANGED <<dispatchVars, next, wsChan, job, found, permits>>

Finish(n) ==
  /\ job' = [job EXCEPT ![n] = "done"]
  /\ permits' = permits + 1

FetchFails(n) ==
  /\ job[n] = "fetching"
  /\ Finish(n)
  /\ UNCHANGED <<dispatchVars, next, wsChan, attempt, found>>

ToSendSellFirst(kinds) ==     \* mutant: the sell is handled before the buy
  (IF "sell" \in kinds /\ MirrorAtStart THEN <<"sell">> ELSE <<>>)
    \o (IF "buy" \in kinds THEN <<"buy">> ELSE <<>>)

(***************************************************************************)
(* The buy of a transaction is sent before its sell; without the channel   *)
(* for sells, which is set up at startup, a sell is dropped.               *)
(***************************************************************************)
ToSend(kinds) ==
  (IF "buy" \in kinds THEN <<"buy">> ELSE <<>>)
    \o (IF "sell" \in kinds /\ MirrorAtStart THEN <<"sell">> ELSE <<>>)

(***************************************************************************)
(* What a transaction may be found to contain: on the bonding curve the    *)
(* first buy and the first sell, elsewhere only the first of either.       *)
(***************************************************************************)
FoundIn == [curve |-> SUBSET Kinds, amm |-> {{}, {"buy"}, {"sell"}}]

Fetched(n) ==
  /\ job[n] = "fetching"
  /\ \E x \in DOMAIN FoundIn : \E kinds \in FoundIn[x] :
       /\ found' = [found EXCEPT ![n] = ToSend(kinds)]
       /\ IF ToSend(kinds) = <<>>
          THEN Finish(n)
          ELSE job' = [job EXCEPT ![n] = "sending"] /\ UNCHANGED permits
  /\ UNCHANGED <<dispatchVars, next, wsChan, attempt>>

Deliver(n) ==
  /\ job[n] = "sending"
  /\ IF Head(found[n]) = "buy" THEN PutBuy(Stream[n]) ELSE PutMirror(Stream[n])
  /\ found' = [found EXCEPT ![n] = Tail(@)]
  /\ IF Len(found[n]) = 1 THEN Finish(n) ELSE UNCHANGED <<job, permits>>
  /\ UNCHANGED <<next, wsChan, attempt>>

FetchStep(n) == RateLimited(n) \/ FetchFails(n) \/ Fetched(n)

Next ==
  \/ Forward \/ Miss \/ TakeNotification
  \/ \E n \in Notifications : Acquire(n) \/ FetchStep(n) \/ Deliver(n)
  \/ DispatchNext /\ UNCHANGED engineVars

Spec == Init /\ [][Next]_vars

(***************************************************************************)
(* Fairness: the receive loop runs, every request is answered or times out *)
(* after ten seconds, permits and channels serve in order, and the main    *)
(* loop's select passes no ready arm over for ever.                        *)
(***************************************************************************)
Fairness ==
  /\ WF_vars(TakeNotification)
  /\ \A n \in Notifications :
       SF_vars(Acquire(n)) /\ WF_vars(FetchStep(n)) /\ SF_vars(Deliver(n))
  /\ WF_vars((SkipDuplicate \/ SpawnBuy) /\ UNCHANGED engineVars)
  /\ SF_vars(TakeMirror /\ UNCHANGED engineVars)

FairSpec == Spec /\ Fairness

-----------------------------------------------------------------------------
(***************************************************************************)
(* Unless mirror sells are switched off for good, every notification that  *)
(* the engine was given is dealt with: permits and channels form no cycle. *)
(***************************************************************************)
NotificationsEnd ==
  []<>mirrorOn => \A n \in Notifications : (job[n] = "waiting") ~> (job[n] \in Over)

(***************************************************************************)
(* A buy that was fetched is dispatched, also when the channel of sells    *)
(* is full and nobody reads it.                                            *)
(***************************************************************************)
FetchedBuyDispatched ==
  \A n \in Notifications :
    (\E i \in 1 .. Len(found[n]) : found[n][i] = "buy") ~> spawnedAt[Stream[n]] # Never

-----------------------------------------------------------------------------
(* What a comment says and the code does not do.                           *)

(***************************************************************************)
(* run_copy_engine: a task that waits for a permit waits "here instead of  *)
(* in the receive loop, so detection of later notifications keeps          *)
(* progressing".                                                           *)
(***************************************************************************)
KeepsProgressing ==
  \A n \in Notifications : (job[n] = "waiting") ~> (job[n] \in Over)
=============================================================================
