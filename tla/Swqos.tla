-------------------------------- MODULE Swqos --------------------------------
(***************************************************************************)
(* SwqosSender: one signed transaction goes to every provider that its     *)
(* circuit breaker lets through, one spawned task for each; the first      *)
(* provider to accept it wins and the other tasks are aborted.  All calls  *)
(* share a semaphore and the circuits.                                     *)
(***************************************************************************)
EXTENDS Integers, FiniteSets

CONSTANTS
  Calls,          \* calls of send_concurrent, each made once
  Providers,
  Threshold,      \* swqos_circuit_breaker_failures
  Cooldown,       \* swqos_circuit_breaker_cooldown_secs
  MaxConcurrent,  \* swqos_max_concurrent_sends
  SkipsLeader,    \* the own-leader rule leaves out providers
  DirectFallback, \* the own-leader rule falls back to sendTransaction
  Closed,         \* openedAt of a circuit that has not opened
  MaxTime         \* bound: the last instant of a behaviour

ASSUME SwqosAssumption ==
  /\ Threshold \in Nat
  /\ Cooldown \in Nat
  /\ MaxConcurrent \in Nat
  /\ SkipsLeader \in BOOLEAN
  /\ DirectFallback \in BOOLEAN
  /\ Closed \notin Nat
  /\ MaxTime \in Nat

VARIABLES
  now,        \* Instant::now(), in seconds
  known,      \* providers that have an entry in circuits
  failures,   \* consecutive_failures of each provider
  openedAt,   \* opened_at of each provider
  permits,    \* free permits of send_semaphore
  callPc,     \* where each call stands
  task,       \* what became of the task of each call for each provider
  probe,      \* tasks that were spawned for a half-open circuit
  taken       \* calls whose transaction somebody took

vars == <<now, known, failures, openedAt, permits, callPc, task, probe, taken>>

circuits == <<known, failures, openedAt>>

CallPhases == {"idle", "waiting", "fallback", "sent", "failed"}

(***************************************************************************)
(* A task that has been told to abort may still be running its last poll   *)
(* on another thread; it holds its permit until it is dropped.             *)
(***************************************************************************)
TaskStates == {"none", "queued", "sending", "ok", "failed",
               "aborting", "aborted"}

HoldingPermit == {"sending", "aborting"}

Init ==
  /\ now = 0
  /\ known = {}
  /\ failures = [p \in Providers |-> 0]
  /\ openedAt = [p \in Providers |-> Closed]
  /\ permits = MaxConcurrent
  /\ callPc = [c \in Calls |-> "idle"]
  /\ task = [c \in Calls |-> [p \in Providers |-> "none"]]
  /\ probe = [c \in Calls |-> {}]
  /\ taken = {}

TypeOK ==
  /\ now \in 0 .. MaxTime
  /\ known \in SUBSET Providers
  /\ failures \in [Providers -> Nat]
  /\ openedAt \in [Providers -> Nat \cup {Closed}]
  /\ permits \in 0 .. MaxConcurrent
  /\ callPc \in [Calls -> CallPhases]
  /\ task \in [Calls -> [Providers -> TaskStates]]
  /\ probe \in [Calls -> SUBSET Providers]
  /\ taken \in SUBSET Calls

-----------------------------------------------------------------------------
(* ProviderHealthTracker.  The first failure of a provider makes its entry;*)
(* a provider without one is closed, with any threshold.                   *)

AtThreshold(p) == p \in known /\ failures[p] >= Threshold

IsOpen(p) ==
  /\ AtThreshold(p)
  /\ openedAt[p] # Closed => now - openedAt[p] < Cooldown

IsHalfOpen(p) == AtThreshold(p) /\ ~IsOpen(p)

RecordSuccessStaysOpen(p) ==   \* mutant: opened_at is not reset
  /\ failures' = [failures EXCEPT ![p] = 0]
  /\ UNCHANGED <<known, openedAt>>

RecordSuccess(p) ==
  /\ failures' = [failures EXCEPT ![p] = 0]
  /\ openedAt' = [openedAt EXCEPT ![p] = Closed]
  /\ UNCHANGED known

RecordFailure(p) ==
  /\ known' = known \cup {p}
  /\ failures' = [failures EXCEPT ![p] = @ + 1]
  /\ openedAt' = [openedAt EXCEPT ![p] =
       IF failures'[p] >= Threshold /\ @ = Closed THEN now ELSE @]

-----------------------------------------------------------------------------
(* A call.                                                                 *)

SetTask(c, p, s) == task' = [task EXCEPT ![c][p] = s]

(***************************************************************************)
(* The providers are asked one after another without an await; no property *)
(* relates the answers of two providers, so this is one step.              *)
(***************************************************************************)
Call(c) ==
  /\ callPc[c] = "idle"
  /\ \E leaders \in (IF SkipsLeader THEN SUBSET Providers ELSE {{}}) :
       LET active == {p \in Providers : ~IsOpen(p)} \ leaders
       IN  /\ task' = [task EXCEPT ![c] =
                [p \in Providers |-> IF p \in active THEN "queued" ELSE "none"]]
           /\ probe' = [probe EXCEPT ![c] = {p \in active : IsHalfOpen(p)}]
           /\ callPc' = [callPc EXCEPT ![c] =
                IF active # {} THEN "waiting"
                ELSE IF DirectFallback THEN "fallback" ELSE "failed"]
  /\ UNCHANGED <<now, circuits, permits, taken>>

\* somebody took the transaction of a call, or may have taken it
Took(c)    == taken' = taken \cup {c}
MayTook(c) == taken' \in {taken, taken \cup {c}}

(***************************************************************************)
(* sendTransaction to the first RPC URL: its error may follow a            *)
(* transaction that was taken.                                             *)
(***************************************************************************)
Fallback(c) ==
  /\ callPc[c] = "fallback"
  /\ \/ callPc' = [callPc EXCEPT ![c] = "sent"] /\ Took(c)
     \/ callPc' = [callPc EXCEPT ![c] = "failed"] /\ MayTook(c)
  /\ UNCHANGED <<now, circuits, permits, task, probe>>

Acquire(c, p) ==
  /\ task[c][p] = "queued"
  /\ permits > 0
  /\ permits' = permits - 1
  /\ SetTask(c, p, "sending")
  /\ UNCHANGED <<now, circuits, callPc, probe, taken>>

(***************************************************************************)
(* send_to_provider returns: the circuit is told, the result goes to the   *)
(* call, the permit is dropped.                                            *)
(***************************************************************************)
Accepted(c, p) ==
  /\ task[c][p] \in HoldingPermit
  /\ RecordSuccess(p)
  /\ SetTask(c, p, "ok")
  /\ permits' = permits + 1
  /\ Took(c)
  /\ UNCHANGED <<now, callPc, probe>>

\* an error, from a provider that refused the transaction or was not reached
Refused(c, p) ==
  /\ task[c][p] \in HoldingPermit
  /\ RecordFailure(p)
  /\ SetTask(c, p, "failed")
  /\ permits' = permits + 1
  /\ UNCHANGED <<now, callPc, probe, taken>>

(***************************************************************************)
(* The provider took the transaction, and its answer came too late, was    *)
(* lost or could not be read: the same error for the task.                 *)
(***************************************************************************)
AnswerLost(c, p) ==
  /\ task[c][p] \in HoldingPermit
  /\ RecordFailure(p)
  /\ SetTask(c, p, "failed")
  /\ permits' = permits + 1
  /\ Took(c)
  /\ UNCHANGED <<now, callPc, probe>>

(***************************************************************************)
(* The call reads a success: it aborts what is still under way.            *)
(***************************************************************************)
Win(c) ==
  /\ callPc[c] = "waiting"
  /\ \E p \in Providers : task[c][p] = "ok"
  /\ callPc' = [callPc EXCEPT ![c] = "sent"]
  /\ task' = [task EXCEPT ![c] = [p \in Providers |->
                CASE task[c][p] = "queued"  -> "aborted"
                  [] task[c][p] = "sending" -> "aborting"
                  [] OTHER                  -> task[c][p]]]
  /\ UNCHANGED <<now, circuits, permits, probe, taken>>

LoseWaits(c) ==               \* mutant: the call keeps its own sender open
  /\ callPc[c] = "waiting"
  /\ \A p \in Providers : task[c][p] \in {"none", "failed"}
  /\ UNCHANGED vars

(***************************************************************************)
(* Every task has answered and the result channel is closed.               *)
(***************************************************************************)
Lose(c) ==
  /\ callPc[c] = "waiting"
  /\ \A p \in Providers : task[c][p] \in {"none", "failed"}
  /\ callPc' = [callPc EXCEPT ![c] = "failed"]
  /\ UNCHANGED <<now, circuits, permits, task, probe, taken>>

DroppedWithPermit(c, p) ==    \* mutant: the permit is forgotten with the task
  /\ task[c][p] = "aborting"
  /\ SetTask(c, p, "aborted")
  /\ UNCHANGED <<now, circuits, permits, callPc, probe, taken>>

\* its call has won, so that somebody took the transaction already
Dropped(c, p) ==
  /\ task[c][p] = "aborting"
  /\ SetTask(c, p, "aborted")
  /\ permits' = permits + 1
  /\ UNCHANGED <<now, circuits, callPc, probe, taken>>

Tick ==
  /\ now < MaxTime
  /\ now' = now + 1
  /\ UNCHANGED <<circuits, permits, callPc, task, probe, taken>>

TaskStep(c, p) ==
  \/ Acquire(c, p)
  \/ Accepted(c, p) \/ Refused(c, p) \/ AnswerLost(c, p)
  \/ Dropped(c, p)

CallStep(c) == Fallback(c) \/ Win(c) \/ Lose(c)

Next ==
  \/ \E c \in Calls : Call(c) \/ CallStep(c)
  \/ \E c \in Calls, p \in Providers : TaskStep(c, p)
  \/ Tick

Spec == Init /\ [][Next]_vars

(***************************************************************************)
(* Fairness: a spawned task runs, and permits are handed out first come,   *)
(* first served.  A provider answers over HTTP within ten seconds or the   *)
(* request times out; that a send over QUIC ends is assumed (QuicSender).  *)
(***************************************************************************)
Fairness ==
  /\ \A c \in Calls : WF_vars(CallStep(c))
  /\ \A c \in Calls, p \in Providers :
       /\ WF_vars(TaskStep(c, p))
       /\ SF_vars(Acquire(c, p))

FairSpec == Spec /\ Fairness

-----------------------------------------------------------------------------
(***************************************************************************)
(* A circuit carries an opening time exactly while its last answers are    *)
(* failures that reach the threshold, over all calls, aborts and probes.   *)
(* With a threshold that is not zero the branch of state() for "at         *)
(* threshold but no opened_at", which skips the provider for ever, is then *)
(* never taken; with zero, which validate accepts, it is (SuccessCloses).  *)
(***************************************************************************)
OpenIffFailing ==
  \A p \in Providers :
    openedAt[p] # Closed <=> AtThreshold(p) /\ failures[p] > 0

(***************************************************************************)
(* No permit of send_semaphore is lost or minted, whichever way the tasks  *)
(* of a call end: one permit for each task that sends or is being aborted. *)
(***************************************************************************)
Holders == {cp \in Calls \X Providers : task[cp[1]][cp[2]] \in HoldingPermit}

PermitsKept == permits + Cardinality(Holders) = MaxConcurrent

(***************************************************************************)
(* A call of send_concurrent ends, however many calls compete for the      *)
(* permits and whatever the providers answer, if there is a permit at all: *)
(* validate accepts swqos_max_concurrent_sends = 0, and no call ends then. *)
(***************************************************************************)
CallsEnd ==
  MaxConcurrent > 0 =>
    \A c \in Calls : callPc[c] = "waiting" ~> callPc[c] \in {"sent", "failed"}

-----------------------------------------------------------------------------
(* What the comments say, or a caller takes for granted, and the code does *)
(* not do.                                                                 *)

(***************************************************************************)
(* record_success: "Resets consecutive failures to 0 and closes circuit".  *)
(* With a threshold of zero, zero failures reach it: the success leaves    *)
(* the circuit open, without an opening time whose cooldown could elapse.  *)
(***************************************************************************)
SuccessCloses ==
  [][\A c \in Calls, p \in Providers :
       task[c][p] # "ok" /\ task'[c][p] = "ok" => ~IsOpen(p)']_vars

(***************************************************************************)
(* main frees the slot of the mint on an error of send_concurrent, as if   *)
(* nothing had been bought; a provider may have the transaction, though.   *)
(***************************************************************************)
ErrorMeansNotTaken == \A c \in Calls : callPc[c] = "failed" => c \notin taken

(***************************************************************************)
(* swqos_circuit_breaker_cooldown_secs: "transitioning to HalfOpen (a      *)
(* single probe attempt)".                                                 *)
(***************************************************************************)
Probing(p) == {c \in Calls : p \in probe[c] /\ task[c][p] \in {"queued", "sending"}}

SingleProbe == \A p \in Providers : Cardinality(Probing(p)) <= 1

(***************************************************************************)
(* send_concurrent: "HalfOpen state (cooldown elapsed) get one probe       *)
(* attempt - success closes the circuit, failure re-opens it".             *)
(***************************************************************************)
FailedProbeReopens ==
  [][\A c \in Calls, p \in Providers :
       /\ p \in probe[c] /\ IsHalfOpen(p)
       /\ task[c][p] = "sending" /\ task'[c][p] = "failed"
       => IsOpen(p)']_vars
=============================================================================
