---------------------------- MODULE Swqos_proofs ----------------------------
(***************************************************************************)
(* The safety of the concurrent sender, for any number of calls, providers *)
(* and permits.  The inductive invariant adds to the two properties that   *)
(* the set of permit holders is finite, and that a call that spawns none   *)
(* has no tasks.                                                           *)
(***************************************************************************)
EXTENDS Swqos, FiniteSetTheorems, TLAPS

(***************************************************************************)
(* No task exists before a call has spawned its tasks, or when it has no   *)
(* provider to send to.                                                    *)
(***************************************************************************)
TasksSettled ==
  \A c \in Calls, p \in Providers :
    callPc[c] \in {"idle", "fallback"} => task[c][p] = "none"

PermitsCounted == IsFiniteSet(Holders) /\ PermitsKept

IInv == TypeOK /\ OpenIffFailing /\ PermitsCounted /\ TasksSettled

(***************************************************************************)
(* The types of everything but the permits, whose bound needs the count.   *)
(***************************************************************************)
TypesButPermits ==
  /\ now \in 0 .. MaxTime
  /\ known \in SUBSET Providers
  /\ failures \in [Providers -> Nat]
  /\ openedAt \in [Providers -> Nat \cup {Closed}]
  /\ callPc \in [Calls -> CallPhases]
  /\ task \in [Calls -> [Providers -> TaskStates]]
  /\ probe \in [Calls -> SUBSET Providers]
  /\ taken \in SUBSET Calls

-----------------------------------------------------------------------------
(* The circuits.                                                           *)

(***************************************************************************)
(* record_success and record_failure keep the opening time in step with    *)
(* the count of failures.                                                  *)
(***************************************************************************)
LEMMA CircuitsInStep ==
  ASSUME TypeOK, OpenIffFailing, NEW p \in Providers,
         RecordSuccess(p) \/ RecordFailure(p)
  PROVE  /\ known' \in SUBSET Providers
         /\ failures' \in [Providers -> Nat]
         /\ openedAt' \in [Providers -> Nat \cup {Closed}]
         /\ OpenIffFailing'
<1>1. Closed \notin Nat /\ Threshold \in Nat
  BY SwqosAssumption
<1>2. CASE RecordSuccess(p)
  <2>1. /\ failures' = [failures EXCEPT ![p] = 0]
        /\ openedAt' = [openedAt EXCEPT ![p] = Closed]
        /\ known' = known
    BY <1>2 DEF RecordSuccess
  <2>2. failures' \in [Providers -> Nat] /\ openedAt' \in [Providers -> Nat \cup {Closed}]
    BY <2>1 DEF TypeOK
  <2>3. ASSUME NEW q \in Providers
        PROVE  openedAt'[q] # Closed <=> AtThreshold(q)' /\ failures'[q] > 0
    <3>1. CASE q = p
      BY <1>1, <2>1, <3>1 DEF TypeOK
    <3>2. CASE q # p
      BY <2>1, <3>2 DEF TypeOK, OpenIffFailing, AtThreshold
    <3> QED BY <3>1, <3>2
  <2> QED BY <2>1, <2>2, <2>3 DEF OpenIffFailing, TypeOK
<1>3. CASE RecordFailure(p)
  <2>1. failures' = [failures EXCEPT ![p] = failures[p] + 1] /\ known' = known \cup {p}
    BY <1>3 DEF RecordFailure
  <2>2. now \in Nat
    BY SwqosAssumption DEF TypeOK
  <2>3. openedAt' = [openedAt EXCEPT ![p] =
          IF failures'[p] >= Threshold /\ openedAt[p] = Closed THEN now ELSE openedAt[p]]
    BY <1>3 DEF RecordFailure
  <2>4. /\ known' \in SUBSET Providers
        /\ failures' \in [Providers -> Nat]
        /\ openedAt' \in [Providers -> Nat \cup {Closed}]
    BY <2>1, <2>2, <2>3 DEF TypeOK
  <2>5. ASSUME NEW q \in Providers
        PROVE  openedAt'[q] # Closed <=> AtThreshold(q)' /\ failures'[q] > 0
    <3>1. CASE q = p
      <4>1. failures'[p] = failures[p] + 1 /\ failures[p] \in Nat /\ p \in known'
        BY <2>1 DEF TypeOK
      <4>2. openedAt[p] # Closed => failures'[p] >= Threshold
        BY <1>1, <4>1 DEF OpenIffFailing, AtThreshold
      <4>3. openedAt'[p] # Closed <=> failures'[p] >= Threshold
        BY <1>1, <2>2, <2>3, <4>2 DEF TypeOK
      <4> QED BY <3>1, <4>1, <4>3 DEF AtThreshold
    <3>2. CASE q # p
      BY <2>1, <2>3, <3>2 DEF TypeOK, OpenIffFailing, AtThreshold
    <3> QED BY <3>1, <3>2
  <2> QED BY <2>4, <2>5 DEF OpenIffFailing
<1> QED BY <1>2, <1>3

-----------------------------------------------------------------------------
(* The permits.                                                            *)

(***************************************************************************)
(* A task that goes to "sending" adds one holder, ...                      *)
(***************************************************************************)
LEMMA HolderAdded ==
  ASSUME TypeOK, PermitsCounted, NEW c \in Calls, NEW p \in Providers,
         task[c][p] \notin HoldingPermit, NEW s \in HoldingPermit,
         SetTask(c, p, s), permits > 0, permits' = permits - 1
  PROVE  PermitsCounted' /\ permits' \in 0 .. MaxConcurrent
<1>1. Holders' = Holders \cup {<<c, p>>} /\ <<c, p>> \notin Holders
  BY DEF Holders, SetTask, TypeOK
<1>2. IsFiniteSet(Holders') /\ Cardinality(Holders') = Cardinality(Holders) + 1
  BY <1>1, FS_AddElement DEF PermitsCounted
<1>3. Cardinality(Holders) \in Nat /\ permits \in Nat /\ MaxConcurrent \in Nat
  BY FS_CardinalityType, SwqosAssumption DEF PermitsCounted, TypeOK
<1> QED BY <1>2, <1>3 DEF PermitsCounted, PermitsKept, TypeOK

(***************************************************************************)
(* ... and one that leaves it for good removes one.                        *)
(***************************************************************************)
LEMMA HolderRemoved ==
  ASSUME TypeOK, PermitsCounted, NEW c \in Calls, NEW p \in Providers,
         task[c][p] \in HoldingPermit, NEW s \in TaskStates \ HoldingPermit,
         SetTask(c, p, s), permits' = permits + 1
  PROVE  PermitsCounted' /\ permits' \in 0 .. MaxConcurrent
<1>1. Holders' = Holders \ {<<c, p>>} /\ <<c, p>> \in Holders
  BY DEF Holders, SetTask, TypeOK
<1>2. IsFiniteSet(Holders') /\ Cardinality(Holders') = Cardinality(Holders) - 1
  BY <1>1, FS_RemoveElement DEF PermitsCounted
<1>3. /\ Cardinality(Holders) \in Nat /\ Cardinality(Holders') \in Nat
      /\ permits \in Nat /\ MaxConcurrent \in Nat
  BY <1>2, FS_CardinalityType, SwqosAssumption DEF PermitsCounted, TypeOK
<1> QED BY <1>2, <1>3 DEF PermitsCounted, PermitsKept, TypeOK

(***************************************************************************)
(* A step that leaves every holder a holder and every other task none.     *)
(***************************************************************************)
LEMMA HoldersSame ==
  ASSUME PermitsCounted, UNCHANGED permits,
         \A c \in Calls, p \in Providers :
           task'[c][p] \in HoldingPermit <=> task[c][p] \in HoldingPermit
  PROVE  PermitsCounted'
<1>1. Holders' = Holders
  BY DEF Holders
<1> QED BY <1>1 DEF PermitsCounted, PermitsKept

-----------------------------------------------------------------------------
LEMMA InitInvariant == Init => IInv
<1> SUFFICES ASSUME Init PROVE IInv
  OBVIOUS
<1> USE SwqosAssumption
<1>1. TypeOK
  BY DEF Init, TypeOK, CallPhases, TaskStates
<1>2. OpenIffFailing
  BY DEF Init, OpenIffFailing, AtThreshold
<1>3. PermitsCounted
  <2>1. Holders = {}
    BY DEF Init, Holders, HoldingPermit
  <2>2. IsFiniteSet(Holders) /\ Cardinality(Holders) = 0
    BY <2>1, FS_EmptySet
  <2> QED BY <2>2 DEF Init, PermitsCounted, PermitsKept
<1>4. TasksSettled
  BY DEF Init, TasksSettled
<1> QED BY <1>1, <1>2, <1>3, <1>4 DEF IInv

(***************************************************************************)
(* The type invariant needs the bound of the permits only where they move. *)
(***************************************************************************)
LEMMA TypesAndPermits ==
  ASSUME TypesButPermits, permits \in 0 .. MaxConcurrent
  PROVE  TypeOK
BY DEF TypesButPermits, TypeOK

LEMMA TypesSplit ==
  ASSUME TypeOK
  PROVE  TypesButPermits /\ permits \in 0 .. MaxConcurrent
BY DEF TypesButPermits, TypeOK

-----------------------------------------------------------------------------
(* The steps of a call.                                                    *)

LEMMA CallKeeps ==
  ASSUME IInv, NEW c \in Calls, Call(c)
  PROVE  IInv'
<1> USE DEF IInv
<1>1. PICK leaders \in (IF SkipsLeader THEN SUBSET Providers ELSE {{}}) :
        LET active == {p \in Providers : ~IsOpen(p)} \ leaders
        IN  /\ task' = [task EXCEPT ![c] =
                 [p \in Providers |-> IF p \in active THEN "queued" ELSE "none"]]
            /\ probe' = [probe EXCEPT ![c] = {p \in active : IsHalfOpen(p)}]
            /\ callPc' = [callPc EXCEPT ![c] =
                 IF active # {} THEN "waiting"
                 ELSE IF DirectFallback THEN "fallback" ELSE "failed"]
  BY DEF Call
<1> DEFINE active == {p \in Providers : ~IsOpen(p)} \ leaders
<1>2. callPc[c] = "idle" /\ UNCHANGED <<now, known, failures, openedAt, permits, taken>>
  BY DEF Call, circuits
<1>3. TypeOK'
  BY <1>1, <1>2 DEF TypeOK, CallPhases, TaskStates
<1>4. OpenIffFailing'
  BY <1>2 DEF OpenIffFailing, AtThreshold
<1>5. PermitsCounted'
  <2>1. ASSUME NEW d \in Calls, NEW p \in Providers
        PROVE  task'[d][p] \in HoldingPermit <=> task[d][p] \in HoldingPermit
    <3>1. CASE d = c
      BY <1>1, <1>2, <3>1 DEF TypeOK, HoldingPermit, TasksSettled
    <3>2. CASE d # c
      BY <1>1, <3>2 DEF TypeOK
    <3> QED BY <3>1, <3>2
  <2> QED BY <1>2, <2>1, HoldersSame
<1>6. TasksSettled'
  <2> SUFFICES ASSUME NEW d \in Calls, NEW p \in Providers
               PROVE  callPc'[d] \in {"idle", "fallback"} => task'[d][p] = "none"
    BY DEF TasksSettled
  <2>1. CASE d = c
    <3>1. CASE active = {}
      BY <1>1, <2>1, <3>1 DEF TypeOK
    <3>2. CASE active # {}
      <4>1. callPc'[c] = "waiting"
        BY <1>1, <3>2 DEF TypeOK
      <4> QED BY <2>1, <4>1
    <3> QED BY <3>1, <3>2
  <2>2. CASE d # c
    BY <1>1, <2>2 DEF TypeOK, TasksSettled
  <2> QED BY <2>1, <2>2
<1> QED BY <1>3, <1>4, <1>5, <1>6

LEMMA CallStepKeeps ==
  ASSUME IInv, NEW c \in Calls, CallStep(c)
  PROVE  IInv'
<1> USE DEF IInv
<1>1. CASE Fallback(c)
  <2>1. PICK r \in {"sent", "failed"} : callPc' = [callPc EXCEPT ![c] = r]
    BY <1>1 DEF Fallback
  <2>7. taken' \in SUBSET Calls
    BY <1>1 DEF Fallback, Took, MayTook, TypeOK
  <2>2. callPc[c] = "fallback" /\ UNCHANGED <<now, known, failures, openedAt, permits, task, probe>>
    BY <1>1 DEF Fallback, circuits
  <2>3. TypeOK'
    BY <2>1, <2>2, <2>7 DEF TypeOK, CallPhases
  <2>4. OpenIffFailing'
    BY <2>2 DEF OpenIffFailing, AtThreshold
  <2>5. PermitsCounted'
    BY <2>2, HoldersSame
  <2>6. TasksSettled'
    BY <2>1, <2>2 DEF TypeOK, TasksSettled
  <2> QED BY <2>3, <2>4, <2>5, <2>6
<1>2. CASE Lose(c)
  <2>1. /\ callPc' = [callPc EXCEPT ![c] = "failed"]
        /\ UNCHANGED <<now, known, failures, openedAt, permits, task, probe, taken>>
    BY <1>2 DEF Lose, circuits
  <2>2. TypeOK'
    BY <2>1 DEF TypeOK, CallPhases
  <2>3. OpenIffFailing'
    BY <2>1 DEF OpenIffFailing, AtThreshold
  <2>4. PermitsCounted'
    BY <2>1, HoldersSame
  <2>5. TasksSettled'
    BY <2>1 DEF TypeOK, TasksSettled
  <2> QED BY <2>2, <2>3, <2>4, <2>5
<1>3. CASE Win(c)
  <2> DEFINE left(p) == CASE task[c][p] = "queued"  -> "aborted"
                          [] task[c][p] = "sending" -> "aborting"
                          [] OTHER                  -> task[c][p]
  <2>1. /\ callPc' = [callPc EXCEPT ![c] = "sent"]
        /\ task' = [task EXCEPT ![c] = [p \in Providers |-> left(p)]]
        /\ UNCHANGED <<now, known, failures, openedAt, permits, probe, taken>>
    BY <1>3 DEF Win, circuits
  <2>2. \A p \in Providers : /\ left(p) \in TaskStates
                             /\ left(p) \in HoldingPermit <=> task[c][p] \in HoldingPermit
    BY DEF TypeOK, TaskStates, HoldingPermit
  <2> HIDE DEF left
  <2>3. TypeOK'
    BY <2>1, <2>2 DEF TypeOK, CallPhases
  <2>4. OpenIffFailing'
    BY <2>1 DEF OpenIffFailing, AtThreshold
  <2>5. \A d \in Calls, p \in Providers :
          task'[d][p] \in HoldingPermit <=> task[d][p] \in HoldingPermit
    BY <2>1, <2>2 DEF TypeOK
  <2>6. PermitsCounted'
    BY <2>1, <2>5, HoldersSame
  <2>7. TasksSettled'
    BY <2>1 DEF TypeOK, TasksSettled
  <2> QED BY <2>3, <2>4, <2>6, <2>7
<1> QED BY <1>1, <1>2, <1>3 DEF CallStep

-----------------------------------------------------------------------------
(* The steps of a task.                                                    *)

(***************************************************************************)
(* A task that is queued, sends or is being aborted belongs to a call that *)
(* waits or has won, so what becomes of it cannot unsettle a call.         *)
(***************************************************************************)
LEMMA LiveTaskSettled ==
  ASSUME TypeOK, TasksSettled, NEW c \in Calls, NEW p \in Providers,
         task[c][p] \in {"queued", "sending", "aborting"},
         NEW s \in TaskStates, SetTask(c, p, s), UNCHANGED callPc
  PROVE  TasksSettled' /\ task' \in [Calls -> [Providers -> TaskStates]]
<1>1. callPc[c] \notin {"idle", "fallback"}
  BY DEF TasksSettled
<1>2. task' = [task EXCEPT ![c][p] = s]
  BY DEF SetTask
<1>3. task' \in [Calls -> [Providers -> TaskStates]]
  BY <1>2 DEF TypeOK
<1>4. ASSUME NEW d \in Calls, NEW q \in Providers
      PROVE  callPc'[d] \in {"idle", "fallback"} => task'[d][q] = "none"
  <2>1. CASE d = c
    BY <1>1, <2>1
  <2>2. CASE d # c
    BY <1>2, <2>2 DEF TypeOK, TasksSettled
  <2> QED BY <2>1, <2>2
<1> QED BY <1>3, <1>4 DEF TasksSettled

LEMMA TaskStepKeeps ==
  ASSUME IInv, NEW c \in Calls, NEW p \in Providers, TaskStep(c, p)
  PROVE  IInv'
<1> USE DEF IInv
<1>1. CASE Acquire(c, p)
  <2>1. /\ task[c][p] = "queued" /\ SetTask(c, p, "sending")
        /\ permits > 0 /\ permits' = permits - 1
        /\ UNCHANGED <<now, known, failures, openedAt, callPc, probe, taken>>
    BY <1>1 DEF Acquire, circuits
  <2>2. PermitsCounted' /\ permits' \in 0 .. MaxConcurrent
    BY <2>1, HolderAdded DEF HoldingPermit
  <2>3. TasksSettled' /\ task' \in [Calls -> [Providers -> TaskStates]]
    BY <2>1, LiveTaskSettled DEF TaskStates
  <2>4. TypeOK'
    BY <2>1, <2>2, <2>3 DEF TypeOK
  <2>5. OpenIffFailing'
    BY <2>1 DEF OpenIffFailing, AtThreshold
  <2> QED BY <2>2, <2>3, <2>4, <2>5
<1>2. CASE Accepted(c, p)
  <2>1. /\ task[c][p] \in HoldingPermit /\ RecordSuccess(p)
        /\ SetTask(c, p, "ok") /\ permits' = permits + 1
        /\ UNCHANGED <<now, callPc, probe>> /\ taken' = taken \cup {c}
    BY <1>2 DEF Accepted, Took
  <2>2. PermitsCounted' /\ permits' \in 0 .. MaxConcurrent
    BY <2>1, HolderRemoved DEF HoldingPermit, TaskStates
  <2>3. TasksSettled' /\ task' \in [Calls -> [Providers -> TaskStates]]
    BY <2>1, LiveTaskSettled DEF HoldingPermit, TaskStates
  <2>4. /\ known' \in SUBSET Providers
        /\ failures' \in [Providers -> Nat]
        /\ openedAt' \in [Providers -> Nat \cup {Closed}]
        /\ OpenIffFailing'
    BY <2>1, CircuitsInStep
  <2>5. TypeOK'
    BY <2>1, <2>2, <2>3, <2>4 DEF TypeOK
  <2> QED BY <2>2, <2>3, <2>4, <2>5
<1>3. CASE Refused(c, p) \/ AnswerLost(c, p)
  <2>1. /\ task[c][p] \in HoldingPermit /\ RecordFailure(p)
        /\ SetTask(c, p, "failed") /\ permits' = permits + 1
        /\ UNCHANGED <<now, callPc, probe>> /\ taken' \in {taken, taken \cup {c}}
    BY <1>3 DEF Refused, AnswerLost, Took
  <2>2. PermitsCounted' /\ permits' \in 0 .. MaxConcurrent
    BY <2>1, HolderRemoved DEF HoldingPermit, TaskStates
  <2>3. TasksSettled' /\ task' \in [Calls -> [Providers -> TaskStates]]
    BY <2>1, LiveTaskSettled DEF HoldingPermit, TaskStates
  <2>4. /\ known' \in SUBSET Providers
        /\ failures' \in [Providers -> Nat]
        /\ openedAt' \in [Providers -> Nat \cup {Closed}]
        /\ OpenIffFailing'
    BY <2>1, CircuitsInStep
  <2>5. TypeOK'
    BY <2>1, <2>2, <2>3, <2>4 DEF TypeOK
  <2> QED BY <2>2, <2>3, <2>4, <2>5
<1>4. CASE Dropped(c, p)
  <2>1. /\ task[c][p] = "aborting" /\ SetTask(c, p, "aborted")
        /\ permits' = permits + 1
        /\ UNCHANGED <<now, known, failures, openedAt, callPc, probe, taken>>
    BY <1>4 DEF Dropped, circuits
  <2>2. PermitsCounted' /\ permits' \in 0 .. MaxConcurrent
    BY <2>1, HolderRemoved DEF HoldingPermit, TaskStates
  <2>3. TasksSettled' /\ task' \in [Calls -> [Providers -> TaskStates]]
    BY <2>1, LiveTaskSettled DEF TaskStates
  <2>4. TypeOK'
    BY <2>1, <2>2, <2>3 DEF TypeOK
  <2>5. OpenIffFailing'
    BY <2>1 DEF OpenIffFailing, AtThreshold
  <2> QED BY <2>2, <2>3, <2>4, <2>5
<1> QED BY <1>1, <1>2, <1>3, <1>4 DEF TaskStep

LEMMA StepKeepsInvariant == IInv /\ [Next]_vars => IInv'
<1> SUFFICES ASSUME IInv, [Next]_vars PROVE IInv'
  OBVIOUS
<1>1. CASE UNCHANGED vars
  BY <1>1 DEF IInv, vars, circuits, TypeOK, OpenIffFailing, AtThreshold,
              PermitsCounted, PermitsKept,
              Holders, TasksSettled
<1>2. ASSUME NEW c \in Calls, Call(c) PROVE IInv'
  BY <1>2, CallKeeps
<1>3. ASSUME NEW c \in Calls, CallStep(c) PROVE IInv'
  BY <1>3, CallStepKeeps
<1>4. ASSUME NEW c \in Calls, NEW p \in Providers, TaskStep(c, p) PROVE IInv'
  BY <1>4, TaskStepKeeps
<1>5. CASE Tick
  <2>1. /\ now < MaxTime /\ now' = now + 1
        /\ UNCHANGED <<known, failures, openedAt, permits, callPc, task, probe, taken>>
    BY <1>5 DEF Tick, circuits
  <2>2. TypeOK'
    BY <2>1, SwqosAssumption DEF IInv, TypeOK
  <2> QED BY <2>1, <2>2 DEF IInv, OpenIffFailing, AtThreshold, PermitsCounted,
                            PermitsKept, Holders, TasksSettled
<1> QED BY <1>1, <1>2, <1>3, <1>4, <1>5 DEF Next

THEOREM InvariantHolds == Spec => []IInv
BY InitInvariant, StepKeepsInvariant, PTL DEF Spec

-----------------------------------------------------------------------------
(***************************************************************************)
(* For any providers, calls, times and thresholds, zero included, an       *)
(* opening time is set exactly while the last answers are failures that    *)
(* reach the threshold: record_success and record_failure keep the fields  *)
(* of a circuit consistent.                                                *)
(***************************************************************************)
THEOREM CircuitsConsistent == Spec => []OpenIffFailing
<1>1. IInv => OpenIffFailing
  BY DEF IInv
<1> QED BY <1>1, InvariantHolds, PTL

(***************************************************************************)
(* For any number of calls, send_semaphore loses no permit and gains none, *)
(* also when Win aborts tasks that hold one.                               *)
(***************************************************************************)
THEOREM PermitsNeverLost == Spec => []PermitsKept
<1>1. IInv => PermitsKept
  BY DEF IInv, PermitsCounted
<1> QED BY <1>1, InvariantHolds, PTL
=============================================================================
