-------------------------- MODULE QuicSender_proofs --------------------------
(***************************************************************************)
(* The write lock of the connections and its queue, for any number of      *)
(* calls and regions, silent and lossy ones included.                      *)
(***************************************************************************)
EXTENDS QuicSender, FiniteSetTheorems, SequenceTheorems, TLAPS

(***************************************************************************)
(* The part of the type that the argument needs.                           *)
(***************************************************************************)
Typed ==
  /\ callPc \in [Calls -> CallPhases]
  /\ worker \in [Workers -> WorkerPhases]

-----------------------------------------------------------------------------
(* The queue of the RwLock.                                                *)

(***************************************************************************)
(* What the steps of the queue do to a sequence without duplicates.        *)
(***************************************************************************)
LEMMA HeadLeaves ==
  ASSUME NEW S, NEW q \in Seq(S), q # <<>>, IsInjective(q)
  PROVE  /\ Tail(q) \in Seq(S)
         /\ IsInjective(Tail(q))
         /\ Range(Tail(q)) = Range(q) \ {Head(q)}
<1>1. Len(q) \in Nat /\ Len(q) > 0 /\ DOMAIN q = 1 .. Len(q)
  BY EmptySeq, LenProperties
<1>2. /\ Tail(q) \in Seq(S)
      /\ Len(Tail(q)) = Len(q) - 1
      /\ \A i \in 1 .. Len(q) - 1 : Tail(q)[i] = q[i + 1]
  BY HeadTailProperties
<1>3. DOMAIN Tail(q) = 1 .. Len(q) - 1
  BY <1>2, LenProperties
<1>4. IsInjective(Tail(q))
  BY <1>1, <1>2, <1>3 DEF IsInjective
<1>5. ASSUME NEW x \in Range(Tail(q)) PROVE x \in Range(q) \ {q[1]}
  <2>1. PICK i \in 1 .. Len(q) - 1 : x = q[i + 1]
    BY <1>2, <1>3, <1>5 DEF Range
  <2>2. i + 1 \in DOMAIN q /\ 1 \in DOMAIN q /\ i + 1 # 1
    BY <1>1, <2>1
  <2> QED BY <2>1, <2>2 DEF Range, IsInjective
<1>6. ASSUME NEW x \in Range(q) \ {q[1]} PROVE x \in Range(Tail(q))
  <2>1. PICK i \in DOMAIN q : x = q[i]
    BY <1>6 DEF Range
  <2>2. i - 1 \in 1 .. Len(q) - 1 /\ (i - 1) + 1 = i
    BY <1>1, <1>6, <2>1
  <2> QED BY <1>2, <1>3, <2>1, <2>2 DEF Range
<1>7. Head(q) = q[1]
  BY <1>1
<1> QED BY <1>2, <1>4, <1>5, <1>6, <1>7

LEMMA OthersJoin ==
  ASSUME NEW S, NEW q \in Seq(S), NEW s \in Seq(S), IsInjective(q), IsInjective(s),
         Range(q) \cap Range(s) = {}
  PROVE  /\ q \o s \in Seq(S)
         /\ IsInjective(q \o s)
         /\ Range(q \o s) = Range(q) \cup Range(s)
<1>1. /\ q \o s \in Seq(S)
      /\ Len(q \o s) = Len(q) + Len(s)
      /\ \A i \in 1 .. Len(q) + Len(s) :
           (q \o s)[i] = IF i <= Len(q) THEN q[i] ELSE s[i - Len(q)]
  BY ConcatProperties
<1>2. /\ Len(q) \in Nat /\ Len(s) \in Nat
      /\ DOMAIN q = 1 .. Len(q) /\ DOMAIN s = 1 .. Len(s)
      /\ DOMAIN (q \o s) = 1 .. Len(q) + Len(s)
  BY <1>1, LenProperties
<1>3. \A i \in 1 .. Len(q) + Len(s) :
        \/ i \in DOMAIN q /\ (q \o s)[i] = q[i]
        \/ i - Len(q) \in DOMAIN s /\ i \notin DOMAIN q /\ (q \o s)[i] = s[i - Len(q)]
  BY <1>1, <1>2
<1>4. \A i \in DOMAIN q, j \in DOMAIN s : q[i] # s[j]
  BY DEF Range
<1>5. ASSUME NEW i \in DOMAIN (q \o s), NEW j \in DOMAIN (q \o s), (q \o s)[i] = (q \o s)[j]
      PROVE  i = j
  BY <1>2, <1>3, <1>4, <1>5 DEF IsInjective
<1>6. Range(q \o s) = Range(q) \cup Range(s)
  BY RangeConcatenation
<1> QED BY <1>1, <1>5, <1>6 DEF IsInjective

LEMMA OneJoins ==
  ASSUME NEW S, NEW q \in Seq(S), NEW e \in S, IsInjective(q), e \notin Range(q)
  PROVE  /\ Append(q, e) \in Seq(S)
         /\ IsInjective(Append(q, e))
         /\ Range(Append(q, e)) = Range(q) \cup {e}
<1> DEFINE t == <<e>>
<1>1. t \in Seq(S) /\ Range(t) = {e} /\ IsInjective(t)
  BY DEF Range, IsInjective
<1>2. Append(q, e) = q \o t
  BY AppendIsConcat
<1> HIDE DEF t
<1>3. Range(q) \cap Range(t) = {}
  BY <1>1
<1>4. /\ q \o t \in Seq(S)
      /\ IsInjective(q \o t)
      /\ Range(q \o t) = Range(q) \cup Range(t)
  BY <1>1, <1>3, OthersJoin
<1> QED BY <1>1, <1>2, <1>4

LEMMA OneLeaves ==
  ASSUME NEW S, NEW q \in Seq(S), IsInjective(q), NEW i \in DOMAIN q
  PROVE  /\ RemoveAt(q, i) \in Seq(S)
         /\ IsInjective(RemoveAt(q, i))
         /\ Range(RemoveAt(q, i)) = Range(q) \ {q[i]}
<1>1. /\ Len(q) \in Nat /\ DOMAIN q = 1 .. Len(q)
      /\ \A j \in 1 .. Len(q) : q[j] \in S
      /\ i \in Nat /\ 1 <= i /\ i <= Len(q)
  BY LenProperties, ElementOfSeq
<1> DEFINE a == SubSeq(q, 1, i - 1)
           b == SubSeq(q, i + 1, Len(q))
<1>2. /\ a \in Seq(S) /\ Len(a) = i - 1
      /\ \A j \in 1 .. i - 1 : a[j] = q[j]
  BY <1>1, SubSeqProperties
<1>3. /\ b \in Seq(S) /\ Len(b) = Len(q) - i
      /\ \A j \in 1 .. Len(q) - i : b[j] = q[i + j]
  <2>1. \A j \in i + 1 .. Len(q) : q[j] \in S
    BY <1>1
  <2>2. /\ b \in Seq(S)
        /\ Len(b) = IF i + 1 <= Len(q) THEN Len(q) - (i + 1) + 1 ELSE 0
        /\ \A j \in 1 .. Len(q) - (i + 1) + 1 : b[j] = q[i + 1 + j - 1]
    BY <1>1, <2>1, SubSeqProperties
  <2> QED BY <1>1, <2>2
<1>4. DOMAIN a = 1 .. i - 1 /\ DOMAIN b = 1 .. Len(q) - i
  BY <1>2, <1>3, LenProperties
<1> HIDE DEF a, b
<1>5. /\ \A j \in DOMAIN a : j \in DOMAIN q /\ j < i /\ a[j] = q[j]
      /\ \A j \in DOMAIN b : i + j \in DOMAIN q /\ i + j > i /\ b[j] = q[i + j]
      /\ \A j \in DOMAIN a \cup DOMAIN b : j \in Int
  BY <1>1, <1>2, <1>3, <1>4
<1>6. IsInjective(a) /\ IsInjective(b)
  BY <1>1, <1>5 DEF IsInjective
<1>7. /\ Range(a) \subseteq Range(q) \ {q[i]}
      /\ Range(b) \subseteq Range(q) \ {q[i]}
      /\ Range(a) \cap Range(b) = {}
  BY <1>1, <1>5 DEF IsInjective, Range
<1>8. ASSUME NEW x \in Range(q) \ {q[i]} PROVE x \in Range(a) \cup Range(b)
  <2>1. PICK j \in 1 .. Len(q) : x = q[j] /\ j # i
    BY <1>1, <1>8 DEF Range
  <2>2. CASE j < i
    <3>1. j \in DOMAIN a /\ a[j] = q[j]
      BY <1>1, <1>2, <1>4, <2>1, <2>2
    <3> QED BY <2>1, <3>1 DEF Range
  <2>3. CASE j > i
    <3>1. j - i \in DOMAIN b /\ b[j - i] = q[j]
      <4>1. j - i \in 1 .. Len(q) - i /\ i + (j - i) = j
        BY <1>1, <2>1, <2>3
      <4> QED BY <1>3, <1>4, <4>1
    <3> QED BY <2>1, <3>1 DEF Range
  <2> QED BY <1>1, <2>1, <2>2, <2>3
<1>9. RemoveAt(q, i) = a \o b
  BY DEF RemoveAt, a, b
<1>10. /\ a \o b \in Seq(S)
       /\ IsInjective(a \o b)
       /\ Range(a \o b) = Range(a) \cup Range(b)
  BY <1>2, <1>3, <1>6, <1>7, OthersJoin
<1> QED BY <1>7, <1>8, <1>9, <1>10

(***************************************************************************)
(* The workers that a call spawns reach the lock in some order, each once. *)
(***************************************************************************)
LEMMA AllArrive ==
  ASSUME NEW S, IsFiniteSet(S), NEW s \in SetToSeqs(S)
  PROVE  s \in Seq(S) /\ IsInjective(s) /\ Range(s) = S
<1> DEFINE D == 1 .. Cardinality(S)
<1>1. Cardinality(S) \in Nat
  BY FS_CardinalityType
<1>2. s \in [D -> S] /\ \A i, j \in D : i # j => s[i] # s[j]
  BY DEF SetToSeqs
<1>3. s \in Injection(D, S)
  BY <1>2 DEF Injection, IsInjective
<1>4. IsFiniteSet(D) /\ Cardinality(D) = Cardinality(S)
  BY <1>1, FS_Interval
<1>5. s \in Surjection(D, S)
  BY <1>3, <1>4, FS_Injection
<1>6. Range(s) = S
  BY <1>2, <1>5 DEF Surjection, Range
<1>7. s \in Seq(S)
  BY <1>1, <1>2, SeqDef
<1> QED BY <1>3, <1>6, <1>7 DEF Injection

(***************************************************************************)
(* Nobody waits for the lock outside its queue, which would be for ever,   *)
(* and nobody stands in it twice or without waiting, which would block     *)
(* those behind: a worker at the head that is gone is never granted.       *)
(***************************************************************************)
QueueExact ==
  /\ IsInjective(queue)
  /\ Range(queue) = {w \in Workers : worker[w] \in WaitPhases}

(***************************************************************************)
(* An idle call has no workers, so a call that begins finds none of its    *)
(* own in the queue; one of NextBlock has a single worker, so that Abort   *)
(* takes all there is out of the queue.                                    *)
(***************************************************************************)
IdleHasNone == \A w \in Workers : callPc[w[1]] = "idle" => worker[w] = "none"

OneWorkerEach ==
  sender = "nextblock" =>
    \A w, v \in Workers :
      w[1] = v[1] /\ worker[w] # "none" /\ worker[v] # "none" => w = v

QueueInv ==
  /\ sender \in Senders
  /\ Typed
  /\ queue \in Seq(Workers)
  /\ QueueExact
  /\ IdleHasNone
  /\ OneWorkerEach

LEMMA QueueInit == Init => QueueInv
<1> SUFFICES ASSUME Init PROVE QueueInv
  OBVIOUS
<1>1. sender \in Senders /\ Typed /\ IdleHasNone /\ OneWorkerEach
  BY DEF Init, Typed, IdleHasNone, OneWorkerEach, CallPhases, WorkerPhases
<1>2. queue \in Seq(Workers) /\ IsInjective(queue) /\ Range(queue) = {}
  BY DEF Init, IsInjective, Range
<1>3. \A w \in Workers : worker[w] \notin WaitPhases
  BY DEF Init, WaitPhases
<1> QED BY <1>1, <1>2, <1>3 DEF QueueInv, QueueExact

(***************************************************************************)
(* A worker that moves without a wait behind or before it leaves the queue *)
(* as it is.                                                               *)
(***************************************************************************)
LEMMA MovesOutside ==
  ASSUME QueueInv, NEW w \in Workers, NEW to \in WorkerPhases \ (WaitPhases \cup {"none"}),
         worker[w] \notin WaitPhases \cup {"none"},
         worker' = [worker EXCEPT ![w] = to], UNCHANGED <<sender, callPc, queue>>
  PROVE  QueueInv'
<1>1. Typed' /\ IdleHasNone' /\ OneWorkerEach'
  BY DEF QueueInv, Typed, IdleHasNone, OneWorkerEach
<1>2. \A v \in Workers : worker'[v] \in WaitPhases <=> worker[v] \in WaitPhases
  BY DEF QueueInv, Typed
<1> QED BY <1>1, <1>2 DEF QueueInv, QueueExact

(***************************************************************************)
(* GrantRead and Store: the head leaves the queue and waits no longer.     *)
(***************************************************************************)
LEMMA HeadServed ==
  ASSUME QueueInv, NEW w \in Workers, NEW to \in WorkerPhases \ (WaitPhases \cup {"none"}),
         queue # <<>>, Head(queue) = w,
         worker' = [worker EXCEPT ![w] = to], queue' = Tail(queue),
         UNCHANGED <<sender, callPc>>
  PROVE  QueueInv'
<1>1. /\ Tail(queue) \in Seq(Workers)
      /\ IsInjective(Tail(queue))
      /\ Range(Tail(queue)) = Range(queue) \ {w}
  BY HeadLeaves DEF QueueInv, QueueExact
<1>2. worker[w] \in WaitPhases
  <2>1. Len(queue) \in Nat /\ Len(queue) > 0 /\ DOMAIN queue = 1 .. Len(queue)
    BY EmptySeq, LenProperties DEF QueueInv
  <2>2. queue[1] = w /\ 1 \in DOMAIN queue
    BY <2>1
  <2> QED BY <2>2 DEF QueueInv, QueueExact, Range
<1>3. Typed' /\ IdleHasNone' /\ OneWorkerEach'
  BY <1>2 DEF QueueInv, Typed, IdleHasNone, OneWorkerEach, WaitPhases
<1>4. \A v \in Workers :
        worker'[v] \in WaitPhases <=> worker[v] \in WaitPhases /\ v # w
  BY DEF QueueInv, Typed
<1> QED BY <1>1, <1>3, <1>4 DEF QueueInv, QueueExact

LEMMA WorkerKeepsQueue ==
  ASSUME QueueInv, NEW w \in Workers, WorkerStep(w) \/ Answers(w)
  PROVE  QueueInv'
<1>1. CASE GrantRead(w)
  <2>1. PICK to \in {"connecting", "opening"} :
          worker' = [worker EXCEPT ![w] = to]
    BY <1>1 DEF GrantRead, Goes
  <2> QED BY <1>1, <2>1, HeadServed DEF GrantRead, WorkerPhases, WaitPhases, ReadPhases
<1>2. CASE Store(w)
  BY <1>2, HeadServed DEF Store, Goes, WorkerPhases, WaitPhases, ReadPhases
<1>3. CASE NewAnswers(w)
  <2>1. /\ worker[w] = "sendingNew"
        /\ worker' = [worker EXCEPT ![w] = "storing"]
        /\ queue' = Append(queue, w)
        /\ UNCHANGED <<sender, callPc>>
    BY <1>3 DEF NewAnswers, Goes
  <2>2. w \notin Range(queue)
    BY <2>1 DEF QueueInv, QueueExact, WaitPhases
  <2>3. /\ Append(queue, w) \in Seq(Workers)
        /\ IsInjective(Append(queue, w))
        /\ Range(Append(queue, w)) = Range(queue) \cup {w}
    BY <2>2, OneJoins DEF QueueInv, QueueExact
  <2>4. Typed' /\ IdleHasNone' /\ OneWorkerEach'
    BY <2>1 DEF QueueInv, Typed, IdleHasNone, OneWorkerEach, WorkerPhases, WaitPhases
  <2>5. \A v \in Workers :
          worker'[v] \in WaitPhases <=> worker[v] \in WaitPhases \/ v = w
    BY <2>1 DEF QueueInv, Typed, WaitPhases
  <2> QED BY <2>1, <2>3, <2>4, <2>5 DEF QueueInv, QueueExact
<1>4. CASE Open(w) \/ Connect(w) \/ SendFails(w) \/ OldAnswers(w)
  <2>1. PICK to \in WorkerPhases \ (WaitPhases \cup {"none"}) :
          worker' = [worker EXCEPT ![w] = to]
    <3>1. CASE SendFails(w)
      <4>1. PICK to \in Failed : worker' = [worker EXCEPT ![w] = to]
        BY <3>1 DEF SendFails, Failed
      <4> QED BY <4>1 DEF Failed, WorkerPhases, WaitPhases
    <3>2. CASE Open(w) \/ Connect(w) \/ OldAnswers(w)
      BY <3>2 DEF Open, Connect, OldAnswers, Goes, WorkerPhases, WaitPhases, ReadPhases
    <3> QED BY <1>4, <3>1, <3>2
  <2>2. worker[w] \notin WaitPhases \cup {"none"} /\ UNCHANGED <<sender, callPc, queue>>
    BY <1>4 DEF Open, Connect, SendFails, OldAnswers, Goes, WaitPhases
  <2> QED BY <2>1, <2>2, MovesOutside
<1> QED BY <1>1, <1>2, <1>3, <1>4 DEF WorkerStep, Answers

(***************************************************************************)
(* The workers of the call that begins were "none", so none of them was in *)
(* the queue; they arrive behind it, in any order.                         *)
(***************************************************************************)
LEMMA BeginKeepsQueue ==
  ASSUME QueueInv, NEW c \in Calls, Begin(c)
  PROVE  QueueInv'
<1>1. PICK regions \in SUBSET Regions :
        /\ callPc[c] = "idle"
        /\ Starts(c, regions)
        /\ sender = "nextblock" => regions = {Single}
  BY QuicAssumption DEF Begin
<1> DEFINE ws == {c} \X regions
<1>2. /\ callPc' = [callPc EXCEPT ![c] = "waiting"]
      /\ worker' = [v \in Workers |-> IF v \in ws THEN "reading" ELSE worker[v]]
      /\ sender' = sender
  BY <1>1 DEF Starts
<1>3. PICK s \in SetToSeqs(ws) : queue' = queue \o s
  BY <1>1 DEF Starts
<1>4. IsFiniteSet(ws)
  BY QuicAssumption, FS_Subset, FS_Singleton, FS_Product
<1>5. ws \subseteq Workers /\ \A v \in ws : v[1] = c
  BY DEF Workers
<1>6. \A v \in ws : worker[v] = "none"
  BY <1>1, <1>5 DEF QueueInv, IdleHasNone
<1> HIDE DEF ws
<1>7. s \in Seq(ws) /\ IsInjective(s) /\ Range(s) = ws
  BY <1>4, AllArrive
<1>8. s \in Seq(Workers)
  BY <1>5, <1>7, SeqMonotonic
<1>9. Range(queue) \cap Range(s) = {}
  BY <1>6, <1>7 DEF QueueInv, QueueExact, WaitPhases
<1>10. /\ queue \o s \in Seq(Workers)
       /\ IsInjective(queue \o s)
       /\ Range(queue \o s) = Range(queue) \cup ws
  BY <1>7, <1>8, <1>9, OthersJoin DEF QueueInv, QueueExact
<1>11. \A v \in Workers : worker'[v] \in WaitPhases <=> worker[v] \in WaitPhases \/ v \in ws
  BY <1>2 DEF WaitPhases
<1>12. Range(queue') = {v \in Workers : worker'[v] \in WaitPhases}
  BY <1>3, <1>5, <1>10, <1>11 DEF QueueInv, QueueExact
<1>13. Typed'
  BY <1>2 DEF QueueInv, Typed, CallPhases, WorkerPhases, WaitPhases
<1>14. IdleHasNone'
  <2> SUFFICES ASSUME NEW v \in Workers, callPc'[v[1]] = "idle" PROVE worker'[v] = "none"
    BY DEF IdleHasNone
  <2>1. v[1] \in Calls
    BY DEF Workers
  <2>2. v[1] # c /\ callPc[v[1]] = "idle"
    BY <1>2, <2>1 DEF QueueInv, Typed
  <2> QED BY <1>2, <1>5, <2>2 DEF QueueInv, IdleHasNone
<1>15. OneWorkerEach'
  <2> SUFFICES ASSUME sender = "nextblock", NEW w \in Workers, NEW v \in Workers,
                      w[1] = v[1], worker'[w] # "none", worker'[v] # "none"
               PROVE  w = v
    BY <1>2 DEF OneWorkerEach
  <2>1. CASE w[1] = c
    <3>1. worker[w] = "none" /\ worker[v] = "none"
      BY <1>1, <2>1 DEF QueueInv, IdleHasNone
    <3>2. w \in ws /\ v \in ws
      BY <1>2, <3>1
    <3> QED BY <1>1, <3>2 DEF ws
  <2>2. CASE w[1] # c
    BY <1>2, <1>5, <2>2 DEF QueueInv, OneWorkerEach
  <2> QED BY <2>1, <2>2
<1> QED BY <1>2, <1>3, <1>10, <1>12, <1>13, <1>14, <1>15 DEF QueueInv, QueueExact

(***************************************************************************)
(* Abort takes the one worker of a NextBlock call out of the queue, if it  *)
(* is in there; those of bloXroute stay.                                   *)
(***************************************************************************)
LEMMA AbortKeepsQueue ==
  ASSUME QueueInv, NEW c \in Calls, Abort(c)
  PROVE  QueueInv'
<1>1. callPc' = [callPc EXCEPT ![c] = "over"] /\ sender' = sender
  BY DEF Abort
<1>2. CASE sender = "bloxroute"
  <2>1. UNCHANGED <<worker, queue>>
    BY <1>2 DEF Abort
  <2> QED BY <1>1, <2>1 DEF QueueInv, Typed, QueueExact, IdleHasNone, OneWorkerEach,
                          CallPhases, Workers
<1>3. CASE sender # "bloxroute"
  <2>1. /\ worker' = [w \in Workers |->
             IF w \in Own(c) /\ worker[w] \in Busy THEN "dropped" ELSE worker[w]]
        /\ Leaves(c)
    BY <1>3 DEF Abort
  <2>2. \A w \in Workers : w \in Own(c) <=> w[1] = c /\ worker[w] # "none"
    BY DEF Own
  <2>3. Typed' /\ IdleHasNone' /\ OneWorkerEach'
    BY <1>1, <2>1, <2>2 DEF QueueInv, Typed, IdleHasNone, OneWorkerEach, CallPhases,
                           WorkerPhases, Busy, Workers
  <2>4. \A w \in Workers :
          worker'[w] \in WaitPhases <=> worker[w] \in WaitPhases /\ w[1] # c
    BY <2>1, <2>2 DEF WaitPhases, Busy
  <2>5. /\ queue' \in Seq(Workers)
        /\ IsInjective(queue')
        /\ Range(queue') = {w \in Range(queue) : w[1] # c}
    <3>1. CASE \E i \in DOMAIN queue : queue[i][1] = c /\ queue' = RemoveAt(queue, i)
      <4>1. PICK i \in DOMAIN queue : queue[i][1] = c /\ queue' = RemoveAt(queue, i)
        BY <3>1
      <4>2. /\ RemoveAt(queue, i) \in Seq(Workers)
            /\ IsInjective(RemoveAt(queue, i))
            /\ Range(RemoveAt(queue, i)) = Range(queue) \ {queue[i]}
        BY OneLeaves DEF QueueInv, QueueExact
      <4>3. \A w \in Range(queue) : w \in Workers /\ worker[w] \in WaitPhases
        BY DEF QueueInv, QueueExact
      <4>4. queue[i] \in Range(queue)
        BY DEF Range
      <4>5. \A w \in Range(queue) : w[1] = c => w = queue[i]
        <5>1. sender = "nextblock"
          BY <1>3 DEF QueueInv, Senders
        <5> QED BY <4>1, <4>3, <4>4, <5>1 DEF QueueInv, OneWorkerEach, WaitPhases
      <4> QED BY <4>1, <4>2, <4>5
    <3>2. CASE (\A i \in DOMAIN queue : queue[i][1] # c) /\ UNCHANGED queue
      BY <3>2 DEF QueueInv, QueueExact, Range
    <3> QED BY <2>1, <3>1, <3>2 DEF Leaves
  <2>6. Range(queue') = {w \in Workers : worker'[w] \in WaitPhases}
    BY <2>4, <2>5 DEF QueueInv, QueueExact
  <2> QED BY <1>1, <2>3, <2>5, <2>6 DEF QueueInv, QueueExact
<1> QED BY <1>2, <1>3

(***************************************************************************)
(* None of the workers that NextCall forgets was waiting.                  *)
(***************************************************************************)
LEMMA NextCallKeepsQueue ==
  ASSUME QueueInv, NEW c \in Calls, NextCall(c)
  PROVE  QueueInv'
<1>1. /\ callPc' = [callPc EXCEPT ![c] = "idle"]
      /\ worker' = [v \in Workers |-> IF v[1] = c THEN "none" ELSE worker[v]]
      /\ UNCHANGED <<sender, queue>>
  BY DEF NextCall
<1>2. \A v \in Workers : v[1] = c => worker[v] \notin WaitPhases
  BY DEF NextCall, Own, Busy, WaitPhases
<1>3. \A v \in Workers : worker'[v] \in WaitPhases <=> worker[v] \in WaitPhases
  BY <1>1, <1>2 DEF WaitPhases
<1>4. Typed' /\ IdleHasNone' /\ OneWorkerEach'
  BY <1>1 DEF QueueInv, Typed, IdleHasNone, OneWorkerEach, CallPhases, WorkerPhases, Workers
<1> QED BY <1>1, <1>3, <1>4 DEF QueueInv, QueueExact

LEMMA QueueInvariant == Spec => []QueueInv
<1>1. QueueInv /\ [Next]_vars => QueueInv'
  <2> SUFFICES ASSUME QueueInv, [Next]_vars PROVE QueueInv'
    OBVIOUS
  <2>1. ASSUME NEW w \in Workers, WorkerStep(w) \/ Answers(w) PROVE QueueInv'
    BY <2>1, WorkerKeepsQueue
  <2>2. ASSUME NEW c \in Calls, Begin(c) PROVE QueueInv'
    BY <2>2, BeginKeepsQueue
  <2>3. ASSUME NEW c \in Calls, CallStep(c) PROVE QueueInv'
    <3>1. PICK to \in CallPhases \ {"idle"} : callPc' = [callPc EXCEPT ![c] = to]
      BY <2>3 DEF CallStep, Succeeds, FallsBack, HttpAnswers, CallPhases
    <3>2. UNCHANGED <<sender, worker, queue>>
      BY <2>3 DEF CallStep, Succeeds, FallsBack, HttpAnswers
    <3> QED BY <2>3, <3>1, <3>2 DEF QueueInv, Typed, QueueExact, IdleHasNone,
                                    OneWorkerEach, Workers
  <2>4. ASSUME NEW c \in Calls, Abort(c) PROVE QueueInv'
    BY <2>4, AbortKeepsQueue
  <2>5. ASSUME NEW c \in Calls, NextCall(c) PROVE QueueInv'
    BY <2>5, NextCallKeepsQueue
  <2>6. ASSUME NEW r \in Regions, Ends(r) PROVE QueueInv'
    BY <2>6 DEF Ends, QueueInv, Typed, QueueExact, IdleHasNone, OneWorkerEach
  <2>7. CASE UNCHANGED vars
    BY <2>7 DEF vars, QueueInv, Typed, QueueExact, IdleHasNone, OneWorkerEach
  <2> QED BY <2>1, <2>2, <2>3, <2>4, <2>5, <2>6, <2>7 DEF Next
<1> QED BY QueueInit, <1>1, PTL DEF Spec

(***************************************************************************)
(* The RwLock's queue holds exactly the workers that wait, each once, also *)
(* when calls begin, end and are aborted in any order: WorkersEnd needs    *)
(* that no waiter is forgotten and that no gone worker heads the queue.    *)
(***************************************************************************)
THEOREM QueueHoldsWaiters == Spec => []QueueExact
<1>1. QueueInv => QueueExact
  BY DEF QueueInv
<1> QED BY QueueInvariant, <1>1, PTL

(***************************************************************************)
(* send_tx: a connection is stored only while no worker sends on a stored  *)
(* one, so that no stream loses its connection to a reconnect.             *)
(***************************************************************************)
THEOREM NoneReplacedInUse == Spec => InUseNotReplaced
<1> DEFINE Replaced(w, v) ==
      worker[w] = "storing" /\ worker'[w] = "ok" /\ v[2] = w[2]
<1>1. ASSUME QueueInv, [Next]_vars, NEW w \in Workers, NEW v \in Workers,
             Replaced(w, v)
      PROVE  worker[v] \notin ReadPhases
  <2>1. ASSUME NEW u \in Workers, WorkerStep(u) \/ Answers(u) PROVE Readers = {}
    <3>1. u = w
      BY <1>1, <2>1 DEF WorkerStep, Answers, GrantRead, Open, Connect, Store,
                        SendFails, OldAnswers, NewAnswers, Goes, QueueInv, Typed
    <3>2. worker[u] = "storing"
      BY <1>1, <3>1
    <3>3. Store(u)
      BY <2>1, <3>2 DEF WorkerStep, Answers, GrantRead, Open, Connect,
                        SendFails, OldAnswers, NewAnswers, Goes
    <3> QED BY <3>3 DEF Store
  <2>2. ASSUME NEW c \in Calls, Begin(c) PROVE FALSE
    BY <1>1, <2>2 DEF Begin, Starts
  <2>3. ASSUME NEW c \in Calls, CallStep(c) PROVE FALSE
    BY <1>1, <2>3 DEF CallStep, Succeeds, FallsBack, HttpAnswers
  <2>4. ASSUME NEW c \in Calls, Abort(c) PROVE FALSE
    BY <1>1, <2>4 DEF Abort
  <2>5. ASSUME NEW c \in Calls, NextCall(c) PROVE FALSE
    BY <1>1, <2>5 DEF NextCall
  <2>6. ASSUME NEW r \in Regions, Ends(r) PROVE FALSE
    BY <1>1, <2>6 DEF Ends
  <2>7. ASSUME UNCHANGED vars PROVE FALSE
    BY <1>1, <2>7 DEF vars
  <2>8. Readers = {}
    BY <1>1, <2>1, <2>2, <2>3, <2>4, <2>5, <2>6, <2>7 DEF Next
  <2> QED BY <2>8 DEF Readers
<1>2. QueueInv /\ [Next]_vars =>
        [\A w, v \in Workers : Replaced(w, v) => worker[v] \notin ReadPhases]_vars
  BY <1>1
<1> QED BY <1>2, QueueInvariant, PTL DEF Spec, InUseNotReplaced
=============================================================================
