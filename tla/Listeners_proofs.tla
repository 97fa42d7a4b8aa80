-------------------------- MODULE Listeners_proofs --------------------------
(***************************************************************************)
(* The deduplication of buys, for any stream of signatures, any capacities *)
(* and any time to live.  That a recent signature is known is not          *)
(* inductive: the clean-up looks at the instant in seen_sigs, so the       *)
(* invariant must say that this instant is no older than the buy.  Then    *)
(* the keys that ShredStream reads transactions with, for any tables; and  *)
(* the copy engine, which feeds the same loop: its buys and its permits.   *)
(***************************************************************************)
EXTENDS ShredStream, FiniteSetTheorems, SequenceTheorems, TLAPS

(***************************************************************************)
(* The copy engine in place of the two listeners: it feeds the same main   *)
(* loop.                                                                   *)
(***************************************************************************)
CONSTANTS Trades, WsCap, MaxRpc, MaxRetries

VARIABLES notified, wsChan, job, attempt, fetched, permits

Engine == INSTANCE CopyEngine WITH next <- notified, found <- fetched

Times ==
  /\ now \in Nat
  /\ seenAt \in [Sigs -> Nat \cup {Never}]
  /\ spawnedAt \in [Sigs -> Nat \cup {Never}]

(***************************************************************************)
(* A signature bought within the time to live is known, by an instant not  *)
(* before the buy; no buy is in the future.                                *)
(***************************************************************************)
KnownSince ==
  \A s \in Sigs :
    spawnedAt[s] # Never =>
      /\ spawnedAt[s] <= now
      /\ now - spawnedAt[s] < Ttl => seenAt[s] # Never /\ seenAt[s] >= spawnedAt[s]

SeenInv == Times /\ KnownSince

LEMMA InitSeen == Init => SeenInv
BY DispatchAssumption DEF Init, DispatchInit, SeenInv, Times, KnownSince

-----------------------------------------------------------------------------
(***************************************************************************)
(* Insertion of a signature at the present instant keeps what is known.    *)
(***************************************************************************)
LEMMA SkipKeeps == SeenInv /\ SkipDuplicate => SeenInv'
<1> SUFFICES ASSUME SeenInv, SkipDuplicate PROVE SeenInv'
  OBVIOUS
<1> DEFINE s == Head(buyChan)
<1>1. Never \notin Nat
  BY DispatchAssumption
<1>2. seenAt' = [seenAt EXCEPT ![s] = now] /\ UNCHANGED <<now, spawnedAt>>
  BY DEF SkipDuplicate
<1> HIDE DEF s
<1>3. Times'
  BY <1>2 DEF SeenInv, Times
<1>4. ASSUME NEW q \in Sigs, spawnedAt'[q] # Never
      PROVE  /\ spawnedAt'[q] <= now'
             /\ now' - spawnedAt'[q] < Ttl => seenAt'[q] # Never /\ seenAt'[q] >= spawnedAt'[q]
  BY <1>1, <1>2, <1>4 DEF SeenInv, Times, KnownSince
<1> QED BY <1>3, <1>4 DEF SeenInv, KnownSince

(***************************************************************************)
(* The clean-up keeps every entry that is young enough.                    *)
(***************************************************************************)
LEMMA RetainedYoung ==
  ASSUME NEW seen \in [Sigs -> Nat \cup {Never}], now \in Nat
  PROVE  /\ Retained(seen) \in [Sigs -> Nat \cup {Never}]
         /\ \A s \in Sigs : seen[s] # Never /\ now - seen[s] < Ttl => Retained(seen)[s] = seen[s]
BY DEF Retained

LEMMA SpawnKeeps == SeenInv /\ SpawnBuy => SeenInv'
<1> SUFFICES ASSUME SeenInv, SpawnBuy PROVE SeenInv'
  OBVIOUS
<1> DEFINE s == Head(buyChan)
           seen == [seenAt EXCEPT ![s] = now]
<1>1. Never \notin Nat /\ Ttl \in Nat \ {0}
  BY DispatchAssumption
<1>2. /\ seenAt' = Retained(seen) \/ seenAt' = seen
      /\ spawnedAt' = [spawnedAt EXCEPT ![s] = now]
      /\ now' = now
  BY DEF SpawnBuy
<1> HIDE DEF s
<1>3. seen \in [Sigs -> Nat \cup {Never}]
  BY DEF SeenInv, Times
<1>4. Times'
  BY <1>2, <1>3, RetainedYoung DEF SeenInv, Times
<1>5. ASSUME NEW q \in Sigs, spawnedAt'[q] # Never
      PROVE  /\ spawnedAt'[q] <= now'
             /\ now' - spawnedAt'[q] < Ttl => seenAt'[q] # Never /\ seenAt'[q] >= spawnedAt'[q]
  <2>1. /\ spawnedAt'[q] \in Nat /\ spawnedAt'[q] <= now
        /\ now - spawnedAt'[q] < Ttl => seen[q] # Never /\ seen[q] >= spawnedAt'[q]
    BY <1>1, <1>2, <1>5 DEF SeenInv, Times, KnownSince
  <2>2. ASSUME now - spawnedAt'[q] < Ttl
        PROVE  seenAt'[q] = seen[q]
    <3>1. seen[q] \in Nat /\ seen[q] # Never /\ seen[q] >= spawnedAt'[q]
      BY <2>1, <2>2, <1>3
    <3>2. now \in Nat /\ now - seen[q] < Ttl
      BY <1>1, <2>1, <2>2, <3>1 DEF SeenInv, Times
    <3>3. Retained(seen)[q] = seen[q]
      BY <1>3, <3>1, <3>2, RetainedYoung
    <3> QED BY <1>2, <3>3
  <2> QED BY <1>2, <2>1, <2>2
<1> QED BY <1>4, <1>5 DEF SeenInv, KnownSince

(***************************************************************************)
(* Time only makes buys older.                                             *)
(***************************************************************************)
LEMMA TickKeeps == SeenInv /\ Tick => SeenInv'
<1> SUFFICES ASSUME SeenInv, Tick PROVE SeenInv'
  OBVIOUS
<1>1. Never \notin Nat /\ Ttl \in Nat
  BY DispatchAssumption
<1>2. now' = now + 1 /\ UNCHANGED <<seenAt, spawnedAt>>
  BY DEF Tick, seenVars
<1>3. Times'
  BY <1>2 DEF SeenInv, Times
<1>4. ASSUME NEW q \in Sigs, spawnedAt'[q] # Never
      PROVE  /\ spawnedAt'[q] <= now'
             /\ now' - spawnedAt'[q] < Ttl => seenAt'[q] # Never /\ seenAt'[q] >= spawnedAt'[q]
  BY <1>1, <1>2, <1>4 DEF SeenInv, Times, KnownSince
<1> QED BY <1>3, <1>4 DEF SeenInv, KnownSince

\* all that happens to the signatures and the clock, whoever feeds the main loop
SeenStep == SkipDuplicate \/ SpawnBuy \/ Tick \/ UNCHANGED <<now, seenAt, spawnedAt>>

LEMMA SeenKept == SeenInv /\ SeenStep => SeenInv'
<1>1. SeenInv /\ UNCHANGED <<now, seenAt, spawnedAt>> => SeenInv'
  BY DEF SeenInv, Times, KnownSince
<1> QED BY <1>1, SkipKeeps, SpawnKeeps, TickKeeps DEF SeenStep

(***************************************************************************)
(* Whatever else the listeners and the main loop do, it leaves the         *)
(* signatures and the clock alone.                                         *)
(***************************************************************************)
LEMMA OtherSteps == [Next]_vars => SeenStep
<1> SUFFICES ASSUME [Next]_vars
             PROVE  SkipDuplicate \/ SpawnBuy \/ Tick \/ UNCHANGED <<now, seenAt, spawnedAt>>
  BY DEF SeenStep
<1>1. CASE UNCHANGED vars
  BY <1>1 DEF vars, dispatchVars, seenVars
<1>2. ASSUME NEW x \in Sources, Observe(x) \/ Reconnect(x)
      PROVE  UNCHANGED <<now, seenAt, spawnedAt>>
  BY <1>2 DEF Observe, Reconnect, dispatchVars, seenVars
<1>3. ASSUME NEW x \in Sources, Send(x)
      PROVE  UNCHANGED <<now, seenAt, spawnedAt>>
  BY <1>3 DEF Send, PutBuy, PutMirror, seenVars
<1>4. CASE TakeMirror \/ Reload
  BY <1>4 DEF TakeMirror, Reload, seenVars
<1> QED BY <1>1, <1>2, <1>3, <1>4 DEF Next, DispatchNext, DispatchStep

THEOREM SeenInvariant == Spec => []SeenInv
BY InitSeen, SeenKept, OtherSteps, PTL DEF Spec

-----------------------------------------------------------------------------
(***************************************************************************)
(* However the clean-up of seen_sigs falls, a signature that a buy task    *)
(* was spawned for is known for the whole time to live.                    *)
(***************************************************************************)
THEOREM RecentlyBoughtKnown == Spec => []RecentRemembered
<1>1. SeenInv => RecentRemembered
  BY DEF SeenInv, KnownSince, RecentRemembered, Seen
<1> QED BY <1>1, SeenInvariant, PTL

LEMMA SpacedBuys ==
  ASSUME SeenInv, SeenStep
  PROVE  [\A s \in Sigs :
            spawnedAt[s] # Never /\ spawnedAt'[s] # spawnedAt[s]
            => spawnedAt'[s] - spawnedAt[s] >= Ttl]_dispatchVars
<1> SUFFICES ASSUME NEW s \in Sigs, spawnedAt[s] # Never, spawnedAt'[s] # spawnedAt[s]
             PROVE  spawnedAt'[s] - spawnedAt[s] >= Ttl
  OBVIOUS
<1>1. SpawnBuy
  BY DEF SeenStep, SkipDuplicate, Tick, seenVars
<1>2. spawnedAt' = [spawnedAt EXCEPT ![Head(buyChan)] = now] /\ seenAt[Head(buyChan)] = Never
  BY <1>1 DEF SpawnBuy, Seen
<1>3. s = Head(buyChan) /\ spawnedAt'[s] = now
  BY <1>2 DEF SeenInv, Times
<1>4. spawnedAt[s] \in Nat /\ now \in Nat /\ Ttl \in Nat
  BY DispatchAssumption DEF SeenInv, Times
<1>5. ~(now - spawnedAt[s] < Ttl)
  BY <1>2, <1>3 DEF SeenInv, KnownSince
<1> QED BY <1>3, <1>4, <1>5

(***************************************************************************)
(* No signature is bought twice within the time to live, whichever of the  *)
(* two listeners reports it, and how often.                                *)
(***************************************************************************)
THEOREM NeverBoughtTwice == Spec => BoughtOnce
BY SpacedBuys, OtherSteps, SeenInvariant, PTL DEF Spec, BoughtOnce

-----------------------------------------------------------------------------
(***************************************************************************)
(* The listener that resolves look-up tables behaves as Listeners says of  *)
(* it.  While it resolves, nothing of its last transaction waits to be     *)
(* sent: that is what lets its last step count as the whole observation.   *)
(***************************************************************************)
ResolvingInv ==
  /\ next \in [Sources -> Nat \ {0}]
  /\ \A x \in Sources : x \in DOMAIN outbox
  /\ resolving => outbox["shreds"] = <<>> /\ next["shreds"] <= Len(Stream)

LEMMA ShredsParse ==
  ASSUME NEW s, NEW ks
  PROVE  Parsed(s, ks) \subseteq Detects("shreds", s)
BY DEF Parsed, Detects, ShredsDetects

LEMMA LookObserves == ResolvingInv /\ Look => Observe("shreds")
<1> SUFFICES ASSUME ResolvingInv, Look PROVE Observe("shreds")
  OBVIOUS
<1>1. outbox["shreds"] = <<>> /\ next["shreds"] <= Len(Stream)
  BY DEF ResolvingInv, Look
<1>2. PICK found \in Parsed(TheTx, Resolved) :
        outbox' = [outbox EXCEPT !["shreds"] = found]
  BY DEF Look
<1>3. found \in Detects("shreds", Stream[next["shreds"]])
  BY <1>2, ShredsParse DEF TheTx
<1> QED BY <1>1, <1>2, <1>3 DEF Look, Observe

LEMMA ShredStepRefines == ResolvingInv /\ [ShredNext]_shredVars => [Next]_vars
<1> SUFFICES ASSUME ResolvingInv, [ShredNext]_shredVars PROVE [Next]_vars
  OBVIOUS
<1>1. CASE Look
  BY <1>1, LookObserves DEF Next, Sources
<1>2. CASE TakeTx \/ CopyTable
  BY <1>2 DEF TakeTx, CopyTable
<1>3. CASE Observe("geyser") \/ Reconnect("geyser") \/ Reconnect("shreds")
  BY <1>3 DEF Next, Sources
<1>4. CASE \E x \in Sources : Send(x)
  BY <1>4 DEF Next
<1>5. CASE DispatchNext /\ UNCHANGED <<next, outbox>>
  BY <1>5 DEF Next
<1>6. CASE UNCHANGED vars
  BY <1>6
<1> QED BY <1>1, <1>2, <1>3, <1>4, <1>5, <1>6 DEF ShredNext, shredVars

LEMMA ResolvingKept == ResolvingInv /\ [ShredNext]_shredVars => ResolvingInv'
<1> SUFFICES ASSUME ResolvingInv, [ShredNext]_shredVars PROVE ResolvingInv'
  OBVIOUS
<1>1. CASE Look
  <2>1. next' = [next EXCEPT !["shreds"] = @ + 1] /\ ~ resolving'
    BY <1>1 DEF Look
  <2>2. \E found : outbox' = [outbox EXCEPT !["shreds"] = found]
    BY <1>1 DEF Look
  <2> QED BY <2>1, <2>2 DEF ResolvingInv, Sources
<1>2. CASE TakeTx
  BY <1>2 DEF TakeTx, vars, ResolvingInv
<1>3. CASE CopyTable
  BY <1>3 DEF CopyTable, vars, ResolvingInv
<1>4. CASE UNCHANGED <<vars, resolving>>
  BY <1>4 DEF vars, ResolvingInv
<1>5. CASE (Observe("geyser") \/ Reconnect("geyser")) /\ UNCHANGED resolving
  <2>1. next' = [next EXCEPT !["geyser"] = @ + 1]
    BY <1>5 DEF Observe, Reconnect
  <2>2. outbox' = outbox \/ \E found : outbox' = [outbox EXCEPT !["geyser"] = found]
    BY <1>5 DEF Observe, Reconnect
  <2> QED BY <1>5, <2>1, <2>2 DEF ResolvingInv, Sources
<1>6. CASE ~ resolving /\ Reconnect("shreds") /\ UNCHANGED resolving
  BY <1>6 DEF Reconnect, ResolvingInv, Sources
<1>7. ASSUME NEW x \in Sources, Send(x), UNCHANGED resolving
      PROVE  ResolvingInv'
  <2>1. ~ resolving' \/ x = "geyser"
    BY <1>7 DEF Send, ResolvingInv, Sources
  <2> QED BY <1>7, <2>1 DEF Send, ResolvingInv
<1>8. CASE UNCHANGED <<next, outbox, resolving>>
  BY <1>8 DEF ResolvingInv
<1>9. CASE DispatchNext /\ UNCHANGED <<next, outbox, resolving>>
  BY <1>8, <1>9
<1> QED
  <2>1. CASE UNCHANGED shredVars
    BY <1>4, <2>1 DEF shredVars
  <2>2. CASE AltStep /\ UNCHANGED <<vars, resolving, got, keys>>
    BY <1>4, <2>2
  <2> QED
    BY <1>1, <1>2, <1>3, <1>5, <1>6, <1>7, <1>9, <2>1, <2>2 DEF ShredNext

(***************************************************************************)
(* Whatever the cache of look-up tables does, ShredStream implements       *)
(* Listeners.                                                              *)
(***************************************************************************)
THEOREM ShredStreamRefines == ShredSpec => Spec
<1>1. ShredInit => Init /\ ResolvingInv
  BY DEF ShredInit, Init, ResolvingInv
<1> QED BY <1>1, ShredStepRefines, ResolvingKept, PTL DEF ShredSpec, Spec

(***************************************************************************)
(* So it buys nothing twice either.                                        *)
(***************************************************************************)
THEOREM ShredStreamBuysOnce == ShredSpec => BoughtOnce
BY ShredStreamRefines, NeverBoughtTwice, PTL

-----------------------------------------------------------------------------
(***************************************************************************)
(* The keys of a transaction.  What is cached of a table, and what has     *)
(* been copied of it, is a beginning of what the chain has; so the keys    *)
(* that are found in the copies are those on the chain, and stay so while  *)
(* the tables grow.                                                        *)
(***************************************************************************)
Lookup == [table : Tables, writable : Seq(Nat \ {0}), readonly : Seq(Nat \ {0})]

\* every index of these lookups is below what the chain has
InRange(lookups) ==
  \A i \in DOMAIN lookups : \A x \in Indexes(lookups[i]) : x <= length[lookups[i].table]

Beginnings ==
  /\ length \in [Tables -> Nat] /\ cached \in [Tables -> Nat]
  /\ \A t \in Tables : cached[t] <= length[t]

Copies ==
  /\ got \in Seq(Nat)
  /\ got # <<>> => resolving /\ TheTx \in Sigs /\ Len(got) <= Len(Lookups[TheTx])
  /\ \A i \in DOMAIN got : got[i] <= length[Lookups[TheTx][i].table]

KeysKnown ==
  keys # NoKeys /\ keys.list # NoKeys =>
    keys.sig \in Sigs /\ InRange(Lookups[keys.sig])

KeysInv == Beginnings /\ Copies /\ KeysKnown /\ KeysRight

LEMMA KeysAgree ==
  ASSUME NEW t, NEW a \in Nat, NEW b \in Nat, NEW indexes \in Seq(Nat \ {0}),
         \A x \in Range(indexes) : x <= a /\ x <= b
  PROVE  KeysAt(Keys(t, a), indexes) = KeysAt(Keys(t, b), indexes)
<1>1. \A j \in DOMAIN indexes : indexes[j] \in 1 .. a /\ indexes[j] \in 1 .. b
  BY DEF Range
<1> QED BY <1>1 DEF KeysAt, Keys

\* the keys of some lookups, when of each table only the first so many are at hand
LEMMA ListsAgree ==
  ASSUME NEW lookups \in Seq(Lookup), NEW f, NEW g,
         \A i \in DOMAIN lookups :
           /\ f[i] \in Nat /\ g[i] \in Nat
           /\ \A x \in Indexes(lookups[i]) : x <= f[i] /\ x <= g[i]
  PROVE  /\ [i \in DOMAIN lookups |-> KeysAt(Keys(lookups[i].table, f[i]), lookups[i].writable)]
            = [i \in DOMAIN lookups |-> KeysAt(Keys(lookups[i].table, g[i]), lookups[i].writable)]
         /\ [i \in DOMAIN lookups |-> KeysAt(Keys(lookups[i].table, f[i]), lookups[i].readonly)]
            = [i \in DOMAIN lookups |-> KeysAt(Keys(lookups[i].table, g[i]), lookups[i].readonly)]
<1>1. ASSUME NEW i \in DOMAIN lookups
      PROVE  /\ KeysAt(Keys(lookups[i].table, f[i]), lookups[i].writable)
                = KeysAt(Keys(lookups[i].table, g[i]), lookups[i].writable)
             /\ KeysAt(Keys(lookups[i].table, f[i]), lookups[i].readonly)
                = KeysAt(Keys(lookups[i].table, g[i]), lookups[i].readonly)
  <2>0. lookups[i] \in Lookup
    OBVIOUS
  <2>1. lookups[i].writable \in Seq(Nat \ {0}) /\ lookups[i].readonly \in Seq(Nat \ {0})
    BY <2>0 DEF Lookup
  <2>2. /\ \A x \in Range(lookups[i].writable) : x <= f[i] /\ x <= g[i]
        /\ \A x \in Range(lookups[i].readonly) : x <= f[i] /\ x <= g[i]
    BY DEF Indexes
  <2> QED BY <2>1, <2>2, KeysAgree
<1> QED BY <1>1

LEMMA IndexesType ==
  ASSUME NEW lookup \in Lookup
  PROVE  \A x \in Indexes(lookup) : x \in Nat
<1>1. lookup.writable \in Seq(Nat \ {0}) /\ lookup.readonly \in Seq(Nat \ {0})
  BY DEF Lookup
<1>2. \A s \in Seq(Nat \ {0}) : \A j \in DOMAIN s : s[j] \in Nat
  OBVIOUS
<1> QED BY <1>1, <1>2 DEF Indexes, Range

LEMMA LookupsType ==
  ASSUME NEW s \in Sigs
  PROVE  Lookups[s] \in Seq(Lookup)
BY ShredStreamAssumption DEF Lookup

\* tables only grow
LEMMA GrowthKeepsKeys ==
  ASSUME KeysInv, length' \in [Tables -> Nat], \A t \in Tables : length[t] <= length'[t],
         keys' = keys
  PROVE  KeysKnown' /\ KeysRight'
<1> SUFFICES ASSUME keys # NoKeys, keys.list # NoKeys
             PROVE  /\ keys.sig \in Sigs /\ InRange(Lookups[keys.sig])'
                    /\ keys.list = ChainKeys(Lookups[keys.sig])'
  BY DEF KeysKnown, KeysRight
<1> DEFINE ls == Lookups[keys.sig]
<1>1. keys.sig \in Sigs /\ InRange(ls) /\ keys.list = ChainKeys(ls) /\ ls \in Seq(Lookup)
  BY LookupsType DEF KeysInv, KeysKnown, KeysRight
<1>2. ls' = ls
  OBVIOUS
<1> HIDE DEF ls
<1>3. ASSUME NEW i \in DOMAIN ls
      PROVE  /\ ls[i].table \in Tables
             /\ length[ls[i].table] \in Nat /\ length'[ls[i].table] \in Nat
             /\ length[ls[i].table] <= length'[ls[i].table]
             /\ \A x \in Indexes(ls[i]) : x \in Nat /\ x <= length[ls[i].table]
  <2>1. ls[i] \in Lookup
    BY <1>1
  <2>2. \A x \in Indexes(ls[i]) : x <= length[ls[i].table]
    BY <1>1 DEF InRange
  <2>3. \A x \in Indexes(ls[i]) : x \in Nat
    BY <2>1, IndexesType
  <2> QED BY <2>1, <2>2, <2>3 DEF KeysInv, Beginnings, Lookup
<1>4. \A i \in DOMAIN ls : \A x \in Indexes(ls[i]) : x <= length'[ls[i].table]
  BY <1>3
<1> DEFINE f == [i \in DOMAIN ls |-> length[ls[i].table]]
           g == [i \in DOMAIN ls |-> length'[ls[i].table]]
<1>5. ChainKeys(ls) =
        FlattenSeq([i \in DOMAIN ls |->
                      KeysAt(Keys(ls[i].table, length'[ls[i].table]), ls[i].writable)]) \o
        FlattenSeq([i \in DOMAIN ls |->
                      KeysAt(Keys(ls[i].table, length'[ls[i].table]), ls[i].readonly)])
  <2>1. \A i \in DOMAIN ls :
           /\ f[i] \in Nat /\ g[i] \in Nat
           /\ \A x \in Indexes(ls[i]) : x <= f[i] /\ x <= g[i]
    BY <1>3, <1>4
  <2>2. \A i \in DOMAIN ls : f[i] = length[ls[i].table] /\ g[i] = length'[ls[i].table]
    OBVIOUS
  <2> HIDE DEF f, g
  <2>3. /\ [i \in DOMAIN ls |-> KeysAt(Keys(ls[i].table, f[i]), ls[i].writable)]
            = [i \in DOMAIN ls |-> KeysAt(Keys(ls[i].table, g[i]), ls[i].writable)]
        /\ [i \in DOMAIN ls |-> KeysAt(Keys(ls[i].table, f[i]), ls[i].readonly)]
            = [i \in DOMAIN ls |-> KeysAt(Keys(ls[i].table, g[i]), ls[i].readonly)]
    BY <1>1, <2>1, ListsAgree
  <2> QED BY <2>2, <2>3 DEF ChainKeys, OnChain
<1> QED BY <1>1, <1>2, <1>4, <1>5 DEF InRange, ChainKeys, OnChain, ls

LEMMA KeysInit == ShredInit => KeysInv
<1> SUFFICES ASSUME ShredInit PROVE KeysInv
  OBVIOUS
<1> QED
  BY DEF ShredInit, KeysInv, Beginnings, Copies, KeysKnown, KeysRight

\* the cache behind the listener's back
LEMMA AltKeepsKeys ==
  ASSUME KeysInv, AltStep, UNCHANGED <<vars, resolving, got, keys>>
  PROVE  KeysInv'
<1> USE DEF KeysInv, Beginnings
<1>1. PICK t \in Tables : Extend(t) \/ FetchBegins(t) \/ FetchEnds(t) \/ Unmark(t)
  BY DEF AltStep
<1>2. Beginnings' /\ \A u \in Tables : length[u] <= length'[u]
  <2>1. CASE Extend(t)
    BY <2>1 DEF Extend
  <2>2. CASE FetchBegins(t) \/ Unmark(t)
    BY <2>2 DEF FetchBegins, Unmark
  <2>3. CASE FetchEnds(t)
    BY <2>3 DEF FetchEnds
  <2> QED BY <1>1, <2>1, <2>2, <2>3
<1>3. Copies'
  <2>1. TheTx' = TheTx
    BY DEF vars, TheTx
  <2>2. ASSUME NEW i \in DOMAIN got
        PROVE  got[i] <= length'[Lookups[TheTx][i].table]
    <3>1. got[i] \in Nat /\ got[i] <= length[Lookups[TheTx][i].table]
      BY DEF Copies
    <3>2. i \in DOMAIN Lookups[TheTx] /\ Lookups[TheTx] \in Seq(Lookup)
      BY LookupsType DEF Copies
    <3>3. Lookups[TheTx][i].table \in Tables
      <4>1. Lookups[TheTx][i] \in Lookup
        BY <3>2
      <4> QED BY <4>1 DEF Lookup
    <3> QED BY <1>2, <3>1, <3>3
  <2> QED BY <2>1, <2>2 DEF Copies
<1>4. KeysKnown' /\ KeysRight'
  BY <1>2, GrowthKeepsKeys
<1> QED BY <1>2, <1>3, <1>4

LEMMA CopyKeepsKeys == KeysInv /\ ResolvingInv /\ CopyTable => KeysInv'
<1> SUFFICES ASSUME KeysInv, ResolvingInv, CopyTable PROVE KeysInv'
  OBVIOUS
<1> USE DEF KeysInv
<1>1. TheTx \in Sigs /\ TheTx' = TheTx
  <2>1. next["shreds"] \in 1 .. Len(Stream)
    BY ListenersAssumption DEF ResolvingInv, Sources, CopyTable
  <2> QED BY <2>1, ListenersAssumption DEF TheTx, CopyTable, vars
<1> DEFINE ls == Lookups[TheTx]
           t  == ls[Len(got) + 1].table
<1>2. ls \in Seq(Lookup) /\ got \in Seq(Nat) /\ Len(got) < Len(ls)
  BY <1>1, LookupsType DEF Copies, CopyTable
<1>3. got' = Append(got, cached[t]) /\ resolving'
  BY DEF CopyTable
<1>4. t \in Tables
  <2>1. ls[Len(got) + 1] \in Lookup
    BY <1>2
  <2> QED BY <2>1 DEF Lookup
<1>5. cached[t] \in Nat /\ cached[t] <= length[t]
  BY <1>4 DEF Beginnings
<1>6. Copies'
  <2>1. got' \in Seq(Nat) /\ Len(got') <= Len(ls)
    BY <1>2, <1>3, <1>5
  <2>2. ASSUME NEW i \in DOMAIN got' PROVE got'[i] <= length[ls[i].table]
    <3>1. CASE i = Len(got) + 1
      BY <1>2, <1>3, <1>5, <3>1
    <3>2. CASE i # Len(got) + 1
      BY <1>2, <1>3, <1>5, <3>2 DEF Copies
    <3> QED BY <3>1, <3>2
  <2>3. length' = length
    BY DEF CopyTable
  <2> QED BY <1>1, <1>3, <2>1, <2>2, <2>3 DEF Copies
<1>7. Beginnings' /\ UNCHANGED <<keys, length>>
  BY DEF CopyTable, Beginnings
<1> QED BY <1>6, <1>7 DEF KeysKnown, KeysRight, InRange, ChainKeys, OnChain

(***************************************************************************)
(* What the listener puts together when nothing is missing.                *)
(***************************************************************************)
LEMMA ResolvedRight ==
  ASSUME KeysInv, Len(got) = Len(Lookups[TheTx]), TheTx \in Sigs, Resolved # NoKeys
  PROVE  Resolved = ChainKeys(Lookups[TheTx]) /\ InRange(Lookups[TheTx])
<1> DEFINE ls == Lookups[TheTx]
<1>1. ls \in Seq(Lookup) /\ got \in Seq(Nat) /\ DOMAIN got = DOMAIN ls
  BY LookupsType DEF KeysInv, Copies
<1>2. Outdated = {}
  BY DEF Resolved
<1>3. ASSUME NEW i \in DOMAIN ls
      PROVE  /\ got[i] \in Nat /\ length[ls[i].table] \in Nat
             /\ \A x \in Indexes(ls[i]) : x <= got[i] /\ x <= length[ls[i].table]
  <2>1. ls[i] \in Lookup
    BY <1>1
  <2>2. got[i] \in Nat /\ got[i] <= length[ls[i].table] /\ length[ls[i].table] \in Nat
    <3>1. ls[i].table \in Tables
      BY <2>1 DEF Lookup
    <3> QED BY <1>1, <3>1 DEF KeysInv, Copies, Beginnings
  <2>3. \A x \in Indexes(ls[i]) : x \in Nat /\ ~ (x > got[i])
    BY <1>1, <1>2, <2>1, IndexesType DEF Outdated
  <2> QED BY <2>2, <2>3
<1> DEFINE g == [i \in DOMAIN ls |-> length[ls[i].table]]
<1>4. \A i \in DOMAIN ls : g[i] = length[ls[i].table]
  OBVIOUS
<1>5. Resolved =
        FlattenSeq([i \in DOMAIN ls |-> KeysAt(Keys(ls[i].table, got[i]), ls[i].writable)]) \o
        FlattenSeq([i \in DOMAIN ls |-> KeysAt(Keys(ls[i].table, got[i]), ls[i].readonly)])
  BY <1>1 DEF Resolved, Copy
<1> HIDE DEF ls, g
<1>6. /\ [i \in DOMAIN ls |-> KeysAt(Keys(ls[i].table, got[i]), ls[i].writable)]
          = [i \in DOMAIN ls |-> KeysAt(Keys(ls[i].table, g[i]), ls[i].writable)]
      /\ [i \in DOMAIN ls |-> KeysAt(Keys(ls[i].table, got[i]), ls[i].readonly)]
          = [i \in DOMAIN ls |-> KeysAt(Keys(ls[i].table, g[i]), ls[i].readonly)]
  <2>1. \A i \in DOMAIN ls :
           /\ got[i] \in Nat /\ g[i] \in Nat
           /\ \A x \in Indexes(ls[i]) : x <= got[i] /\ x <= g[i]
    BY <1>3, <1>4
  <2> QED BY <1>1, <2>1, ListsAgree
<1>7. Resolved = ChainKeys(ls)
  BY <1>4, <1>5, <1>6 DEF ChainKeys, OnChain
<1>8. InRange(ls)
  BY <1>3 DEF InRange
<1> QED BY <1>7, <1>8 DEF ls

LEMMA LookKeepsKeys == KeysInv /\ ResolvingInv /\ Look => KeysInv'
<1> SUFFICES ASSUME KeysInv, ResolvingInv, Look PROVE KeysInv'
  OBVIOUS
<1>1. TheTx \in Sigs
  <2>1. next["shreds"] \in 1 .. Len(Stream)
    BY ListenersAssumption DEF ResolvingInv, Sources, Look
  <2> QED BY <2>1, ListenersAssumption DEF TheTx
<1>2. length' = length /\ got' = <<>>
  BY DEF Look, altVars
<1>3. Beginnings'
  <2>1. cached' = cached \/ \E t : cached' = [cached EXCEPT ![t] = 0]
    BY DEF Look, altVars
  <2> QED BY <1>2, <2>1 DEF KeysInv, Beginnings
<1>4. Copies'
  BY <1>2 DEF Copies
<1>5. PICK s \in Sigs : s = TheTx
  BY <1>1
<1>6. PICK list : list = Resolved
  OBVIOUS
<1>7. keys' = [sig |-> s, list |-> list]
  BY <1>5, <1>6 DEF Look
<1>8. list # NoKeys => list = ChainKeys(Lookups[s]) /\ InRange(Lookups[s])
  BY <1>5, <1>6, ResolvedRight DEF Look
<1>9. ChainKeys(Lookups[s])' = ChainKeys(Lookups[s]) /\ InRange(Lookups[s])' = InRange(Lookups[s])
  BY <1>2 DEF ChainKeys, OnChain, InRange
<1>10. keys'.sig = s /\ keys'.list = list
  BY <1>7
<1>11. KeysKnown' /\ KeysRight'
  BY <1>2, <1>8, <1>9, <1>10 DEF KeysKnown, KeysRight, ChainKeys, OnChain, InRange
<1> QED BY <1>3, <1>4, <1>11 DEF KeysInv

LEMMA KeysNext == KeysInv /\ ResolvingInv /\ [ShredNext]_shredVars => KeysInv'
<1> SUFFICES ASSUME KeysInv, ResolvingInv, [ShredNext]_shredVars PROVE KeysInv'
  OBVIOUS
<1>1. ASSUME UNCHANGED <<altVars, got, keys>>, got # <<>> => UNCHANGED resolving /\ TheTx' = TheTx
      PROVE  KeysInv'
  <2>1. Beginnings' /\ Copies'
    BY <1>1 DEF KeysInv, Beginnings, Copies, altVars
  <2>2. KeysKnown' /\ KeysRight'
    BY <1>1 DEF KeysInv, KeysKnown, KeysRight, InRange, ChainKeys, OnChain, altVars
  <2> QED BY <2>1, <2>2 DEF KeysInv
<1>2. CASE TakeTx
  BY <1>1, <1>2 DEF TakeTx, KeysInv, Copies
<1>3. CASE CopyTable \/ Look
  BY <1>3, CopyKeepsKeys, LookKeepsKeys
<1>4. CASE AltStep /\ UNCHANGED <<vars, resolving, got, keys>>
  BY <1>4, AltKeepsKeys
<1>5. CASE UNCHANGED shredVars
  BY <1>1, <1>5 DEF shredVars, vars, TheTx
<1>6. ASSUME UNCHANGED <<altVars, resolving, got, keys>>,
             ~ resolving \/ next'["shreds"] = next["shreds"]
      PROVE  KeysInv'
  BY <1>1, <1>6 DEF KeysInv, Copies, TheTx
<1>7. CASE (Observe("geyser") \/ Reconnect("geyser")) /\ UNCHANGED <<altVars, resolving, got, keys>>
  <2>1. next'["shreds"] = next["shreds"]
    BY <1>7 DEF Observe, Reconnect, ResolvingInv, Sources
  <2> QED BY <1>6, <1>7, <2>1
<1>8. CASE ~ resolving /\ UNCHANGED <<altVars, resolving, got, keys>>
  BY <1>6, <1>8
<1>9. CASE (\E x \in Sources : Send(x)) /\ UNCHANGED <<altVars, resolving, got, keys>>
  BY <1>6, <1>9 DEF Send
<1>10. CASE UNCHANGED <<next, outbox>> /\ UNCHANGED <<altVars, resolving, got, keys>>
  BY <1>6, <1>10
<1> QED
  BY <1>2, <1>3, <1>4, <1>5, <1>7, <1>8, <1>9, <1>10 DEF ShredNext

(***************************************************************************)
(* The keys ShredStream reads a transaction with are those on the chain,   *)
(* whatever the cache does while they are put together.                    *)
(***************************************************************************)
THEOREM KeysAreRight == ShredSpec => []KeysRight
<1>1. ShredInit => KeysInv /\ ResolvingInv
  BY KeysInit DEF ShredInit, Init, ResolvingInv
<1>2. KeysInv => KeysRight
  BY DEF KeysInv
<1> QED BY <1>1, <1>2, KeysNext, ResolvingKept, PTL DEF ShredSpec

-----------------------------------------------------------------------------
(* The copy engine.                                                        *)

(***************************************************************************)
(* What it does besides the steps of the main loop touches neither the     *)
(* signatures nor the clock.                                               *)
(***************************************************************************)
LEMMA EngineOtherSteps == [Engine!Next]_Engine!vars => SeenStep
<1> SUFFICES ASSUME [Engine!Next]_Engine!vars
             PROVE  SkipDuplicate \/ SpawnBuy \/ Tick \/ UNCHANGED <<now, seenAt, spawnedAt>>
  BY DEF SeenStep
<1>1. CASE UNCHANGED Engine!vars
  BY <1>1 DEF Engine!vars, Engine!dispatchVars, Engine!seenVars
<1>2. CASE Engine!Forward \/ Engine!Miss \/ Engine!TakeNotification
  BY <1>2 DEF Engine!Forward, Engine!Miss, Engine!TakeNotification, Engine!dispatchVars,
              Engine!seenVars
<1>3. ASSUME NEW n \in Engine!Notifications, Engine!Acquire(n) \/ Engine!FetchStep(n)
      PROVE  UNCHANGED <<now, seenAt, spawnedAt>>
  BY <1>3 DEF Engine!Acquire, Engine!FetchStep, Engine!RateLimited, Engine!FetchFails,
              Engine!Fetched, Engine!dispatchVars, Engine!seenVars
<1>4. ASSUME NEW n \in Engine!Notifications, Engine!Deliver(n)
      PROVE  UNCHANGED <<now, seenAt, spawnedAt>>
  BY <1>4 DEF Engine!Deliver, Engine!PutBuy, Engine!PutMirror, Engine!seenVars
<1>5. CASE Engine!DispatchNext
  <2>1. CASE Engine!TakeMirror \/ Engine!Reload
    BY <2>1 DEF Engine!TakeMirror, Engine!Reload, Engine!seenVars
  <2>2. CASE Engine!SkipDuplicate
    BY <2>2 DEF Engine!SkipDuplicate, SkipDuplicate, Engine!Seen, Seen
  <2>3. CASE Engine!SpawnBuy
    BY <2>3 DEF Engine!SpawnBuy, SpawnBuy, Engine!Seen, Seen, Engine!Retained, Retained
  <2>4. CASE Engine!Tick
    BY <2>4 DEF Engine!Tick, Tick, Engine!seenVars, seenVars
  <2> QED BY <1>5, <2>1, <2>2, <2>3, <2>4 DEF Engine!DispatchNext, Engine!DispatchStep
<1> QED BY <1>1, <1>2, <1>3, <1>4, <1>5 DEF Engine!Next

(***************************************************************************)
(* The WebSocket way, too, leads to one buy for a signature within the     *)
(* time to live, although the node may repeat a notification and fetches   *)
(* end in any order.                                                       *)
(***************************************************************************)
THEOREM EngineBuysOnce == Engine!Spec => BoughtOnce
<1>1. Engine!Init => SeenInv
  BY DispatchAssumption DEF Engine!Init, Engine!DispatchInit, SeenInv, Times, KnownSince
<1> QED BY <1>1, SeenKept, SpacedBuys, EngineOtherSteps, PTL DEF Engine!Spec, BoughtOnce

(***************************************************************************)
(* Permits.  A job counts while it fetches or sends; it sends as long as   *)
(* something it found is left.                                             *)
(***************************************************************************)
Holding == {n \in Engine!Notifications : job[n] \in {"fetching", "sending"}}

PermitsCounted ==
  /\ permits + Cardinality(Holding) = MaxRpc
  /\ \A n \in Engine!Notifications : job[n] = "sending" <=> fetched[n] # <<>>

(***************************************************************************)
(* Beside it, that no notification becomes a job twice: the channel holds  *)
(* those that are none yet, in the order in which the node sent them.      *)
(***************************************************************************)
JobsFresh ==
  /\ notified \in Nat \ {0}
  /\ wsChan \in Seq(Engine!Notifications)
  /\ \A i, j \in DOMAIN wsChan : i < j => wsChan[i] < wsChan[j]
  /\ \A i \in DOMAIN wsChan : wsChan[i] < notified /\ job[wsChan[i]] = "none"
  /\ \A n \in Engine!Notifications : n >= notified => job[n] = "none"

EngineInv ==
  /\ job \in [Engine!Notifications -> Engine!JobStates]
  /\ fetched \in [Engine!Notifications -> Seq(Engine!Kinds)]
  /\ permits \in Nat
  /\ PermitsCounted
  /\ JobsFresh

LEMMA HoldingType ==
  /\ Len(Stream) \in Nat /\ Engine!Notifications \subseteq Nat
  /\ IsFiniteSet(Engine!Notifications)
  /\ IsFiniteSet(Holding) /\ Cardinality(Holding) \in Nat
<1>1. Len(Stream) \in Nat
  BY ListenersAssumption, LenProperties
<1>2. IsFiniteSet(Engine!Notifications)
  BY <1>1, FS_Interval DEF Engine!Notifications
<1> QED BY <1>1, <1>2, FS_Subset, FS_CardinalityType DEF Holding, Engine!Notifications

LEMMA EngineInit ==
  ASSUME MaxRpc \in Nat, Engine!Init
  PROVE  EngineInv
<1>1. job \in [Engine!Notifications -> Engine!JobStates] /\ permits = MaxRpc
  BY DEF Engine!Init, Engine!JobStates
<1>2. fetched \in [Engine!Notifications -> Seq(Engine!Kinds)]
  BY DEF Engine!Init
<1>3. Holding = {}
  BY DEF Engine!Init, Holding
<1>4. PermitsCounted
  BY <1>1, <1>3, FS_EmptySet DEF PermitsCounted, Engine!Init
<1>5. JobsFresh
  BY DEF JobsFresh, Engine!Init
<1> QED BY <1>1, <1>2, <1>4, <1>5 DEF EngineInv

(***************************************************************************)
(* The listener and the receive loop of the engine.                        *)
(***************************************************************************)
LEMMA ForwardKeeps ==
  ASSUME EngineInv, Engine!Forward \/ Engine!Miss
  PROVE  EngineInv'
<1>1. UNCHANGED <<job, fetched, permits>> /\ notified' = notified + 1
      /\ notified <= Len(Stream)
  BY DEF Engine!Forward, Engine!Miss
<1>2. Holding' = Holding
  BY <1>1 DEF Holding
<1>3. notified \in Engine!Notifications
  BY <1>1, HoldingType DEF EngineInv, JobsFresh, Engine!Notifications
<1>4. /\ Len(wsChan) \in Nat /\ DOMAIN wsChan = 1 .. Len(wsChan)
      /\ \A i \in DOMAIN wsChan : wsChan[i] \in Engine!Notifications /\ wsChan[i] \in Nat
  BY HoldingType, LenProperties, ElementOfSeq DEF EngineInv, JobsFresh
<1>5. \A q \in Engine!Notifications : q >= notified' => job'[q] = "none"
  BY <1>1, HoldingType DEF EngineInv, JobsFresh
<1>6. JobsFresh'
  <2>1. CASE Engine!Forward
    <3>1. wsChan' = Append(wsChan, notified)
      BY <2>1 DEF Engine!Forward
    <3>2. /\ wsChan' \in Seq(Engine!Notifications)
          /\ DOMAIN wsChan' = 1 .. Len(wsChan) + 1
          /\ \A i \in 1 .. Len(wsChan) : wsChan'[i] = wsChan[i]
          /\ wsChan'[Len(wsChan) + 1] = notified
      BY <1>3, <3>1, AppendProperties, LenProperties DEF EngineInv, JobsFresh
    <3>3. \A i \in DOMAIN wsChan' :
            \/ i \in DOMAIN wsChan /\ wsChan'[i] = wsChan[i]
            \/ i = Len(wsChan) + 1 /\ wsChan'[i] = notified
      BY <1>4, <3>2
    <3>4. \A i \in DOMAIN wsChan' : wsChan'[i] < notified' /\ job'[wsChan'[i]] = "none"
      <4>1. notified \in Nat /\ notified < notified' /\ job[notified] = "none" /\ job' = job
        BY <1>1, <1>3 DEF EngineInv, JobsFresh
      <4>2. \A i \in DOMAIN wsChan : wsChan[i] < notified' /\ job[wsChan[i]] = "none"
        BY <1>1, <1>4, <4>1 DEF EngineInv, JobsFresh
      <4> QED BY <3>3, <4>1, <4>2
    <3>5. \A i, j \in DOMAIN wsChan' : i < j => wsChan'[i] < wsChan'[j]
      <4>1. SUFFICES ASSUME NEW i \in DOMAIN wsChan', NEW j \in DOMAIN wsChan', i < j
                     PROVE  wsChan'[i] < wsChan'[j]
        OBVIOUS
      <4>2. i \in DOMAIN wsChan /\ wsChan'[i] = wsChan[i]
        BY <1>4, <3>2, <3>3, <4>1
      <4>3. CASE j \in DOMAIN wsChan /\ wsChan'[j] = wsChan[j]
        BY <4>1, <4>2, <4>3 DEF EngineInv, JobsFresh
      <4>4. CASE wsChan'[j] = notified
        BY <4>2, <4>4 DEF EngineInv, JobsFresh
      <4> QED BY <3>3, <4>3, <4>4
    <3> QED BY <1>1, <1>5, <3>2, <3>4, <3>5 DEF EngineInv, JobsFresh
  <2>2. CASE Engine!Miss
    <3>1. wsChan' = wsChan
      BY <2>2 DEF Engine!Miss
    <3>2. \A i \in DOMAIN wsChan' : wsChan'[i] < notified' /\ job'[wsChan'[i]] = "none"
      BY <1>1, <1>4, <3>1 DEF EngineInv, JobsFresh
    <3> QED BY <1>1, <1>5, <3>1, <3>2 DEF EngineInv, JobsFresh
  <2> QED BY <2>1, <2>2
<1> QED BY <1>1, <1>2, <1>6 DEF EngineInv, PermitsCounted

LEMMA TakeKeeps ==
  ASSUME EngineInv, Engine!TakeNotification
  PROVE  EngineInv'
<1>1. PICK n : n = Head(wsChan)
  OBVIOUS
<1>2. /\ wsChan # <<>> /\ wsChan' = Tail(wsChan)
      /\ job' = [job EXCEPT ![n] = IF Stream[n] \in Trades THEN "waiting" ELSE "skipped"]
      /\ UNCHANGED <<notified, fetched, permits>>
  BY <1>1 DEF Engine!TakeNotification
<1>3. /\ Len(wsChan) \in Nat /\ Len(wsChan) > 0 /\ DOMAIN wsChan = 1 .. Len(wsChan)
      /\ \A i \in DOMAIN wsChan : wsChan[i] \in Engine!Notifications /\ wsChan[i] \in Nat
      /\ n = wsChan[1]
  <2>1. Len(wsChan) \in Nat /\ Len(wsChan) > 0 /\ DOMAIN wsChan = 1 .. Len(wsChan)
    BY <1>2, EmptySeq, LenProperties DEF EngineInv, JobsFresh
  <2>2. \A i \in DOMAIN wsChan : wsChan[i] \in Engine!Notifications /\ wsChan[i] \in Nat
    BY <2>1, HoldingType, ElementOfSeq DEF EngineInv, JobsFresh
  <2>3. n = wsChan[1]
    BY <1>1, <2>1
  <2> QED BY <2>1, <2>2, <2>3
<1>4. n \in Engine!Notifications /\ n < notified /\ job[n] = "none"
  BY <1>3 DEF EngineInv, JobsFresh
<1>5. /\ wsChan' \in Seq(Engine!Notifications)
      /\ DOMAIN wsChan' = 1 .. Len(wsChan) - 1
      /\ \A i \in 1 .. Len(wsChan) - 1 : wsChan'[i] = wsChan[i + 1]
  BY <1>2, HeadTailProperties, LenProperties DEF EngineInv, JobsFresh
<1>6. JobsFresh'
  <2>1. \A i \in DOMAIN wsChan' : i + 1 \in DOMAIN wsChan /\ wsChan'[i] = wsChan[i + 1]
    BY <1>3, <1>5
  <2>2. \A i \in DOMAIN wsChan' : wsChan'[i] # n /\ wsChan'[i] < notified'
    <3>1. \A i \in DOMAIN wsChan' : 1 < i + 1 /\ 1 \in DOMAIN wsChan
      BY <1>3, <1>5
    <3>2. \A i \in DOMAIN wsChan' : wsChan[1] < wsChan[i + 1] /\ wsChan[i + 1] < notified
      BY <2>1, <3>1 DEF EngineInv, JobsFresh
    <3> QED BY <1>2, <1>3, <2>1, <3>2
  <2>3. \A i \in DOMAIN wsChan' : job'[wsChan'[i]] = "none"
    BY <1>2, <1>3, <2>1, <2>2 DEF EngineInv, JobsFresh
  <2>4. \A i, j \in DOMAIN wsChan' : i < j => wsChan'[i] < wsChan'[j]
    <3>1. \A i, j \in DOMAIN wsChan' : i < j => i + 1 < j + 1
      BY <1>3, <1>5
    <3> QED BY <2>1, <3>1 DEF EngineInv, JobsFresh
  <2>5. \A q \in Engine!Notifications : q >= notified' => job'[q] = "none"
    BY <1>2, <1>4, HoldingType DEF EngineInv, JobsFresh
  <2> QED BY <1>2, <1>5, <2>2, <2>3, <2>4, <2>5 DEF EngineInv, JobsFresh
<1>7. job' \in [Engine!Notifications -> Engine!JobStates]
  BY <1>2 DEF EngineInv, Engine!JobStates
<1>8. Holding' = Holding /\ PermitsCounted'
  <2>1. \A q \in Engine!Notifications :
          /\ job'[q] \in {"fetching", "sending"} <=> job[q] \in {"fetching", "sending"}
          /\ job'[q] = "sending" <=> job[q] = "sending"
    BY <1>2, <1>4 DEF EngineInv
  <2>2. Holding' = Holding
    BY <2>1 DEF Holding
  <2> QED BY <1>2, <2>1, <2>2 DEF EngineInv, PermitsCounted
<1> QED BY <1>2, <1>6, <1>7, <1>8 DEF EngineInv

(***************************************************************************)
(* A job goes on.                                                          *)
(***************************************************************************)
LEMMA JobMoves ==
  ASSUME EngineInv, NEW n \in Engine!Notifications, job[n] # "none",
         NEW to \in Engine!JobStates \ {"none"}, job' = [job EXCEPT ![n] = to],
         UNCHANGED <<notified, wsChan>>
  PROVE  /\ job' \in [Engine!Notifications -> Engine!JobStates]
         /\ JobsFresh'
         /\ Holding' = IF to \in {"fetching", "sending"} THEN Holding \cup {n} ELSE Holding \ {n}
         /\ n \in Holding <=> job[n] \in {"fetching", "sending"}
<1>1. job' \in [Engine!Notifications -> Engine!JobStates]
  BY DEF EngineInv
<1>2. JobsFresh'
  BY ElementOfSeq, LenProperties DEF EngineInv, JobsFresh
<1>3. n \in Holding <=> job[n] \in {"fetching", "sending"}
  BY DEF Holding
<1>4. Holding' = IF to \in {"fetching", "sending"} THEN Holding \cup {n} ELSE Holding \ {n}
  BY DEF Holding, EngineInv
<1> QED BY <1>1, <1>2, <1>3, <1>4

LEMMA AcquireKeeps ==
  ASSUME EngineInv, NEW n \in Engine!Notifications, Engine!Acquire(n)
  PROVE  EngineInv'
<1>1. /\ job[n] = "waiting" /\ job' = [job EXCEPT ![n] = "fetching"]
      /\ permits > 0 /\ permits' = permits - 1
      /\ UNCHANGED <<notified, wsChan, fetched>>
  BY DEF Engine!Acquire
<1>2. /\ job' \in [Engine!Notifications -> Engine!JobStates]
      /\ JobsFresh'
      /\ Cardinality(Holding') = Cardinality(Holding) + 1
  <2>1. "fetching" \in Engine!JobStates \ {"none"} /\ job[n] # "none"
    BY <1>1 DEF Engine!JobStates
  <2>2. /\ job' \in [Engine!Notifications -> Engine!JobStates] /\ JobsFresh'
        /\ Holding' = Holding \cup {n} /\ n \notin Holding
    BY <1>1, <2>1, JobMoves
  <2> QED BY <2>2, HoldingType, FS_AddElement
<1>3. permits' \in Nat /\ permits' + Cardinality(Holding') = MaxRpc
  BY <1>1, <1>2, HoldingType DEF EngineInv, PermitsCounted
<1>4. \A q \in Engine!Notifications : job'[q] = "sending" <=> fetched'[q] # <<>>
  BY <1>1 DEF EngineInv, PermitsCounted
<1> QED BY <1>1, <1>2, <1>3, <1>4 DEF EngineInv, PermitsCounted

\* a fetch or the last delivery ends the job
LEMMA FinishKeeps ==
  ASSUME EngineInv, NEW n \in Engine!Notifications, job[n] \in {"fetching", "sending"},
         Engine!Finish(n), fetched' = [fetched EXCEPT ![n] = <<>>],
         UNCHANGED <<notified, wsChan>>
  PROVE  EngineInv'
<1>1. job' = [job EXCEPT ![n] = "done"] /\ permits' = permits + 1
  BY DEF Engine!Finish
<1>2. /\ job' \in [Engine!Notifications -> Engine!JobStates]
      /\ JobsFresh'
      /\ Cardinality(Holding') = Cardinality(Holding) - 1
  <2>1. "done" \in Engine!JobStates \ {"none"} /\ job[n] # "none"
    BY DEF Engine!JobStates
  <2>2. /\ job' \in [Engine!Notifications -> Engine!JobStates] /\ JobsFresh'
        /\ Holding' = Holding \ {n} /\ n \in Holding
    BY <1>1, <2>1, JobMoves
  <2> QED BY <2>2, HoldingType, FS_RemoveElement
<1>3. permits' \in Nat /\ permits' + Cardinality(Holding') = MaxRpc
  BY <1>1, <1>2, HoldingType DEF EngineInv, PermitsCounted
<1>4. fetched' \in [Engine!Notifications -> Seq(Engine!Kinds)]
  BY EmptySeq DEF EngineInv
<1>5. \A q \in Engine!Notifications : job'[q] = "sending" <=> fetched'[q] # <<>>
  BY <1>1 DEF EngineInv, PermitsCounted
<1> QED BY <1>2, <1>3, <1>4, <1>5 DEF EngineInv, PermitsCounted

LEMMA FetchKeeps ==
  ASSUME EngineInv, NEW n \in Engine!Notifications, Engine!FetchStep(n)
  PROVE  EngineInv'
<1>1. CASE Engine!RateLimited(n)
  BY <1>1 DEF Engine!RateLimited, EngineInv, PermitsCounted, JobsFresh, Holding
<1>2. CASE Engine!FetchFails(n)
  <2>1. job[n] = "fetching" /\ fetched[n] = <<>>
    BY <1>2 DEF Engine!FetchFails, EngineInv, PermitsCounted
  <2>2. fetched' = [fetched EXCEPT ![n] = <<>>]
    BY <1>2, <2>1 DEF Engine!FetchFails, EngineInv
  <2> QED BY <1>2, <2>1, <2>2, FinishKeeps DEF Engine!FetchFails
<1>3. CASE Engine!Fetched(n)
  <2>1. PICK sends \in Seq(Engine!Kinds) :
          /\ fetched' = [fetched EXCEPT ![n] = sends]
          /\ IF sends = <<>>
             THEN Engine!Finish(n)
             ELSE job' = [job EXCEPT ![n] = "sending"] /\ UNCHANGED permits
    <3>1. \A kinds : Engine!ToSend(kinds) \in Seq(Engine!Kinds)
      <4>1. <<>> \in Seq(Engine!Kinds)
        OBVIOUS
      <4>2. <<"buy">> \in Seq(Engine!Kinds)
        BY DEF Engine!Kinds
      <4>3. <<"sell">> \in Seq(Engine!Kinds)
        BY DEF Engine!Kinds
      <4>4. \A b, c \in Seq(Engine!Kinds) : b \o c \in Seq(Engine!Kinds)
        BY ConcatProperties
      <4> QED BY <4>1, <4>2, <4>3, <4>4 DEF Engine!ToSend
    <3> QED BY <1>3, <3>1 DEF Engine!Fetched
  <2>2. job[n] = "fetching" /\ UNCHANGED <<notified, wsChan>>
    BY <1>3 DEF Engine!Fetched
  <2>3. CASE sends = <<>>
    BY <2>1, <2>2, <2>3, FinishKeeps
  <2>4. CASE sends # <<>>
    <3>1. job' = [job EXCEPT ![n] = "sending"] /\ UNCHANGED permits
      BY <2>1, <2>4
    <3>2. /\ job' \in [Engine!Notifications -> Engine!JobStates]
          /\ JobsFresh'
          /\ Cardinality(Holding') = Cardinality(Holding)
      <4>1. "sending" \in Engine!JobStates \ {"none"} /\ job[n] # "none"
        BY <2>2 DEF Engine!JobStates
      <4>2. /\ job' \in [Engine!Notifications -> Engine!JobStates] /\ JobsFresh'
            /\ Holding' = Holding \cup {n} /\ n \in Holding
        BY <2>2, <3>1, <4>1, JobMoves
      <4>3. Holding' = Holding
        BY <4>2
      <4> QED BY <4>2, <4>3
    <3>3. fetched' \in [Engine!Notifications -> Seq(Engine!Kinds)]
      BY <2>1 DEF EngineInv
    <3>4. \A q \in Engine!Notifications : job'[q] = "sending" <=> fetched'[q] # <<>>
      BY <2>1, <2>4, <3>1 DEF EngineInv, PermitsCounted
    <3> QED BY <3>1, <3>2, <3>3, <3>4 DEF EngineInv, PermitsCounted
  <2> QED BY <2>3, <2>4
<1> QED BY <1>1, <1>2, <1>3 DEF Engine!FetchStep

LEMMA NoneLeft ==
  ASSUME NEW S, NEW s \in Seq(S)
  PROVE  s = <<>> <=> Len(s) = 0
<1>1. ASSUME s = <<>> PROVE Len(s) = 0
  <2>1. Len(<<>>) = 0
    OBVIOUS
  <2> QED BY <1>1, <2>1, Zenon
<1>2. ASSUME s # <<>> PROVE Len(s) # 0
  <2>1. Len(s) \in Nat \ {0}
    BY <1>2, EmptySeq, Zenon
  <2> QED BY <2>1
<1> QED BY <1>1, <1>2, Zenon

LEMMA DeliverKeeps ==
  ASSUME EngineInv, NEW n \in Engine!Notifications, Engine!Deliver(n)
  PROVE  EngineInv'
<1>1. /\ job[n] = "sending"
      /\ fetched' = [fetched EXCEPT ![n] = Tail(fetched[n])]
      /\ IF Len(fetched[n]) = 1 THEN Engine!Finish(n) ELSE UNCHANGED <<job, permits>>
      /\ UNCHANGED <<notified, wsChan>>
  BY DEF Engine!Deliver
<1>2. /\ fetched[n] \in Seq(Engine!Kinds) /\ fetched[n] # <<>>
      /\ Len(fetched[n]) \in Nat /\ Len(fetched[n]) > 0
  BY <1>1, EmptySeq DEF EngineInv, PermitsCounted
<1>3. Tail(fetched[n]) \in Seq(Engine!Kinds) /\ Len(Tail(fetched[n])) = Len(fetched[n]) - 1
  BY <1>2, HeadTailProperties
<1>4. Tail(fetched[n]) = <<>> <=> Len(Tail(fetched[n])) = 0
  BY <1>3, NoneLeft
<1>5. Tail(fetched[n]) = <<>> <=> Len(fetched[n]) = 1
  BY <1>2, <1>3, <1>4
<1>6. CASE Len(fetched[n]) = 1
  BY <1>1, <1>5, <1>6, FinishKeeps
<1>7. CASE Len(fetched[n]) # 1
  <2>1. Tail(fetched[n]) # <<>>
    BY <1>5, <1>7
  <2>2. Holding' = Holding /\ JobsFresh'
    BY <1>1, <1>7 DEF Holding, EngineInv, JobsFresh
  <2>3. /\ fetched' \in [Engine!Notifications -> Seq(Engine!Kinds)]
        /\ \A q \in Engine!Notifications : job'[q] = "sending" <=> fetched'[q] # <<>>
    BY <1>1, <1>3, <1>7, <2>1 DEF EngineInv, PermitsCounted
  <2> QED BY <1>1, <1>7, <2>2, <2>3 DEF EngineInv, PermitsCounted
<1> QED BY <1>6, <1>7

(***************************************************************************)
(* run_copy_engine: a permit is free or held by one job that fetches or    *)
(* sends, whichever way the fetch ends; a job gives it back when nothing   *)
(* of what it found is left to send.  NotificationsEnd rests on it.        *)
(***************************************************************************)
THEOREM PermitsComeBack ==
  ASSUME MaxRpc \in Nat
  PROVE  Engine!Spec => []PermitsCounted
<1>1. Engine!Init => EngineInv
  BY EngineInit
<1>2. EngineInv /\ [Engine!Next]_Engine!vars => EngineInv'
  <2> SUFFICES ASSUME EngineInv, [Engine!Next]_Engine!vars PROVE EngineInv'
    OBVIOUS
  <2>1. CASE UNCHANGED <<notified, wsChan, job, fetched, permits>>
    BY <2>1 DEF EngineInv, PermitsCounted, JobsFresh, Holding
  <2>2. CASE UNCHANGED Engine!vars
    BY <2>1, <2>2 DEF Engine!vars, Engine!engineVars
  <2>3. CASE Engine!DispatchNext /\ UNCHANGED Engine!engineVars
    BY <2>1, <2>3 DEF Engine!engineVars
  <2> QED BY <2>2, <2>3, ForwardKeeps, TakeKeeps, AcquireKeeps, FetchKeeps, DeliverKeeps
          DEF Engine!Next
<1>3. EngineInv => PermitsCounted
  BY DEF EngineInv
<1> QED BY <1>1, <1>2, <1>3, PTL DEF Engine!Spec

=============================================================================
