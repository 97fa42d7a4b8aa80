------------------------------ MODULE Dispatch ------------------------------
(***************************************************************************)
(* The receiving half of main: the two channels of detections, the         *)
(* deduplication of buys by signature, the arm for sells of the target,    *)
(* which a reload of the settings switches on and off, and the clock that  *)
(* ages the signatures.  The senders are in Listeners and CopyEngine.      *)
(***************************************************************************)
EXTENDS Integers, Sequences

CONSTANTS
  Sigs,          \* signatures of the target's transactions
  BuyCap,        \* capacity of the buy channel (100 in main)
  MirrorCap,     \* capacity of the mirror-sell channel (100 in main)
  MirrorAtStart, \* mirror_sells when the bot started
  Ttl,           \* SEEN_SIG_TTL
  CleanupAfter,  \* new signatures between two clean-ups (100 in main)
  Never,         \* no instant
  MaxTime,       \* bound: the last instant of a behaviour
  MaxReloads     \* bound: reloads that change mirror_sells

ASSUME DispatchAssumption ==
  /\ BuyCap \in Nat \ {0}
  /\ MirrorCap \in Nat \ {0}
  /\ MirrorAtStart \in BOOLEAN
  /\ Ttl \in Nat \ {0}
  /\ CleanupAfter \in Nat
  /\ Never \notin Int
  /\ MaxTime \in Nat
  /\ MaxReloads \in Nat

VARIABLES
  now,          \* Instant::now()
  buyChan,      \* detected buys
  mirrorChan,   \* detected sells
  mirrorOn,     \* mirror_sells in the current settings
  reloads,      \* reloads so far
  seenAt,       \* seen_sigs
  counter,      \* seen_sigs_cleanup_counter
  spawnedAt,    \* when a buy task was last spawned for a signature
  mirrored      \* mirror sells handled for a signature

seenVars == <<seenAt, counter, spawnedAt>>

dispatchVars == <<now, buyChan, mirrorChan, mirrorOn, reloads, seenVars, mirrored>>

Instants == 0 .. MaxTime

DispatchInit ==
  /\ now = 0
  /\ buyChan = <<>>
  /\ mirrorChan = <<>>
  /\ mirrorOn = MirrorAtStart
  /\ reloads = 0
  /\ seenAt = [s \in Sigs |-> Never]
  /\ counter = 0
  /\ spawnedAt = [s \in Sigs |-> Never]
  /\ mirrored = [s \in Sigs |-> 0]

DispatchTypeOK ==
  /\ now \in Instants
  /\ buyChan \in Seq(Sigs) /\ Len(buyChan) <= BuyCap
  /\ mirrorChan \in Seq(Sigs) /\ Len(mirrorChan) <= MirrorCap
  /\ mirrorOn \in BOOLEAN
  /\ reloads \in 0 .. MaxReloads
  /\ seenAt \in [Sigs -> Instants \cup {Never}]
  /\ counter \in 0 .. CleanupAfter
  /\ spawnedAt \in [Sigs -> Instants \cup {Never}]
  /\ mirrored \in [Sigs -> Nat]

-----------------------------------------------------------------------------
Seen(s) == seenAt[s] # Never

(***************************************************************************)
(* seen_sigs.insert has returned an earlier instant: the signature is      *)
(* skipped, and its entry now carries the present instant.                 *)
(***************************************************************************)
SkipDuplicate ==
  /\ buyChan # <<>>
  /\ Seen(Head(buyChan))
  /\ buyChan' = Tail(buyChan)
  /\ seenAt' = [seenAt EXCEPT ![Head(buyChan)] = now]
  /\ UNCHANGED <<now, mirrorChan, mirrorOn, reloads, counter, spawnedAt, mirrored>>

RetainedAny(seen) ==          \* mutant: the clean-up drops entries of any age
  [s \in Sigs |-> IF seen[s] = now THEN seen[s] ELSE Never]

Retained(seen) ==
  [s \in Sigs |-> IF seen[s] # Never /\ now - seen[s] < Ttl THEN seen[s] ELSE Never]

SpawnBuyContinues ==          \* mutant: the clean-up goes on to the next detection
  /\ buyChan # <<>>
  /\ ~Seen(Head(buyChan))
  /\ buyChan' = Tail(buyChan)
  /\ seenAt' = [seenAt EXCEPT ![Head(buyChan)] = now]
  /\ counter' = IF counter + 1 > CleanupAfter THEN 0 ELSE counter + 1
  /\ spawnedAt' = IF counter + 1 > CleanupAfter THEN spawnedAt
                  ELSE [spawnedAt EXCEPT ![Head(buyChan)] = now]
  /\ UNCHANGED <<now, mirrorChan, mirrorOn, reloads, mirrored>>

(***************************************************************************)
(* A new signature is entered, every now and then the old ones are thrown  *)
(* out, and a buy task is spawned.                                         *)
(***************************************************************************)
SpawnBuy ==
  /\ buyChan # <<>>
  /\ LET s    == Head(buyChan)
         seen == [seenAt EXCEPT ![s] = now]
     IN  /\ ~Seen(s)
         /\ buyChan' = Tail(buyChan)
         /\ IF counter + 1 > CleanupAfter
            THEN seenAt' = Retained(seen) /\ counter' = 0
            ELSE seenAt' = seen /\ counter' = counter + 1
         /\ spawnedAt' = [spawnedAt EXCEPT ![s] = now]
  /\ UNCHANGED <<now, mirrorChan, mirrorOn, reloads, mirrored>>

TakeMirrorUnasked ==          \* mutant: the sell is left in the channel
  /\ mirrorOn
  /\ mirrorChan # <<>>
  /\ UNCHANGED dispatchVars

(***************************************************************************)
(* The arm of the select that is polled only while mirror_sells is on.     *)
(* What its handler does with the sell is in SellSide.                     *)
(***************************************************************************)
TakeMirror ==
  /\ mirrorOn
  /\ mirrorChan # <<>>
  /\ mirrorChan' = Tail(mirrorChan)
  /\ mirrored' = [mirrored EXCEPT ![Head(mirrorChan)] = @ + 1]
  /\ UNCHANGED <<now, buyChan, mirrorOn, reloads, seenVars>>

(***************************************************************************)
(* run_config_watcher stores settings in which mirror_sells has changed.   *)
(***************************************************************************)
Reload ==
  /\ reloads < MaxReloads
  /\ reloads' = reloads + 1
  /\ mirrorOn' = ~mirrorOn
  /\ UNCHANGED <<now, buyChan, mirrorChan, seenVars, mirrored>>

Tick ==
  /\ now < MaxTime
  /\ now' = now + 1
  /\ UNCHANGED <<buyChan, mirrorChan, mirrorOn, reloads, seenVars, mirrored>>

DispatchStep == SkipDuplicate \/ SpawnBuy \/ TakeMirror

DispatchNext == DispatchStep \/ Reload \/ Tick

-----------------------------------------------------------------------------
(* What a listener does with a detection: it waits for room.               *)

PutBuy(s) ==
  /\ Len(buyChan) < BuyCap
  /\ buyChan' = Append(buyChan, s)
  /\ UNCHANGED <<now, mirrorChan, mirrorOn, reloads, seenVars, mirrored>>

PutMirror(s) ==
  /\ Len(mirrorChan) < MirrorCap
  /\ mirrorChan' = Append(mirrorChan, s)
  /\ UNCHANGED <<now, buyChan, mirrorOn, reloads, seenVars, mirrored>>

-----------------------------------------------------------------------------
(***************************************************************************)
(* Within the time to live a signature that has been bought for is still   *)
(* known, however often the clean-up ran and whichever signatures came in  *)
(* between: the fault that the comment "P1-3 fix" at seen_sigs describes.  *)
(***************************************************************************)
RecentRemembered ==
  \A s \in Sigs :
    spawnedAt[s] # Never /\ now - spawnedAt[s] < Ttl => Seen(s)

(***************************************************************************)
(* One signature leads to one buy: a second task is spawned for it only    *)
(* when the first is at least the time to live ago.                        *)
(***************************************************************************)
BoughtOnce ==
  [][\A s \in Sigs :
       spawnedAt[s] # Never /\ spawnedAt'[s] # spawnedAt[s]
       => spawnedAt'[s] - spawnedAt[s] >= Ttl]_dispatchVars

-----------------------------------------------------------------------------
(* What the documentation says and the code does not do.                   *)

(***************************************************************************)
(* seen_sigs: "We now key each signature by the Instant it was first seen".*)
(***************************************************************************)
SeenIsFirst == \A s \in Sigs : Seen(s) => seenAt[s] = spawnedAt[s]

(***************************************************************************)
(* README: "run them in parallel, first detection wins, duplicate          *)
(* signatures deduped".                                                    *)
(***************************************************************************)
MirroredOnce == \A s \in Sigs : mirrored[s] <= 1
=============================================================================
