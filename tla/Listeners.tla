------------------------------ MODULE Listeners ------------------------------
(***************************************************************************)
(* The Geyser and the ShredStream listener, side by side.  Both see the    *)
(* transactions of the target, each in its own time and each with gaps;    *)
(* both put what they detect into the same two channels, and wait when a   *)
(* channel is full.                                                        *)
(***************************************************************************)
EXTENDS Dispatch, FiniteSets

CONSTANTS
  Stream,       \* the target's transactions, as a sequence of signatures
  Buys,         \* those with a buy instruction
  Sells,        \* those with a sell instruction
  Exchange      \* the exchange each transaction is made on

ASSUME ListenersAssumption ==
  /\ Stream \in Seq(Sigs)
  /\ Buys \subseteq Sigs
  /\ Sells \subseteq Sigs
  /\ Exchange \in [Sigs -> {"pump", "pumpswap", "raydium"}]

Sources == {"geyser", "shreds"}

VARIABLES
  next,     \* the transaction each source sees next
  outbox    \* detections of its last transaction that are still to be sent

vars == <<dispatchVars, next, outbox>>

Init ==
  /\ DispatchInit
  /\ next = [x \in Sources |-> 1]
  /\ outbox = [x \in Sources |-> <<>>]

Kinds == {"buy", "sell"}

Detection == [kind : Kinds, sig : Sigs]

TypeOK ==
  /\ DispatchTypeOK
  /\ next \in [Sources -> 1 .. Len(Stream) + 1]
  /\ outbox \in [Sources -> Seq(Detection)]

-----------------------------------------------------------------------------
D(kind, s) == [kind |-> kind, sig |-> s]

InTx(s) == {k \in Kinds : IF k = "buy" THEN s \in Buys ELSE s \in Sells}

(***************************************************************************)
(* A sell is sent only when the channel for it was set up at startup.      *)
(***************************************************************************)
Sent(s) == {k \in InTx(s) : k = "sell" => MirrorAtStart}

OneOf(s) == IF Sent(s) = {} THEN {<<>>} ELSE {<<D(k, s)>> : k \in Sent(s)}

(***************************************************************************)
(* Of instructions on the bonding curve or on PumpSwap, Geyser detects the *)
(* first buy and the first sell, in the order in which they come.          *)
(***************************************************************************)
PumpDetects(s) ==
  IF Sent(s) = Kinds
  THEN {<<D("buy", s), D("sell", s)>>, <<D("sell", s), D("buy", s)>>}
  ELSE OneOf(s)

PumpSwapDetects(s) == PumpDetects(s)

(***************************************************************************)
(* On Raydium it looks at the balances of the target instead, and detects  *)
(* the first change it comes to.  A sell that cannot be sent ends the look *)
(* all the same.                                                           *)
(***************************************************************************)
RaydiumDetects(s) ==
  IF InTx(s) = {} THEN {<<>>}
  ELSE {IF k \in Sent(s) THEN <<D(k, s)>> ELSE <<>> : k \in InTx(s)}

GeyserDetects(s) ==
  CASE Exchange[s] = "pump"     -> PumpDetects(s)
    [] Exchange[s] = "pumpswap" -> PumpSwapDetects(s)
    [] Exchange[s] = "raydium"  -> RaydiumDetects(s)

(***************************************************************************)
(* ShredStream knows the bonding curve alone and stops at the first buy or *)
(* sell; when its mint is in a look-up table that is not cached yet, it    *)
(* gives up.  Without the mirror channel a sell goes into a drain.         *)
(***************************************************************************)
ShredsDetects(s) ==
  {<<>>} \cup (IF Exchange[s] = "pump" THEN {<<D(k, s)>> : k \in Sent(s)} ELSE {})

Detects(x, s) == IF x = "geyser" THEN GeyserDetects(s) ELSE ShredsDetects(s)

Observe(x) ==
  /\ outbox[x] = <<>>
  /\ next[x] <= Len(Stream)
  /\ \E found \in Detects(x, Stream[next[x]]) :
       outbox' = [outbox EXCEPT ![x] = found]
  /\ next' = [next EXCEPT ![x] = @ + 1]
  /\ UNCHANGED dispatchVars

(***************************************************************************)
(* The stream breaks and is opened again: what the target did meanwhile is *)
(* not seen.                                                               *)
(***************************************************************************)
Reconnect(x) ==
  /\ outbox[x] = <<>>
  /\ next[x] <= Len(Stream)
  /\ next' = [next EXCEPT ![x] = @ + 1]
  /\ UNCHANGED <<dispatchVars, outbox>>

Send(x) ==
  /\ outbox[x] # <<>>
  /\ LET d == Head(outbox[x])
     IN  IF d.kind = "buy" THEN PutBuy(d.sig) ELSE PutMirror(d.sig)
  /\ outbox' = [outbox EXCEPT ![x] = Tail(@)]
  /\ UNCHANGED next

Next ==
  \/ \E x \in Sources : Observe(x) \/ Reconnect(x) \/ Send(x)
  \/ DispatchNext /\ UNCHANGED <<next, outbox>>

Spec == Init /\ [][Next]_vars

(***************************************************************************)
(* Fairness: the main loop is polled, and its select takes a ready arm at  *)
(* random, so neither arm is passed over for ever; a sender that waits     *)
(* gets its turn, because a channel serves its senders in order.           *)
(***************************************************************************)
Fairness ==
  /\ WF_vars((SkipDuplicate \/ SpawnBuy) /\ UNCHANGED <<next, outbox>>)
  /\ SF_vars(TakeMirror /\ UNCHANGED <<next, outbox>>)
  /\ \A x \in Sources : SF_vars(Send(x))

FairSpec == Spec /\ Fairness

-----------------------------------------------------------------------------
(***************************************************************************)
(* Unless mirror sells are switched off for good, no listener stands at a  *)
(* full channel for ever.                                                  *)
(***************************************************************************)
ListenersProceed ==
  []<>mirrorOn => \A x \in Sources : []<>(outbox[x] = <<>>)

(***************************************************************************)
(* A buy that a listener has put into the channel leads to a buy task, or  *)
(* has led to one before.                                                  *)
(***************************************************************************)
BuysDispatched ==
  \A s \in Sigs :
    (\E i \in 1 .. Len(buyChan) : buyChan[i] = s) ~> spawnedAt[s] # Never
=============================================================================
