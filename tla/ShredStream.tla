----------------------------- MODULE ShredStream -----------------------------
(***************************************************************************)
(* The ShredStream listener in detail: before it can look at a transaction *)
(* it puts together the account keys of it, and those that stand in an     *)
(* address lookup table come from a cache that is filled behind its back.  *)
(* The rest is Listeners, of which this module is a refinement.            *)
(*                                                                         *)
(* A table is its address and a length, since it only ever grows; the key  *)
(* at an index of it is the pair of both.                                  *)
(***************************************************************************)
EXTENDS Listeners, SequencesExt

CONSTANTS
  Tables,
  MaxLength,    \* bound: of a table
  Lookups,      \* of each transaction: a sequence of [table, writable, readonly]
  MintInTable,  \* transactions of which the mint stands in a table
  Accounts,     \* the keys of the accounts of their instructions
  MinAccounts,  \* as many accounts are not handed on (16)
  NoKeys        \* keys that could not be put together

ASSUME ShredStreamAssumption ==
  /\ MaxLength \in Nat \ {0}
  /\ MintInTable \subseteq Sigs
  /\ MinAccounts \in Nat
  /\ \A s \in Sigs :
       Lookups[s] \in Seq([table : Tables, writable : Seq(Nat \ {0}), readonly : Seq(Nat \ {0})])

VARIABLES
  length,       \* of each table on the chain
  cached,       \* of what the cache holds of it, 0 for nothing
  spawned,      \* prefetches that have not begun
  fetch,        \* the prefetch that is marked in flight
  resolving,    \* the listener is in resolve_keys
  got,          \* the cached lengths it has copied, one for each lookup
  keys          \* those of the last transaction that it looked at

altVars == <<length, cached, spawned, fetch>>
shredVars == <<vars, altVars, resolving, got, keys>>

FetchPhases == {"none", "asking", "unmarking"}

TheTx == Stream[next["shreds"]]

ShredInit ==
  /\ Init
  /\ length = [t \in Tables |-> 1]
  /\ cached = [t \in Tables |-> 0]
  /\ spawned = [t \in Tables |-> 0]
  /\ fetch = [t \in Tables |-> "none"]
  /\ resolving = FALSE
  /\ got = <<>>
  /\ keys = NoKeys

ShredTypeOK ==
  /\ TypeOK
  /\ length \in [Tables -> 1 .. MaxLength]
  /\ cached \in [Tables -> 0 .. MaxLength]
  /\ spawned \in [Tables -> Nat]
  /\ fetch \in [Tables -> FetchPhases]
  /\ resolving \in BOOLEAN
  /\ got \in Seq(0 .. MaxLength)

-----------------------------------------------------------------------------
(* The cache.                                                              *)

Extend(t) ==
  /\ length[t] < MaxLength
  /\ length' = [length EXCEPT ![t] = @ + 1]
  /\ UNCHANGED <<cached, spawned, fetch>>

(***************************************************************************)
(* A prefetch ends at once when another one is in flight or the table has  *)
(* been cached meanwhile.                                                  *)
(***************************************************************************)
FetchBegins(t) ==
  /\ spawned[t] > 0
  /\ spawned' = [spawned EXCEPT ![t] = @ - 1]
  /\ fetch' = [fetch EXCEPT ![t] = IF @ = "none" /\ cached[t] = 0 THEN "asking" ELSE @]
  /\ UNCHANGED <<length, cached>>

(***************************************************************************)
(* The node that answers may be behind; or there is no answer.             *)
(***************************************************************************)
FetchEnds(t) ==
  /\ fetch[t] = "asking"
  /\ \/ \E n \in 1 .. length[t] : cached' = [cached EXCEPT ![t] = n]
     \/ UNCHANGED cached
  /\ fetch' = [fetch EXCEPT ![t] = "unmarking"]
  /\ UNCHANGED <<length, spawned>>

Unmark(t) ==
  /\ fetch[t] = "unmarking"
  /\ fetch' = [fetch EXCEPT ![t] = "none"]
  /\ UNCHANGED <<length, cached, spawned>>

AltStep == \E t \in Tables : Extend(t) \/ FetchBegins(t) \/ FetchEnds(t) \/ Unmark(t)

-----------------------------------------------------------------------------
(* resolve_keys.                                                           *)

(***************************************************************************)
(* A transaction of the target has come.  It can refer only to what is in  *)
(* the tables by then.                                                     *)
(***************************************************************************)
Indexes(lookup) == Range(lookup.writable) \cup Range(lookup.readonly)

TakeTx ==
  /\ ~ resolving
  /\ outbox["shreds"] = <<>>
  /\ next["shreds"] <= Len(Stream)
  /\ \A l \in Range(Lookups[TheTx]) : \A i \in Indexes(l) : i <= length[l.table]
  /\ resolving' = TRUE
  /\ UNCHANGED <<vars, altVars, got, keys>>

(***************************************************************************)
(* One table after the other is copied from the cache, or else asked for.  *)
(***************************************************************************)
CopyTable ==
  /\ resolving
  /\ Len(got) < Len(Lookups[TheTx])
  /\ LET t == Lookups[TheTx][Len(got) + 1].table
     IN  /\ got' = Append(got, cached[t])
         /\ spawned' = IF cached[t] = 0 THEN [spawned EXCEPT ![t] = @ + 1] ELSE spawned
  /\ UNCHANGED <<vars, length, cached, fetch, resolving, keys>>

Missed == \E i \in DOMAIN got : got[i] = 0

\* the lookups with an index behind what is cached of their table
Outdated ==
  {i \in DOMAIN got : \E x \in Indexes(Lookups[TheTx][i]) : x > got[i]}

\* the first n keys of a table
Keys(t, n) == [x \in 1 .. n |-> <<t, x>>]

KeysAt(table, indexes) == [j \in DOMAIN indexes |-> table[indexes[j]]]

\* what has been copied of the table of the i-th lookup
Copy(i) == Keys(Lookups[TheTx][i].table, got[i])

ResolvedSkipping ==           \* mutant: a key that is not there is left out
  LET Found(i, indexes) ==
        KeysAt(Copy(i), SelectSeq(indexes, LAMBDA x : x \in DOMAIN Copy(i)))
  IN  IF Missed THEN NoKeys
      ELSE FlattenSeq([i \in DOMAIN got |-> Found(i, Lookups[TheTx][i].writable)]) \o
           FlattenSeq([i \in DOMAIN got |-> Found(i, Lookups[TheTx][i].readonly)])

Resolved ==
  IF Missed \/ Outdated # {} THEN NoKeys
  ELSE FlattenSeq([i \in DOMAIN got |-> KeysAt(Copy(i), Lookups[TheTx][i].writable)]) \o
       FlattenSeq([i \in DOMAIN got |-> KeysAt(Copy(i), Lookups[TheTx][i].readonly)])

(***************************************************************************)
(* parse_pump_from_vtx stops at the first buy or sell, and gives up when   *)
(* its mint is among the keys it has not got.                              *)
(***************************************************************************)
Parsed(s, ks) ==
  IF Exchange[s] # "pump" \/ InTx(s) = {} \/ (s \in MintInTable /\ ks = NoKeys)
  THEN {<<>>}
  ELSE {IF k \in Sent(s) THEN <<D(k, s)>> ELSE <<>> : k \in InTx(s)}

(***************************************************************************)
(* What the buyer is told of the accounts: those with a key, if they are   *)
(* enough.                                                                 *)
(***************************************************************************)
InATable(key) == key[1] \in Tables

PumpAccounts(s, ks) ==
  LET known == SelectSeq(Accounts[s], LAMBDA key : InATable(key) => ks # NoKeys)
  IN  IF Len(known) > MinAccounts THEN known ELSE <<>>

(***************************************************************************)
(* The first table that proves outdated is thrown out of the cache and     *)
(* asked for again.                                                        *)
(***************************************************************************)
Look ==
  /\ resolving
  /\ Len(got) = Len(Lookups[TheTx])
  /\ keys' = [sig |-> TheTx, list |-> Resolved]
  /\ IF Missed \/ Outdated = {}
       THEN UNCHANGED altVars
       ELSE \E i \in Outdated :
              LET t == Lookups[TheTx][i].table
              IN  /\ cached' = [cached EXCEPT ![t] = 0]
                  /\ spawned' = [spawned EXCEPT ![t] = @ + 1]
                  /\ UNCHANGED <<length, fetch>>
  /\ \E found \in Parsed(TheTx, Resolved) :
       outbox' = [outbox EXCEPT !["shreds"] = found]
  /\ next' = [next EXCEPT !["shreds"] = @ + 1]
  /\ resolving' = FALSE
  /\ got' = <<>>
  /\ UNCHANGED dispatchVars

-----------------------------------------------------------------------------
ShredNext ==
  \/ TakeTx \/ CopyTable \/ Look
  \/ AltStep /\ UNCHANGED <<vars, resolving, got, keys>>
  \/ /\ \/ Observe("geyser") \/ Reconnect("geyser")
        \/ ~ resolving /\ Reconnect("shreds")
        \/ \E x \in Sources : Send(x)
        \/ DispatchNext /\ UNCHANGED <<next, outbox>>
     /\ UNCHANGED <<altVars, resolving, got, keys>>

ShredSpec == ShredInit /\ [][ShredNext]_shredVars

FairShredSpec == ShredSpec /\ Fairness

-----------------------------------------------------------------------------
(***************************************************************************)
(* The keys a transaction is executed with: those of its writable indexes, *)
(* table by table, then those of its readonly ones, as the chain has them. *)
(***************************************************************************)
OnChain(lookup) == Keys(lookup.table, length[lookup.table])

ChainKeys(lookups) ==
  FlattenSeq([i \in DOMAIN lookups |-> KeysAt(OnChain(lookups[i]), lookups[i].writable)]) \o
  FlattenSeq([i \in DOMAIN lookups |-> KeysAt(OnChain(lookups[i]), lookups[i].readonly)])

(***************************************************************************)
(* The keys the listener works with are those the transaction is executed  *)
(* with: all of them, each at its place, although tables grow, a node may  *)
(* be behind and the cache changes while the keys are put together.        *)
(***************************************************************************)
KeysRight ==
  keys # NoKeys /\ keys.list # NoKeys => keys.list = ChainKeys(Lookups[keys.sig])

(***************************************************************************)
(* Not so in the code, which means the next prefetch to read an outdated   *)
(* table again: the prefetch ends at once when the one before is still     *)
(* marked, and the table is not asked for until it is missed again.        *)
(***************************************************************************)
OutdatedRefetched ==
  [][\A t \in Tables :
       ~ (spawned'[t] < spawned[t] /\ cached[t] = 0 /\ fetch[t] = "unmarking")]_shredVars

(***************************************************************************)
(* Not so in the code, which leaves out what it has no key for and says    *)
(* the buyer fills it in: the accounts behind move up, and the buyer takes *)
(* the creator's vault and others by their number.                         *)
(***************************************************************************)
AccountsInPlace ==
  keys # NoKeys /\ Parsed(keys.sig, keys.list) # {<<>>} =>
    LET known == PumpAccounts(keys.sig, keys.list)
    IN  \A i \in DOMAIN known : known[i] = Accounts[keys.sig][i]
=============================================================================
