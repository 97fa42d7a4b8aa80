-------------------------------- MODULE Rpc --------------------------------
(***************************************************************************)
(* A JSON-RPC call: fetch_with_fallback asks the configured endpoints one  *)
(* after the other, from a place in the list that all tasks count on       *)
(* together.  An endpoint that cannot be reached, or whose answer cannot   *)
(* be read, is passed over; one that answers with an error ends the call.  *)
(***************************************************************************)
EXTENDS Integers

CONSTANTS
  Urls,       \* endpoints in settings.solana_rpc_urls
  MaxTurns    \* bound: changes in the health of the endpoints

ASSUME RpcAssumption == Urls \in Nat \ {0} /\ MaxTurns \in Nat

Endpoints == 0 .. Urls - 1

Clients == {"monitor", "buy"}

Healths == {"up", "down", "refusing"}

VARIABLES
  health,     \* how each endpoint answers at present
  turns,      \* changes of health so far
  roundRobin, \* RPC_ROUND_ROBIN, as a place in the list
  call        \* the call each client is in

rpcVars == <<health, turns, roundRobin, call>>

Idle == [start |-> 0, i |-> 0, asked |-> {}]

RpcInit ==
  /\ health \in [Endpoints -> Healths]
  /\ turns = 0
  /\ roundRobin = 0
  /\ call = [c \in Clients |-> Idle]

RpcTypeOK ==
  /\ health \in [Endpoints -> Healths]
  /\ turns \in 0 .. MaxTurns
  /\ roundRobin \in Endpoints
  /\ call \in [Clients -> [start : Endpoints, i : Endpoints, asked : SUBSET Endpoints]]

-----------------------------------------------------------------------------
Wrapped(k) == IF k < Urls THEN k ELSE k - Urls

Index(c) == Wrapped(call[c].start + call[c].i)

(***************************************************************************)
(* The start is taken from the shared counter while rotate_rpc is on, and  *)
(* is the first endpoint otherwise; the setting may change between calls.  *)
(***************************************************************************)
StartCall(c) ==
  \E rotate \in BOOLEAN :
    /\ call' = [call EXCEPT ![c] = [Idle EXCEPT !.start = IF rotate THEN roundRobin ELSE 0]]
    /\ roundRobin' = IF rotate THEN Wrapped(roundRobin + 1) ELSE roundRobin

EndCall(c) ==
  /\ call' = [call EXCEPT ![c] = Idle]
  /\ UNCHANGED roundRobin

LastUrl(c) == call[c].i + 1 = Urls

(***************************************************************************)
(* The request comes back with something that ends the call: an answer, an *)
(* error, or nothing from the last endpoint.                               *)
(***************************************************************************)
Returns(c) == health[Index(c)] # "down" \/ LastUrl(c)

Refused(c) == health[Index(c)] = "refusing"

NextUrlShared(c) ==           \* mutant: every try draws on the shared counter
  /\ health[Index(c)] = "down" /\ ~LastUrl(c)
  /\ call' = [call EXCEPT ![c].i = @ + 1,
                          ![c].start = Wrapped(roundRobin + Urls - call[c].i - 1),
                          ![c].asked = @ \cup {Index(c)}]
  /\ roundRobin' = Wrapped(roundRobin + 1)
  /\ UNCHANGED <<health, turns>>

NextUrl(c) ==
  /\ health[Index(c)] = "down" /\ ~LastUrl(c)
  /\ call' = [call EXCEPT ![c].i = @ + 1, ![c].asked = @ \cup {Index(c)}]
  /\ UNCHANGED <<health, turns, roundRobin>>

Turn(u) ==
  /\ turns < MaxTurns
  /\ turns' = turns + 1
  /\ \E h \in Healths \ {health[u]} : health' = [health EXCEPT ![u] = h]
  /\ UNCHANGED <<roundRobin, call>>

-----------------------------------------------------------------------------
(***************************************************************************)
(* Whatever the other tasks do to the shared counter meanwhile, a call     *)
(* that is at its last endpoint has asked every other one: none is asked   *)
(* twice in place of another.                                              *)
(***************************************************************************)
NoneSkipped ==
  \A c \in Clients : LastUrl(c) => call[c].asked \cup {Index(c)} = Endpoints
=============================================================================
