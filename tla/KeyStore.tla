------------------------------ MODULE KeyStore ------------------------------
(***************************************************************************)
(* What the key panel promises: a map from slots to keys.  Every request   *)
(* for a change is answered at most once, and takes effect at one instant  *)
(* exactly when its answer is "ok".  It changes the key of its own slot    *)
(* and no other, except that a request which could not read the keys takes *)
(* them for none: its change leaves its own key alone.                     *)
(***************************************************************************)
CONSTANTS Slots, Values, NoKey, Requests, Target, Key

VARIABLES
  keys,     \* the key of each slot
  asked,    \* requests that have arrived
  blind,    \* those at work that could not read the keys
  answer    \* what each request was answered, "none" before

vars == <<keys, asked, blind, answer>>

Init ==
  /\ keys \in [Slots -> Values \cup {NoKey}]
  /\ asked = {}
  /\ blind = {}
  /\ answer = [r \in Requests |-> "none"]

Ask(r) ==
  /\ r \notin asked
  /\ asked' = asked \cup {r}
  /\ UNCHANGED <<keys, blind, answer>>

AskInVain(r) ==
  /\ r \notin asked
  /\ asked' = asked \cup {r}
  /\ answer' = [answer EXCEPT ![r] = "error"]
  /\ UNCHANGED <<keys, blind>>

Apply(r) ==
  /\ r \in asked \ blind /\ answer[r] = "none"
  /\ keys' = [keys EXCEPT ![Target[r]] = Key[r]]
  /\ answer' = [answer EXCEPT ![r] = "ok"]
  /\ UNCHANGED <<asked, blind>>

ReadFails(r) ==
  /\ r \in asked /\ answer[r] = "none"
  /\ blind' = blind \cup {r}
  /\ UNCHANGED <<keys, asked, answer>>

ApplyBlind(r) ==
  /\ r \in blind
  /\ keys' = [s \in Slots |-> IF s = Target[r] THEN Key[r] ELSE NoKey]
  /\ answer' = [answer EXCEPT ![r] = "ok"]
  /\ blind' = blind \ {r}
  /\ UNCHANGED asked

Refuse(r) ==
  /\ r \in asked /\ answer[r] = "none"
  /\ answer' = [answer EXCEPT ![r] = "error"]
  /\ blind' = blind \ {r}
  /\ UNCHANGED <<keys, asked>>

(***************************************************************************)
(* The bot is killed: requests that are not answered never will be.        *)
(***************************************************************************)
Restart ==
  /\ \E lost \in SUBSET {r \in asked : answer[r] = "none"} :
       /\ answer' = [r \in Requests |-> IF r \in lost THEN "error" ELSE answer[r]]
       /\ blind' = blind \ lost
  /\ UNCHANGED <<keys, asked>>

Next ==
  \/ Restart
  \/ \E r \in Requests :
       \/ Ask(r) \/ AskInVain(r)
       \/ ReadFails(r) \/ Apply(r) \/ ApplyBlind(r) \/ Refuse(r)

Spec == Init /\ [][Next]_vars
=============================================================================
