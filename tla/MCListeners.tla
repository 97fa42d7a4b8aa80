----------------------------- MODULE MCListeners -----------------------------
(***************************************************************************)
(* Streams, exchanges and lookups for the model checking of Listeners and  *)
(* ShredStream.                                                            *)
(***************************************************************************)
EXTENDS ShredStream

CONSTANTS s1, s2, s3, t1

ThreeBuys == <<s1, s2, s3>>

TwoSells == <<s1, s2>>

EveryExchange ==
  [s \in Sigs |-> CASE s = s2 -> "pump" [] s = s3 -> "pumpswap" [] OTHER -> "raydium"]

CurveOnly == [s \in Sigs |-> "pump"]

\* the first transaction looks up one key, the second one that was added later
GrowingTable ==
  [s \in Sigs |->
     CASE s = s1 -> <<[table |-> t1, writable |-> <<>>, readonly |-> <<1>>]>>
       [] s = s2 -> <<[table |-> t1, writable |-> <<2>>, readonly |-> <<1>>]>>
       [] OTHER  -> <<>>]

NoLookups == [s \in Sigs |-> <<>>]

\* the account in the middle is in the table
MiddleInTable ==
  [s \in Sigs |-> IF s = s2 THEN <<<<"static", 1>>, <<t1, 2>>, <<"static", 2>>>> ELSE <<>>]
=============================================================================
