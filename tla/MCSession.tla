----------------------------- MODULE MCSession ------------------------------
(***************************************************************************)
(* Three settings of which one is not accepted, three trades, four coins.  *)
(***************************************************************************)
EXTENDS Session, TLC

Strict ==
  [tp |-> <<[trigger |-> 50, sell |-> 60], [trigger |-> 100, sell |-> 40]>>,
   sl |-> <<[trigger |-> -30, sell |-> 100]>>,
   keys |-> {"valid"},
   rpcUrls |-> {"https"}, wsUrls |-> {"wss"}, senderUrls |-> {"https"}, streamUrls |-> {"grpc"},
   pumpportal |-> TRUE, portalUrls |-> {"wss"},
   timeout |-> 60, cacheCapacity |-> 10, maxHolded |-> 2, programValid |-> TRUE,
   buyAmount |-> 6, mirrorPercent |-> 50, maxPosition |-> 5,
   copyMode |-> "replay", sizeMode |-> "one_to_one",
   rejectMintAuthority |-> TRUE, rejectFreezeAuthority |-> TRUE,
   rejectMutable |-> TRUE, rejectFee |-> TRUE, maxFee |-> 65536 + 50,
   saferSniping |-> TRUE, minTokens |-> 2, maxPrice |-> 3,
   minLiquidity |-> 2, maxLiquidity |-> 8]

\* puts up with mutable metadata, and does not look at the trade
Lenient ==
  [Strict EXCEPT !.rejectMintAuthority = FALSE, !.rejectMutable = FALSE,
                 !.maxFee = 100, !.saferSniping = FALSE, !.maxPosition = 0,
                 !.sizeMode = "proportional"]

Broken == [Strict EXCEPT !.tp[2].sell = 41]

MCFiles == {Strict, Lenient, Broken}

MCTrades ==
  {[sol |-> 8, tokens |-> 4], [sol |-> 8, tokens |-> 1], [sol |-> Unknown, tokens |-> Unknown]}

Entry(kind, fee) == [kind |-> kind, whole |-> TRUE, fee |-> fee]

Clean ==
  [readable |-> TRUE, mintAuthority |-> FALSE, freezeAuthority |-> FALSE,
   token2022 |-> TRUE, extensions |-> <<Entry("other", 0), Entry("fee", 0)>>,
   metadata |-> "immutable"]

MCCoins ==
  {Clean,
   [Clean EXCEPT !.metadata = "mutable", !.extensions[2].fee = 200],
   [Clean EXCEPT !.mintAuthority = TRUE, !.metadata = "unread"],
   [Clean EXCEPT !.readable = FALSE, !.freezeAuthority = TRUE]}

MCLiquidities == {3, 9, Unknown}
=============================================================================
