------------------------------- MODULE Screen -------------------------------
(***************************************************************************)
(* What a buy task decides before it sends anything: how much to spend and *)
(* whether the coin passes the risk rules.  Pure operators.                *)
(*                                                                         *)
(*   s   the settings the task runs with                                   *)
(*   t   the target's trade, [sol, tokens], either of them possibly Unknown*)
(*   c   the coin: what its accounts hold                                  *)
(*         readable       the mint account can be read and is long enough  *)
(*         mintAuthority, freezeAuthority   the tags say there is one      *)
(*         token2022      its owner is the Token-2022 program              *)
(*         extensions     the entries behind it, [kind, whole, fee]        *)
(*         metadata       "mutable", "immutable" or "unread"               *)
(*   l   the SOL in its bonding curve, or Unknown                          *)
(*                                                                         *)
(* Amounts of SOL are lamports, prices lamports per token, percentages and *)
(* basis points integers.                                                  *)
(***************************************************************************)
EXTENDS Integers, Sequences, FiniteSetsExt

CONSTANT Unknown  \* an amount that could not be read

\* x / y to the nearest integer
Rounded(x, y) == (2 * x + y) \div (2 * y)

AtLeastOne(n) == IF n < 1 THEN 1 ELSE n
Capped(n, cap) == IF cap > 0 /\ n > cap THEN cap ELSE n

-----------------------------------------------------------------------------
(* The size of the order.                                                  *)

Replays(s, t) ==
  /\ s.copyMode = "replay"
  /\ t.sol # Unknown /\ t.sol > 0
  /\ t.tokens # Unknown

(***************************************************************************)
(* compute_replay_size.                                                    *)
(***************************************************************************)
ReplaySol(s, t) ==
  LET wanted == IF s.sizeMode = "one_to_one" THEN t.sol
                ELSE IF s.mirrorPercent > 0 THEN Rounded(t.sol * s.mirrorPercent, 100)
                ELSE s.buyAmount
  IN  AtLeastOne(Capped(wanted, s.maxPosition))

Spend(s, t) == IF Replays(s, t) THEN ReplaySol(s, t) ELSE s.buyAmount

Tokens(t) == IF t.tokens = Unknown THEN 0 ELSE t.tokens

(***************************************************************************)
(* The price the target paid, 0 when it is not known.                      *)
(***************************************************************************)
EntryPrice(t) ==
  IF t.sol # Unknown /\ Tokens(t) > 0 THEN Rounded(t.sol, t.tokens) ELSE 0

-----------------------------------------------------------------------------
(* The rules.                                                              *)

(***************************************************************************)
(* parse_token2022_transfer_fee_bps walks the entries up to the first that *)
(* does not fit into the account.                                          *)
(***************************************************************************)
Reached(entries) == {i \in DOMAIN entries : \A j \in 1 .. i : entries[j].whole}

TransferFee(c) ==
  LET fees == {i \in Reached(c.extensions) : c.extensions[i].kind = "fee"}
  IN  IF c.token2022 /\ fees # {} THEN c.extensions[Min(fees)].fee ELSE 0

\* n as u16
Narrowed(n) == n % 65536

CoinPassesOnWarning(s, c) ==  \* mutant: the warning is returned at once
  /\ ~ (s.rejectMintAuthority /\ c.mintAuthority)
  /\ ~ (s.rejectFreezeAuthority /\ c.freezeAuthority)
  /\ ~ (s.rejectMutable /\ c.metadata = "mutable")
  /\ \/ c.metadata = "mutable"
     \/ ~ (s.rejectFee /\ TransferFee(c) > Narrowed(s.maxFee))

(***************************************************************************)
(* evaluate_safety: the coin itself.  Mutable metadata that the settings   *)
(* put up with is only warned of.                                          *)
(***************************************************************************)
CoinPasses(s, c) ==
  /\ ~ (s.rejectMintAuthority /\ c.mintAuthority)
  /\ ~ (s.rejectFreezeAuthority /\ c.freezeAuthority)
  /\ ~ (s.rejectMutable /\ c.metadata = "mutable")
  /\ ~ (s.rejectFee /\ TransferFee(c) > Narrowed(s.maxFee))

(***************************************************************************)
(* check_safer_sniping_gates: the trade.  An unknown liquidity is only     *)
(* warned of.                                                              *)
(***************************************************************************)
TradePasses(s, t, l) ==
  s.saferSniping =>
    /\ s.minTokens > 0 => Tokens(t) >= s.minTokens
    /\ s.maxPrice > 0 => EntryPrice(t) <= s.maxPrice
    /\ l # Unknown =>
         /\ l >= s.minLiquidity
         /\ s.maxLiquidity > 0 => l <= s.maxLiquidity
    /\ Spend(s, t) > 0

(***************************************************************************)
(* pre_buy_safety_check.  When nothing can be learnt of the coin, nothing  *)
(* but the blacklist is looked at.                                         *)
(***************************************************************************)
LetThrough(s, t, c, l, listed) ==
  /\ ~ listed
  /\ c.readable => CoinPasses(s, c) /\ TradePasses(s, t, l)
=============================================================================
