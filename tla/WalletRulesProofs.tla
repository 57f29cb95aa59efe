------------------------- MODULE WalletRulesProofs -------------------------
(***************************************************************************)
(* Facts about the money rules that the proofs of Wallet and of Orders     *)
(* share.                                                                  *)
(***************************************************************************)
EXTENDS WalletRules, TLAPS

\* A commission of at most 100 percent leaves earnings of at least nothing.
LEMMA EarningsNat ==
    ASSUME NEW a \in Nat, NEW p \in 0..100
    PROVE  Earnings(a, p) \in Nat
<1> DEFINE n == a * (100 - p)
<1>1. n \in Nat
  <2>1. 100 - p \in Nat  OBVIOUS
  <2> QED  BY <2>1
<1>2. ASSUME NEW m \in Nat PROVE (2 * m + 100) \div 200 \in Nat  OBVIOUS
<1> QED  BY <1>1, <1>2 DEF Earnings
=============================================================================
