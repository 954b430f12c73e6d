------------------------------ MODULE MCLedger ------------------------------
\* Small ledgers: operators 1 and 2, an outside address 3, this chain is committee 1.
EXTENDS Ledger, TLC

Val(cs, output, delegate, compound) ==
  [committees |-> cs, output |-> output, delegate |-> delegate, compound |-> compound,
   maxPausedHeight |-> 0, unstakingHeight |-> 0]

BaseParams ==
  [unstakingBlocks |-> 1, maxPauseBlocks |-> 2, delegateUnstakingBlocks |-> 2,
   nonSignWindow |-> 2, maxNonSign |-> 0, nonSignSlash |-> 25, doubleSignSlash |-> 50,
   maxSlash |-> 60, earlyWithdrawalPenalty |-> 20, minimumStake |-> 2,
   minimumDelegateStake |-> 1, maxCommitteeSize |-> 2, subsidizedPercent |-> 33,
   daoPercent |-> 50, tokensPerBlock |-> 0, blocksPerHalvening |-> 2]

TwoValidators == [v \in {1, 2} |-> Val({1}, v, FALSE, FALSE)]
LifecycleStake == [v \in {1, 2} |-> IF v = 1 THEN 10 ELSE 4]
LifecycleAccounts == [a \in {1, 2} |-> IF a = 2 THEN 4 ELSE 0]
NoPayments == {[a \in {1, 2} |-> 0]}

\* A validator and a compounding delegate of this chain and of committee 2.
RewardParams == [BaseParams EXCEPT !.tokensPerBlock = 20, !.nonSignWindow = 3]
RewardValidators == [v \in {1, 2} |-> Val({1, 2}, IF v = 1 THEN 3 ELSE v, v = 2, v = 2)]
RewardStake == [v \in {1, 2} |-> 10]
RewardAccounts == [a \in 1 .. 3 |-> IF a = 1 THEN 2 ELSE 0]
RewardPayments == {[a \in 1 .. 3 |-> 0], [a \in 1 .. 3 |-> IF a = 3 THEN 10 ELSE 45]}
=============================================================================
