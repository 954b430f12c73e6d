-------------------------- MODULE ControllerProofs --------------------------
(***************************************************************************)
(* A certified block is never refused, the committed chain can be replayed,*)
(* the cached proposal can be executed again, and the mempool keeps its    *)
(* order and its limits, whatever the lazy check of the mempool,           *)
(* validations, failed commits and new transactions do beside it.          *)
(*                                                                         *)
(* The first needs of the execution of a block only that it is a function  *)
(* of the state, the block, the height, the index and the mode, so         *)
(* ApplyBlock stays closed.  The second unrolls the loop over the          *)
(* transactions of a block, and the third compares two such loops.  The    *)
(* last follows the lists and the bytes of the pool, and the balances.     *)
(***************************************************************************)
EXTENDS Controller, Sums, SequenceTheorems

Inv == ModeReset /\ CertifiedValid /\ CertifiedNotRefused

\* The certified block is read only while it and the state it was built on stay.
LEMMA SameCertified ==
  ASSUME Inv, UNCHANGED <<certified, committed, height, chain>>, lock' = "commit" => lock = "commit"
  PROVE  CertifiedValid'
BY DEF Inv, CertifiedValid, Valid, Apply, Clean, Indexed

\* A commit under both locks finds the mode reset, so it accepts the certified block.
LEMMA CommitAccepts ==
  ASSUME Inv, CommitReady
  PROVE  ~BlockRefused /\ mode = AcceptAll /\ poolMode = AcceptAll
<1>1. lock = "commit" /\ lazy = "idle"
  BY DEF CommitReady, PoolLockFree
<1>2. mode = AcceptAll /\ poolMode = AcceptAll
  BY <1>1 DEF Inv, ModeReset
<1>3. Valid(Clean, certified[1], mode)
  BY <1>1, <1>2 DEF Inv, CertifiedValid
<1> QED
  BY <1>2, <1>3 DEF BlockRefused

\* The steps that hold neither lock, or Mempool.L only.
LEMMA PoolSteps ==
  ASSUME Inv, (\E batch \in Batches : HandleTransactions(batch)) \/ LazyBegin \/ LazyCheck \/ LazyEnd
  PROVE  Inv'
<1>1. UNCHANGED <<lock, chainVars>>
  BY DEF HandleTransactions, LazyBegin, LazyCheck, LazyEnd, lockVars
<1>2. CertifiedValid' /\ CertifiedNotRefused'
  BY <1>1, SameCertified DEF chainVars, Inv, CertifiedNotRefused
<1>3. ModeReset'
  <2>1. CASE \E batch \in Batches : HandleTransactions(batch)
    BY <2>1 DEF HandleTransactions, lockVars, Inv, ModeReset
  <2>2. CASE LazyBegin \/ LazyCheck
    BY <2>2 DEF LazyBegin, LazyCheck, ModeReset
  <2>3. CASE LazyEnd
    BY <2>3 DEF LazyEnd, ResetMode, ModeReset
  <2> QED
    BY <2>1, <2>2, <2>3
<1> QED
  BY <1>2, <1>3 DEF Inv

\* The steps of consensus under the controller lock.
LEMMA ProposalSteps ==
  ASSUME Inv, ProduceProposal \/ (\E b \in Proposals \cup {cached.block} : ValidateBegin(b))
              \/ ValidateEnd \/ RoundInterrupt
  PROVE  Inv'
<1>1. UNCHANGED <<certified, committed, height, chain, refused>> /\ lock' # "commit"
  BY DEF ProduceProposal, ValidateBegin, ValidateEnd, RoundInterrupt, chainVars, lockVars
<1>2. CertifiedValid' /\ CertifiedNotRefused'
  BY <1>1, SameCertified DEF Inv, CertifiedNotRefused
<1>3. ModeReset'
  <2>1. CASE ProduceProposal \/ RoundInterrupt
    BY <2>1 DEF ProduceProposal, RoundInterrupt, lockVars, Inv, ModeReset
  <2>2. CASE \E b \in Proposals \cup {cached.block} : ValidateBegin(b)
    BY <2>2 DEF ValidateBegin, ModeReset
  <2>3. CASE ValidateEnd
    BY <2>3 DEF ValidateEnd, ResetMode, ModeReset
  <2> QED
    BY <2>1, <2>2, <2>3
<1> QED
  BY <1>2, <1>3 DEF Inv

\* A certificate arrives for a block that the network can certify.
LEMMA CommitBeginInv == ASSUME Inv, NEW b \in Proposals, CommitBegin(b) PROVE Inv'
<1>1. Valid(Clean, b, AcceptAll)
  BY DEF Proposals
<1>2. /\ lock = "free" /\ certified' = <<b>> /\ UNCHANGED <<committed, height, chain, refused>>
      /\ UNCHANGED <<lazy, mode, poolMode>>
  BY DEF CommitBegin
<1>3. certified' # <<>> /\ certified'[1] = b
  BY <1>2
<1>4. CertifiedValid'
  BY <1>1, <1>2, <1>3 DEF CertifiedValid, Valid, Apply, Clean, Indexed
<1>5. ModeReset' /\ CertifiedNotRefused'
  BY <1>2 DEF Inv, ModeReset, CertifiedNotRefused
<1> QED
  BY <1>4, <1>5 DEF Inv

\* The commit takes the block, or the database fails and the block is certified still.
LEMMA CommitInv == ASSUME Inv, CommitCertificate \/ CommitFails PROVE Inv'
<1>1. CommitReady /\ ~BlockRefused /\ mode = AcceptAll /\ poolMode = AcceptAll
  BY CommitAccepts DEF CommitCertificate, CommitFails
<1>2. CASE CommitCertificate
  <2>1. CommitBlock
    BY <1>1, <1>2 DEF CommitCertificate
  <2>2. lock' = "free" /\ certified' = <<>> /\ refused' = refused /\ mode' = AcceptAll /\ poolMode' = AcceptAll
    BY <2>1 DEF CommitBlock, ResetMode
  <2> QED
    BY <2>2 DEF Inv, ModeReset, CertifiedValid, CertifiedNotRefused
<1>3. CASE CommitFails
  <2>1. /\ lock' = "free" /\ UNCHANGED <<certified, committed, height, chain, refused, mode, poolMode>>
    BY <1>3 DEF CommitFails
  <2>2. CertifiedValid'
    BY <2>1, SameCertified
  <2> QED
    BY <1>1, <2>1, <2>2 DEF Inv, ModeReset, CertifiedNotRefused
<1> QED
  BY <1>2, <1>3

\* Every step keeps the mode, the certified block and the node's trust in it.
LEMMA NextInv == ASSUME Inv, [Next]_vars PROVE Inv'
<1>1. CASE UNCHANGED vars
  <2>1. UNCHANGED <<certified, committed, height, chain, refused, lock, lazy, mode, poolMode>>
    BY <1>1 DEF vars, chainVars, lockVars
  <2>2. CertifiedValid'
    BY <2>1, SameCertified
  <2> QED
    BY <2>1, <2>2 DEF Inv, ModeReset, CertifiedNotRefused
<1>2. CASE \E b \in Proposals : CommitBegin(b)
  BY <1>2, CommitBeginInv
<1>3. CASE CommitCertificate \/ CommitFails
  BY <1>3, CommitInv
<1>4. CASE ProduceProposal \/ (\E b \in Proposals \cup {cached.block} : ValidateBegin(b))
           \/ ValidateEnd \/ RoundInterrupt
  BY <1>4, ProposalSteps
<1>5. CASE (\E batch \in Batches : HandleTransactions(batch)) \/ LazyBegin \/ LazyCheck \/ LazyEnd
  BY <1>5, PoolSteps
<1> QED
  BY <1>1, <1>2, <1>3, <1>4, <1>5 DEF Next

\* The initial state.
LEMMA InitInv == ASSUME Init PROVE Inv
BY DEF Init, Inv, ModeReset, CertifiedValid, CertifiedNotRefused

\* A block with a certificate is never refused: the proposal mode that the lazy check and
\* ValidateProposal write, each under its own lock, is reset whenever CommitCertificate
\* applies a block (controller/block.go, controller/tx.go).
THEOREM CertifiedNotRefusedHolds == Spec => []CertifiedNotRefused
<1>1. Init => Inv
  BY InitInv
<1>2. Inv /\ [Next]_vars => Inv'
  BY NextInv
<1>3. Inv => CertifiedNotRefused
  BY DEF Inv
<1> QED
  BY <1>1, <1>2, <1>3, PTL DEF Spec

-----------------------------------------------------------------------------
(* Recursion. *)

\* A set with 0 and with the successor of each of its numbers holds all of them.
LEMMA FromZero ==
  ASSUME NEW S, 0 \in S, \A n \in Nat : n \in S => n + 1 \in S
  PROVE  \A n \in Nat : n \in S
<1> DEFINE T == Nat \ S
<1>1. SUFFICES ASSUME T # {} PROVE FALSE
  OBVIOUS
<1>2. PICK n \in T : \A m \in T : n <= m
  BY <1>1, NatMin
<1>3. n - 1 \in Nat /\ n - 1 \notin T /\ (n - 1) + 1 = n
  BY <1>2
<1> QED
  BY <1>2, <1>3

\* The loop of ApplyTransactions over its first n transactions.
Start(f) == [fsm |-> f, base |-> f, txs |-> <<>>, failed |-> {}, size |-> 0, oversize |-> FALSE]

IsProgress(g, f, txs, h, ix, m, n) ==
  g = [i \in 0 .. n |-> IF i = 0 THEN Start(f) ELSE Step(g[i - 1], txs[i], h, ix, m)]

\* The loop can be run over any number of transactions.
LEMMA ProgressExists ==
  ASSUME NEW f, NEW txs, NEW h, NEW ix, NEW m
  PROVE  \A n \in Nat : \E g : IsProgress(g, f, txs, h, ix, m, n)
<1> DEFINE S == {n \in Nat : \E g : IsProgress(g, f, txs, h, ix, m, n)}
<1>1. 0 \in S
  <2> DEFINE g == [i \in 0 .. 0 |-> Start(f)]
             k == [i \in 0 .. 0 |-> IF i = 0 THEN Start(f) ELSE Step(g[i - 1], txs[i], h, ix, m)]
  <2>1. g = k
    OBVIOUS
  <2>2. IsProgress(g, f, txs, h, ix, m, 0)
    BY <2>1 DEF IsProgress
  <2> QED
    BY <2>2
<1>2. ASSUME NEW n \in Nat, n \in S PROVE n + 1 \in S
  <2>1. PICK g : IsProgress(g, f, txs, h, ix, m, n)
    BY <1>2
  <2> DEFINE k == [i \in 0 .. n + 1 |-> IF i <= n THEN g[i] ELSE Step(g[n], txs[i], h, ix, m)]
             l == [i \in 0 .. n + 1 |-> IF i = 0 THEN Start(f) ELSE Step(k[i - 1], txs[i], h, ix, m)]
  <2>2. ASSUME NEW i \in 0 .. n + 1 PROVE k[i] = l[i]
    <3>1. CASE i = 0
      BY <2>1, <3>1 DEF IsProgress
    <3>2. CASE i \in 1 .. n
      <4>1. g[i] = Step(g[i - 1], txs[i], h, ix, m)
        BY <2>1, <3>2 DEF IsProgress
      <4>2. k[i] = g[i] /\ k[i - 1] = g[i - 1]
        BY <3>2
      <4> QED
        BY <3>2, <4>1, <4>2
    <3>3. CASE i = n + 1
      <4>1. k[i] = Step(g[n], txs[i], h, ix, m) /\ k[i - 1] = g[n]
        BY <3>3
      <4> QED
        BY <3>3, <4>1
    <3> QED
      BY <3>1, <3>2, <3>3
  <2>3. k = l
    BY <2>2
  <2>4. IsProgress(k, f, txs, h, ix, m, n + 1)
    BY <2>3 DEF IsProgress
  <2> QED
    BY <2>4
<1> HIDE DEF S
<1>3. \A n \in Nat : n \in S
  BY <1>1, <1>2, FromZero
<1> QED
  BY <1>3 DEF S

\* The loop starts from the given state machine, and each transaction is one iteration.
LEMMA ProgressSteps ==
  ASSUME NEW f, NEW txs, Len(txs) \in Nat, NEW h, NEW ix, NEW m
  PROVE  /\ Progress(f, txs, h, ix, m)[0] = Start(f)
         /\ \A i \in 1 .. Len(txs) :
              Progress(f, txs, h, ix, m)[i] = Step(Progress(f, txs, h, ix, m)[i - 1], txs[i], h, ix, m)
<1> DEFINE p == CHOOSE g : IsProgress(g, f, txs, h, ix, m, Len(txs))
<1>1. Progress(f, txs, h, ix, m) = p
  BY DEF Progress, IsProgress, Start
<1>2. IsProgress(p, f, txs, h, ix, m, Len(txs))
  BY ProgressExists
<1> HIDE DEF p
<1>3. p[0] = Start(f) /\ \A i \in 1 .. Len(txs) : p[i] = Step(p[i - 1], txs[i], h, ix, m)
  BY <1>2 DEF IsProgress
<1> QED
  BY <1>1, <1>3

-----------------------------------------------------------------------------
(* What a block executes. *)

\* The variables of the loop.
Fields == {"fsm", "base", "txs", "failed", "size", "oversize"}
IsLoop(q) == q = [x \in Fields |-> q[x]]

\* The transactions of a list that are not in an index.
NewOnes(txs, ix) == {txs[j] : j \in 1 .. Len(txs)} \ ix

\* A transaction is applied and may be taken into the block, or it fails.
LEMMA StepFields ==
  ASSUME NEW q, IsLoop(q), NEW t, NEW h, NEW ix, NEW m
  PROVE  /\ IsLoop(Step(q, t, h, ix, m))
         /\ Applies(q.fsm, t, h, ix, m) =>
              /\ Step(q, t, h, ix, m).failed = q.failed
              /\ Step(q, t, h, ix, m).txs \in {q.txs, Append(q.txs, t)}
         /\ ~Applies(q.fsm, t, h, ix, m) =>
              /\ Step(q, t, h, ix, m).failed = q.failed \cup {t}
              /\ Step(q, t, h, ix, m).txs = q.txs
<1> DEFINE o == q.oversize \/ (CheckTx(t, h) /\ Tx[t].size + q.size > MaxBlockSize)
           no == [q EXCEPT !.failed = @ \cup {t}, !.oversize = o,
                           !.fsm = IF CheckTx(t, h) THEN Rollback(@, t) ELSE @]
           yes == [q EXCEPT !.fsm = ApplyTransaction(@, t), !.oversize = o,
                            !.txs = IF o THEN @ ELSE Append(@, t),
                            !.size = IF o THEN @ ELSE @ + Tx[t].size,
                            !.base = IF o THEN @ ELSE ApplyTransaction(q.fsm, t)]
<1>1. Step(q, t, h, ix, m) = IF ~Applies(q.fsm, t, h, ix, m) THEN no ELSE yes
  BY DEF Step
<1>2. DOMAIN q = Fields
  BY DEF IsLoop
<1>3. IsLoop(no) /\ no.failed = q.failed \cup {t} /\ no.txs = q.txs
  BY <1>2 DEF IsLoop, Fields
<1>4. IsLoop(yes) /\ yes.failed = q.failed /\ yes.txs \in {q.txs, Append(q.txs, t)}
  BY <1>2 DEF IsLoop, Fields
<1> QED
  BY <1>1, <1>3, <1>4

\* The variables after each iteration, and what the block has taken: transactions of the
\* list that the index does not have.
LEMMA ProgressFields ==
  ASSUME NEW f, NEW txs, Len(txs) \in Nat, NEW h, NEW ix, NEW m
  PROVE  \A i \in 0 .. Len(txs) :
           /\ IsLoop(Progress(f, txs, h, ix, m)[i])
           /\ Progress(f, txs, h, ix, m)[i].txs \in Seq(NewOnes(txs, ix))
<1> DEFINE X == NewOnes(txs, ix)
           p == Progress(f, txs, h, ix, m)
           S == {i \in Nat : i <= Len(txs) => IsLoop(p[i]) /\ p[i].txs \in Seq(X)}
<1>1. p[0] = Start(f) /\ \A i \in 1 .. Len(txs) : p[i] = Step(p[i - 1], txs[i], h, ix, m)
  BY ProgressSteps
<1> HIDE DEF p
<1>2. 0 \in S
  <2>1. IsLoop(Start(f)) /\ Start(f).txs = <<>>
    BY DEF Start, IsLoop, Fields
  <2> HIDE DEF X
  <2>2. <<>> \in Seq(X)
    OBVIOUS
  <2>3. IsLoop(p[0]) /\ p[0].txs \in Seq(X)
    BY <1>1, <2>1, <2>2
  <2> QED
    BY <2>3
<1>3. ASSUME NEW i \in Nat, i \in S PROVE i + 1 \in S
  <2>1. SUFFICES ASSUME i + 1 <= Len(txs)
                 PROVE  IsLoop(p[i + 1]) /\ p[i + 1].txs \in Seq(X)
    OBVIOUS
  <2>2. IsLoop(p[i]) /\ p[i].txs \in Seq(X)
    BY <1>3, <2>1
  <2>3. PICK t : t = txs[i + 1]
    OBVIOUS
  <2>4. p[i + 1] = Step(p[i], t, h, ix, m)
    BY <1>1, <2>1, <2>3
  <2>5. t \in {txs[j] : j \in 1 .. Len(txs)}
    BY <2>1, <2>3
  <2>6. Applies(p[i].fsm, t, h, ix, m) => t \in X
    BY <2>5 DEF Applies, CheckReplay, NewOnes
  <2> HIDE DEF X
  <2>7. Applies(p[i].fsm, t, h, ix, m) => Append(p[i].txs, t) \in Seq(X)
    BY <2>2, <2>6
  <2>8. PICK q : q = p[i]
    OBVIOUS
  <2>9. IsLoop(q) /\ q.txs \in Seq(X) /\ (Applies(q.fsm, t, h, ix, m) => Append(q.txs, t) \in Seq(X))
    BY <2>2, <2>7, <2>8
  <2>10. IsLoop(Step(q, t, h, ix, m)) /\ Step(q, t, h, ix, m).txs \in Seq(X)
    <3>1. PICK r : r = Step(q, t, h, ix, m)
      OBVIOUS
    <3>2. CASE Applies(q.fsm, t, h, ix, m)
      <4>1. IsLoop(r) /\ r.txs \in {q.txs, Append(q.txs, t)}
        BY <2>9, <3>1, <3>2, StepFields
      <4> QED
        BY <2>9, <3>1, <3>2, <4>1
    <3>3. CASE ~Applies(q.fsm, t, h, ix, m)
      <4>1. IsLoop(r) /\ r.txs = q.txs
        BY <2>9, <3>1, <3>3, StepFields
      <4> QED
        BY <2>9, <3>1, <4>1
    <3> QED
      BY <3>2, <3>3
  <2> QED
    BY <2>4, <2>8, <2>10
<1> HIDE DEF S
<1>4. \A i \in Nat : i \in S
  BY <1>2, <1>3, FromZero
<1> QED
  BY <1>4 DEF S, p

\* Where no transaction has failed, each was applied.
LEMMA NoneFailed ==
  ASSUME NEW f, NEW txs, Len(txs) \in Nat, NEW h, NEW ix, NEW m,
         Progress(f, txs, h, ix, m)[Len(txs)].failed = {}
  PROVE  \A i \in 1 .. Len(txs) : Applies(Progress(f, txs, h, ix, m)[i - 1].fsm, txs[i], h, ix, m)
<1> DEFINE n == Len(txs)
           p == Progress(f, txs, h, ix, m)
           F == {k \in Nat : k <= n => p[n - k].failed = {}}
<1>1. p[0] = Start(f) /\ \A i \in 1 .. n : p[i] = Step(p[i - 1], txs[i], h, ix, m)
  BY ProgressSteps
<1>2. \A i \in 0 .. n : IsLoop(p[i])
  BY ProgressFields
<1>3. n \in Nat /\ p[n].failed = {}
  OBVIOUS
<1> HIDE DEF n, p
<1>4. ASSUME NEW i \in 1 .. n, p[i].failed = {}
      PROVE  Applies(p[i - 1].fsm, txs[i], h, ix, m) /\ p[i - 1].failed = {}
  <2>1. IsLoop(p[i - 1]) /\ p[i] = Step(p[i - 1], txs[i], h, ix, m)
    BY <1>1, <1>2, <1>3
  <2> QED
    BY <1>4, <2>1, StepFields
<1>5. 0 \in F
  BY <1>3
<1>6. ASSUME NEW k \in Nat, k \in F PROVE k + 1 \in F
  <2>1. SUFFICES ASSUME k + 1 <= n PROVE p[n - (k + 1)].failed = {}
    OBVIOUS
  <2>2. p[n - k].failed = {} /\ n - k \in 1 .. n /\ (n - k) - 1 = n - (k + 1)
    BY <1>3, <1>6, <2>1
  <2> QED
    BY <1>4, <2>2
<1> HIDE DEF F
<1>7. \A k \in Nat : k \in F
  BY <1>5, <1>6, FromZero
<1>8. ASSUME NEW i \in 1 .. n PROVE p[i].failed = {}
  <2>1. n - i \in Nat /\ n - i <= n /\ n - (n - i) = i
    BY <1>3
  <2> QED
    BY <1>7, <2>1 DEF F
<1>9. \A i \in 1 .. n : Applies(p[i - 1].fsm, txs[i], h, ix, m)
  BY <1>4, <1>8
<1> QED
  BY <1>9 DEF n, p

\* A list without a failed transaction is executed in the same way by whoever accepts all
\* proposals and has fewer transactions in its index.
LEMMA SameProgress ==
  ASSUME NEW f, NEW txs, Len(txs) \in Nat, NEW h, NEW ix, NEW m, NEW jx, jx \subseteq ix,
         Progress(f, txs, h, ix, m)[Len(txs)].failed = {}
  PROVE  Progress(f, txs, h, jx, AcceptAll)[Len(txs)] = Progress(f, txs, h, ix, m)[Len(txs)]
<1> DEFINE n == Len(txs)
           p == Progress(f, txs, h, ix, m)
           q == Progress(f, txs, h, jx, AcceptAll)
           S == {i \in Nat : i <= n => q[i] = p[i]}
<1>1. p[0] = Start(f) /\ \A i \in 1 .. n : p[i] = Step(p[i - 1], txs[i], h, ix, m)
  BY ProgressSteps
<1>2. q[0] = Start(f) /\ \A i \in 1 .. n : q[i] = Step(q[i - 1], txs[i], h, jx, AcceptAll)
  BY ProgressSteps
<1>3. \A i \in 1 .. n : Applies(p[i - 1].fsm, txs[i], h, ix, m)
  BY NoneFailed
<1>4. n \in Nat
  OBVIOUS
<1> HIDE DEF n, p, q
<1>7. 0 \in S
  BY <1>1, <1>2
<1>8. ASSUME NEW i \in Nat, i \in S PROVE i + 1 \in S
  <2>1. SUFFICES ASSUME i + 1 <= n PROVE q[i + 1] = p[i + 1]
    OBVIOUS
  <2>2. PICK t : t = txs[i + 1]
    OBVIOUS
  <2>3. /\ p[i + 1] = Step(p[i], t, h, ix, m) /\ q[i + 1] = Step(p[i], t, h, jx, AcceptAll)
    BY <1>1, <1>2, <1>4, <1>8, <2>1, <2>2
  <2>4. Applies(p[i].fsm, t, h, ix, m)
    BY <1>3, <1>4, <2>1, <2>2
  <2>5. Applies(p[i].fsm, t, h, jx, AcceptAll)
    BY <2>4 DEF Applies, CheckReplay, ApproveProposal
  <2> QED
    BY <2>3, <2>4, <2>5 DEF Step
<1> HIDE DEF S
<1>9. \A i \in Nat : i \in S
  BY <1>7, <1>8, FromZero
<1> QED
  BY <1>4, <1>9 DEF S, n, p, q

\* A block whose transactions have to fit.
Run(f, txs, h, ix, m) == ApplyBlock(f, txs, h, ix, m, FALSE, FALSE)

\* The parts of an executed block.
LEMMA BlockParts ==
  ASSUME NEW f, NEW txs, Len(txs) \in Nat, NEW h, NEW ix, NEW m
  PROVE  /\ Run(f, txs, h, ix, m).failed = Progress(f, txs, h, ix, m)[Len(txs)].failed
         /\ Run(f, txs, h, ix, m).block.height = h
         /\ Run(f, txs, h, ix, m).block.txs = Progress(f, txs, h, ix, m)[Len(txs)].txs
<1> DEFINE p == Progress(f, txs, h, ix, m)[Len(txs)]
           u == [p EXCEPT !.fsm = [p.base EXCEPT !.cache = p.fsm.cache]]
<1>1. IsLoop(p)
  <2>1. Len(txs) \in 0 .. Len(txs)
    OBVIOUS
  <2> QED
    BY <2>1, ProgressFields
<1>2. u.failed = p.failed /\ u.txs = p.txs
  BY <1>1 DEF IsLoop, Fields
<1>3. ApplyTransactions(f, txs, h, ix, m) = u
  BY DEF ApplyTransactions, Unwrapped
<1> HIDE DEF p, u
<1> QED
  BY <1>2, <1>3 DEF Run, ApplyBlock, p

\* The same of the whole block.
LEMMA SameBlock ==
  ASSUME NEW f, NEW txs, Len(txs) \in Nat, NEW h, NEW ix, NEW m, NEW jx, jx \subseteq ix,
         Run(f, txs, h, ix, m).failed = {}
  PROVE  Run(f, txs, h, jx, AcceptAll) = Run(f, txs, h, ix, m)
<1>1. Progress(f, txs, h, ix, m)[Len(txs)].failed = {}
  BY BlockParts
<1>2. Progress(f, txs, h, jx, AcceptAll)[Len(txs)] = Progress(f, txs, h, ix, m)[Len(txs)]
  BY <1>1, SameProgress
<1> QED
  BY <1>2 DEF Run, ApplyBlock, ApplyTransactions

\* The height in the header.
LEMMA BlockHeight ==
  ASSUME NEW f, NEW b, NEW m, Valid(f, b, m)
  PROVE  b.height = height
BY DEF Valid, Apply, ApplyBlock

\* A valid block has no transaction of the index.
LEMMA NothingIndexed ==
  ASSUME NEW f, NEW b, Len(b.txs) \in Nat, NEW m, Valid(f, b, m)
  PROVE  ToSet(b.txs) \cap Indexed = {}
<1> DEFINE X == NewOnes(b.txs, Indexed)
           p == Progress(f, b.txs, height, Indexed, m)[Len(b.txs)]
<1>1. b.txs = p.txs
  <2>1. Run(f, b.txs, height, Indexed, m).block = b
    BY DEF Valid, Apply, Run
  <2> QED
    BY <2>1, BlockParts
<1>2. Len(b.txs) \in 0 .. Len(b.txs)
  OBVIOUS
<1>3. p.txs \in Seq(X)
  BY <1>2, ProgressFields
<1> HIDE DEF p
<1>4. \A x \in X : x \notin Indexed
  BY DEF NewOnes
<1> HIDE DEF X
<1>5. b.txs \in Seq(X)
  BY <1>1, <1>3
<1>6. \A x \in ToSet(b.txs) : x \in X
  BY <1>5 DEF ToSet
<1> QED
  BY <1>4, <1>6

\* A valid block has no transaction twice: all of them passed CheckTx.
LEMMA ValidDistinct ==
  ASSUME NEW f, NEW b, b.txs \in Seq(Txs), NEW m, Valid(f, b, m)
  PROVE  Distinct(b.txs)
<1>1. PICK h, ix, s : h = height /\ ix = Indexed /\ s = b.txs
  OBVIOUS
<1>2. Len(s) \in Nat /\ DOMAIN s = 1 .. Len(s)
  BY <1>1
<1>3. Run(f, s, h, ix, m).failed = {} /\ ~Run(f, s, h, ix, m).error
  BY <1>1 DEF Valid, Apply, Run
<1>4. Progress(f, s, h, ix, m)[Len(s)].failed = {}
  BY <1>2, <1>3, BlockParts
<1>5. \A i \in DOMAIN s : CheckTx(s[i], h)
  BY <1>2, <1>4, NoneFailed DEF Applies
<1>6. ~Duplicate(s, h)
  BY <1>3 DEF Run, ApplyBlock
<1> QED
  BY <1>1, <1>5, <1>6 DEF Duplicate, Distinct

\* What other validators propose is a list of transactions.
LEMMA ProposedTxs ==
  ASSUME NEW b \in Proposals
  PROVE  b.txs \in Seq(Txs) /\ b.height = height /\ Valid(Clean, b, AcceptAll)
<1>1. PICK s \in Selections : b = Honest(s)
  BY DEF Proposals
<1>2. Valid(Clean, b, AcceptAll)
  BY DEF Proposals
<1>3. s \in Seq(Txs) /\ Len(s) \in Nat /\ Len(s) \in 0 .. Len(s) /\ \A j \in 1 .. Len(s) : s[j] \in Txs
  BY ControllerAssumption
<1> DEFINE X == NewOnes(s, Indexed)
           p == Progress(Clean, s, height, Indexed, AcceptAll)[Len(s)]
<1>4. b.txs = p.txs
  <2>1. b = Run(Clean, s, height, Indexed, AcceptAll).block
    BY <1>1 DEF Honest, Run
  <2> QED
    BY <1>3, <2>1, BlockParts
<1>5. p.txs \in Seq(X)
  BY <1>3, ProgressFields
<1> HIDE DEF p
<1>6. X \subseteq Txs
  BY <1>3 DEF NewOnes
<1> HIDE DEF X
<1>7. b.txs \in Seq(Txs)
  BY <1>4, <1>5, <1>6
<1> QED
  BY <1>2, <1>7, BlockHeight

-----------------------------------------------------------------------------
(* The replay of the chain. *)

IsStates(g, s, n) ==
  g = [i \in 0 .. n |-> IF i = 0 THEN [acc |-> Genesis, fees |-> 0] ELSE Executed(g[i - 1], s[i])]

\* Any number of blocks can be replayed.
LEMMA StatesExist ==
  ASSUME NEW s
  PROVE  \A n \in Nat : \E g : IsStates(g, s, n)
<1> DEFINE S == {n \in Nat : \E g : IsStates(g, s, n)}
           first == [acc |-> Genesis, fees |-> 0]
<1>1. 0 \in S
  <2> DEFINE g == [i \in 0 .. 0 |-> first]
             k == [i \in 0 .. 0 |-> IF i = 0 THEN first ELSE Executed(g[i - 1], s[i])]
  <2>1. g = k
    OBVIOUS
  <2>2. IsStates(g, s, 0)
    BY <2>1 DEF IsStates
  <2> QED
    BY <2>2
<1>2. ASSUME NEW n \in Nat, n \in S PROVE n + 1 \in S
  <2>1. PICK g : IsStates(g, s, n)
    BY <1>2
  <2> DEFINE k == [i \in 0 .. n + 1 |-> IF i <= n THEN g[i] ELSE Executed(g[n], s[i])]
             l == [i \in 0 .. n + 1 |-> IF i = 0 THEN first ELSE Executed(k[i - 1], s[i])]
  <2>2. ASSUME NEW i \in 0 .. n + 1 PROVE k[i] = l[i]
    <3>1. CASE i = 0
      BY <2>1, <3>1 DEF IsStates
    <3>2. CASE i \in 1 .. n
      <4>1. g[i] = Executed(g[i - 1], s[i])
        BY <2>1, <3>2 DEF IsStates
      <4>2. k[i] = g[i] /\ k[i - 1] = g[i - 1]
        BY <3>2
      <4> QED
        BY <3>2, <4>1, <4>2
    <3>3. CASE i = n + 1
      <4>1. k[i] = Executed(g[n], s[i]) /\ k[i - 1] = g[n]
        BY <3>3
      <4> QED
        BY <3>3, <4>1
    <3> QED
      BY <3>1, <3>2, <3>3
  <2>3. k = l
    BY <2>2
  <2>4. IsStates(k, s, n + 1)
    BY <2>3 DEF IsStates
  <2> QED
    BY <2>4
<1> HIDE DEF S
<1>3. \A n \in Nat : n \in S
  BY <1>1, <1>2, FromZero
<1> QED
  BY <1>3 DEF S

\* A replay starts from genesis and executes one block after the other.
LEMMA StatesSteps ==
  ASSUME NEW s, Len(s) \in Nat
  PROVE  /\ States(s)[0] = [acc |-> Genesis, fees |-> 0]
         /\ \A i \in 1 .. Len(s) : States(s)[i] = Executed(States(s)[i - 1], s[i])
<1> DEFINE p == CHOOSE g : IsStates(g, s, Len(s))
<1>1. States(s) = p
  BY DEF States, IsStates
<1>2. IsStates(p, s, Len(s))
  BY StatesExist
<1> HIDE DEF p
<1>3. /\ p[0] = [acc |-> Genesis, fees |-> 0]
      /\ \A i \in 1 .. Len(s) : p[i] = Executed(p[i - 1], s[i])
  BY <1>2 DEF IsStates
<1> QED
  BY <1>1, <1>3

\* One more block.
LEMMA ReplayAppend ==
  ASSUME NEW B, NEW s \in Seq(B), NEW b
  PROVE  Replay(Append(s, b)) = Executed(Replay(s), b)
<1> DEFINE n == Len(s)
           s2 == Append(s, b)
           S == {i \in Nat : i <= n => States(s2)[i] = States(s)[i]}
<1>1. s \in Seq(B \cup {b}) /\ b \in B \cup {b}
  OBVIOUS
<1>2. n \in Nat /\ Len(s2) = n + 1 /\ s2[n + 1] = b /\ \A i \in 1 .. n : s2[i] = s[i]
  BY <1>1
<1> HIDE DEF n, s2
<1>3. /\ States(s2)[0] = [acc |-> Genesis, fees |-> 0]
      /\ \A i \in 1 .. n + 1 : States(s2)[i] = Executed(States(s2)[i - 1], s2[i])
  BY <1>2, StatesSteps
<1>4. /\ States(s)[0] = [acc |-> Genesis, fees |-> 0]
      /\ \A i \in 1 .. n : States(s)[i] = Executed(States(s)[i - 1], s[i])
  BY <1>2, StatesSteps DEF n
<1>5. 0 \in S
  BY <1>3, <1>4
<1>6. ASSUME NEW i \in Nat, i \in S PROVE i + 1 \in S
  <2>1. SUFFICES ASSUME i + 1 <= n PROVE States(s2)[i + 1] = States(s)[i + 1]
    OBVIOUS
  <2>2. i + 1 \in 1 .. n /\ i + 1 \in 1 .. n + 1 /\ (i + 1) - 1 = i /\ States(s2)[i] = States(s)[i]
    BY <1>2, <1>6, <2>1
  <2> QED
    BY <1>2, <1>3, <1>4, <2>2
<1> HIDE DEF S
<1>7. n \in S
  BY <1>2, <1>5, <1>6, FromZero
<1>8. States(s2)[n] = States(s)[n]
  BY <1>2, <1>7 DEF S
<1>9. n + 1 \in 1 .. n + 1 /\ (n + 1) - 1 = n
  BY <1>2
<1>10. States(s2)[n + 1] = Executed(States(s)[n], b)
  BY <1>2, <1>3, <1>8, <1>9
<1> QED
  BY <1>2, <1>10 DEF Replay, n, s2

-----------------------------------------------------------------------------
(* The committed state. *)

\* The shapes that the argument needs.
Shapes ==
  /\ chain \in Seq(ToSet(chain)) /\ \A i \in DOMAIN chain : chain[i].txs \in Seq(Txs)
  /\ height \in Nat /\ failures \in Nat
  /\ result # <<>> => result = <<result[1]>> /\ result[1].height \in Nat /\ result[1].height <= height
  /\ lock = "validate" => candidate = <<candidate[1]>>

\* A certified block is of this height, and none of those the node led away from.
CertifiedShape ==
  certified # <<>> =>
    /\ certified = <<certified[1]>> /\ certified[1].txs \in Seq(Txs)
    /\ certified[1].height = height /\ certified[1] \notin abandoned

\* A validation starts from the committed state, and the result it leaves stands for a state
\* machine that has executed the block, unless the block cannot be certified any more.
ValidatesClean == lock = "validate" => fsm = Clean
ResultKept ==
  (/\ result # <<>> /\ failures = 0 /\ lock # "validate"
   /\ result[1].height = height /\ result[1] \notin abandoned) =>
     \E m \in Modes : Valid(Clean, result[1], m) /\ fsm = Apply(Clean, result[1], m).fsm

ReplayInv == Shapes /\ CertifiedShape /\ ValidatesClean /\ ResultKept /\ ChainReplayable

\* Steps that leave the chain alone.
LEMMA SameChain ==
  ASSUME ChainReplayable, UNCHANGED <<chain, committed>>, failures' = 0 => failures = 0
  PROVE  ChainReplayable'
BY DEF ChainReplayable, StateIsReplay, NoTxTwice

\* Steps of the mempool.
LEMMA PoolReplay ==
  ASSUME ReplayInv, UNCHANGED <<chain, committed, height, failures, result, certified, abandoned>>,
         UNCHANGED <<fsm, lock, candidate>>
  PROVE  ReplayInv'
<1>1. ChainReplayable'
  BY SameChain DEF ReplayInv
<1>2. Shapes' /\ CertifiedShape' /\ ValidatesClean'
  BY DEF ReplayInv, Shapes, CertifiedShape, ValidatesClean, Clean
<1>3. ResultKept'
  BY DEF ReplayInv, ResultKept, Valid, Apply, Clean, Indexed
<1> QED
  BY <1>1, <1>2, <1>3 DEF ReplayInv

\* ProduceProposal: the result stays, and its block cannot be certified any more.
LEMMA ProduceReplay == ASSUME ReplayInv, ProduceProposal PROVE ReplayInv'
<1>1. /\ UNCHANGED <<chain, committed, height, failures, result, certified>> /\ certified = <<>>
      /\ UNCHANGED <<lock, candidate>> /\ lock = "free" /\ abandoned' = abandoned \cup ToSet(result)
  BY DEF ProduceProposal, lockVars
<1>2. ChainReplayable'
  BY <1>1, SameChain DEF ReplayInv
<1>3. Shapes' /\ CertifiedShape' /\ ValidatesClean'
  BY <1>1 DEF ReplayInv, Shapes, CertifiedShape, ValidatesClean
<1>4. result # <<>> => result[1] \in ToSet(result)
  <2>1. result # <<>> => result = <<result[1]>>
    BY DEF ReplayInv, Shapes
  <2>2. result = <<result[1]>> => 1 \in DOMAIN result
    OBVIOUS
  <2> QED
    BY <2>1, <2>2 DEF ToSet
<1>5. ResultKept'
  BY <1>1, <1>4 DEF ResultKept
<1> QED
  BY <1>2, <1>3, <1>5 DEF ReplayInv

\* ValidateBegin
LEMMA ValidateBeginReplay == ASSUME ReplayInv, NEW b, ValidateBegin(b) PROVE ReplayInv'
<1>1. /\ UNCHANGED <<chain, committed, height, failures, result, certified, abandoned>>
      /\ lock' = "validate" /\ candidate' = <<b>> /\ fsm' = Clean
  BY DEF ValidateBegin, chainVars
<1>2. ChainReplayable'
  BY <1>1, SameChain DEF ReplayInv
<1>3. Shapes' /\ CertifiedShape' /\ ValidatesClean' /\ ResultKept'
  BY <1>1 DEF ReplayInv, Shapes, CertifiedShape, ValidatesClean, ResultKept, Clean
<1> QED
  BY <1>2, <1>3 DEF ReplayInv

\* ValidateEnd: the result and the state machine go together.
LEMMA ValidateEndReplay == ASSUME ReplayInv, mode \in Modes, ValidateEnd PROVE ReplayInv'
<1>1. /\ UNCHANGED <<chain, committed, height, failures, certified, abandoned>>
      /\ lock = "validate" /\ lock' = "free" /\ fsm = Clean /\ candidate = <<candidate[1]>>
      /\ height \in Nat
  BY DEF ValidateEnd, chainVars, ReplayInv, ValidatesClean, Shapes
<1>2. ChainReplayable'
  BY <1>1, SameChain DEF ReplayInv
<1>3. CertifiedShape' /\ ValidatesClean'
  BY <1>1 DEF ReplayInv, CertifiedShape, ValidatesClean
<1>4. CASE Valid(fsm, candidate[1], mode)
  <2>1. result' = candidate /\ fsm' = Apply(Clean, candidate[1], mode).fsm /\ Valid(Clean, candidate[1], mode)
    BY <1>1, <1>4 DEF ValidateEnd
  <2>2. result'[1] = candidate[1] /\ candidate[1].height = height
    BY <2>1, BlockHeight
  <2>3. Shapes'
    BY <1>1, <2>1, <2>2 DEF ReplayInv, Shapes
  <2>4. ASSUME NEW x, NEW m
        PROVE  /\ Valid(Clean, x, m) => Valid(Clean, x, m)'
               /\ Apply(Clean, x, m)' = Apply(Clean, x, m)
    BY <1>1 DEF Valid, Apply, Clean, Indexed
  <2>5. ResultKept'
    BY <2>1, <2>2, <2>4 DEF ResultKept
  <2> QED
    BY <1>2, <1>3, <2>3, <2>5 DEF ReplayInv
<1>5. CASE ~Valid(fsm, candidate[1], mode)
  <2>1. result' = <<>>
    BY <1>5 DEF ValidateEnd
  <2>2. Shapes' /\ ResultKept'
    BY <1>1, <2>1 DEF ReplayInv, Shapes, ResultKept
  <2> QED
    BY <1>2, <1>3, <2>2 DEF ReplayInv
<1> QED
  BY <1>4, <1>5

\* RoundInterrupt
LEMMA InterruptReplay == ASSUME ReplayInv, RoundInterrupt PROVE ReplayInv'
<1>1. /\ UNCHANGED <<chain, committed, height, failures, certified, abandoned>>
      /\ UNCHANGED <<lock, candidate>> /\ lock = "free" /\ result' = <<>>
  BY DEF RoundInterrupt, lockVars, chainVars
<1>2. ChainReplayable'
  BY <1>1, SameChain DEF ReplayInv
<1>3. Shapes' /\ CertifiedShape' /\ ValidatesClean' /\ ResultKept'
  BY <1>1 DEF ReplayInv, Shapes, CertifiedShape, ValidatesClean, ResultKept
<1> QED
  BY <1>2, <1>3 DEF ReplayInv

\* CommitBegin
LEMMA CommitBeginReplay == ASSUME ReplayInv, NEW b \in Proposals, CommitBegin(b) PROVE ReplayInv'
<1>1. /\ UNCHANGED <<chain, committed, height, failures, result, abandoned, fsm>>
      /\ certified' = <<b>> /\ b \notin abandoned /\ lock = "free" /\ lock' = "commit"
  BY DEF CommitBegin
<1>2. ChainReplayable'
  BY <1>1, SameChain DEF ReplayInv
<1>3. certified'[1] = b /\ b.txs \in Seq(Txs) /\ b.height = height
  BY <1>1, ProposedTxs
<1>4. Shapes' /\ CertifiedShape' /\ ValidatesClean'
  BY <1>1, <1>3 DEF ReplayInv, Shapes, CertifiedShape, ValidatesClean
<1>5. ResultKept'
  BY <1>1 DEF ReplayInv, ResultKept, Valid, Apply, Clean, Indexed
<1> QED
  BY <1>2, <1>4, <1>5 DEF ReplayInv

\* CommitFails: nothing is said of the result of the block that is offered again.
LEMMA FailsReplay == ASSUME ReplayInv, CommitFails PROVE ReplayInv'
<1>1. /\ UNCHANGED <<chain, committed, height, result, certified, abandoned>>
      /\ lock' = "free" /\ failures' = failures + 1 /\ failures \in Nat
  BY DEF CommitFails, ReplayInv, Shapes
<1>2. failures' # 0 /\ failures' \in Nat
  BY <1>1
<1>3. ChainReplayable'
  BY <1>1, <1>2, SameChain DEF ReplayInv
<1>4. Shapes' /\ CertifiedShape' /\ ValidatesClean' /\ ResultKept'
  BY <1>1, <1>2 DEF ReplayInv, Shapes, CertifiedShape, ValidatesClean, ResultKept
<1> QED
  BY <1>3, <1>4 DEF ReplayInv

\* A list is one of its elements.
LEMMA OwnElements ==
  ASSUME NEW A, NEW s \in Seq(A)
  PROVE  s \in Seq(ToSet(s))
<1>1. s \in [1 .. Len(s) -> A] /\ Len(s) \in Nat /\ DOMAIN s = 1 .. Len(s)
  OBVIOUS
<1>2. s \in [1 .. Len(s) -> ToSet(s)]
  BY <1>1 DEF ToSet
<1> QED
  BY <1>1, <1>2, SeqDef

\* CommitCertificate: one more block, and the state it leads to.
LEMMA CommitReplay == ASSUME Inv, ReplayInv, CommitCertificate PROVE ReplayInv'
<1>1. PICK b : b = certified[1]
  OBVIOUS
<1>2. CommitReady /\ CommitBlock /\ mode = AcceptAll
  BY CommitAccepts DEF CommitCertificate
<1>3. /\ certified = <<b>> /\ b.txs \in Seq(Txs) /\ b.height = height /\ b \notin abandoned
      /\ Valid(Clean, b, AcceptAll) /\ lock = "commit"
  BY <1>1, <1>2 DEF CommitReady, Inv, CertifiedValid, ReplayInv, CertifiedShape
<1>4. /\ chain' = Append(chain, b) /\ height' = height + 1 /\ certified' = <<>> /\ lock' = "free"
      /\ committed' = [acc |-> BlockApplied.acc, fees |-> BlockApplied.fees]
      /\ UNCHANGED <<result, candidate, failures>>
  BY <1>1, <1>2 DEF CommitBlock
<1>5. PICK B : B = ToSet(chain)
  OBVIOUS
<1>6. chain \in Seq(B) /\ height \in Nat /\ Len(b.txs) \in Nat /\ Len(chain) \in Nat
  BY <1>3, <1>5 DEF ReplayInv, Shapes
<1>7. /\ chain' \in Seq(B \cup {b}) /\ DOMAIN chain' = 1 .. Len(chain) + 1
      /\ chain'[Len(chain) + 1] = b /\ \A i \in DOMAIN chain : chain'[i] = chain[i]
      /\ DOMAIN chain = 1 .. Len(chain)
  <2>1. chain \in Seq(B \cup {b}) /\ b \in B \cup {b}
    BY <1>6
  <2> QED
    BY <1>4, <1>6, <2>1
<1>8. Shapes'
  <2>1. chain' \in Seq(ToSet(chain'))
    BY <1>7, OwnElements
  <2>2. \A i \in DOMAIN chain' : chain'[i].txs \in Seq(Txs)
    BY <1>3, <1>6, <1>7 DEF ReplayInv, Shapes
  <2> QED
    BY <1>4, <1>6, <2>1, <2>2 DEF ReplayInv, Shapes
<1>9. CertifiedShape' /\ ValidatesClean' /\ ResultKept'
  <2>1. result # <<>> => result[1].height # height + 1
    BY <1>6 DEF ReplayInv, Shapes
  <2> QED
    BY <1>4, <2>1 DEF CertifiedShape, ValidatesClean, ResultKept
<1>10. NoTxTwice'
  <2>1. ToSet(b.txs) \cap Indexed = {}
    BY <1>3, <1>6, NothingIndexed
  <2>2. \A i \in DOMAIN chain : ToSet(chain[i].txs) \cap ToSet(b.txs) = {}
    BY <2>1 DEF Indexed
  <2>3. NoTxTwice
    BY DEF ReplayInv, ChainReplayable
  <2>4. ASSUME NEW i \in DOMAIN chain', NEW j \in DOMAIN chain', i # j
        PROVE  ToSet(chain'[i].txs) \cap ToSet(chain'[j].txs) = {}
    <3>1. CASE i \in DOMAIN chain /\ j \in DOMAIN chain
      BY <1>7, <2>3, <2>4, <3>1 DEF NoTxTwice
    <3>2. CASE i \in DOMAIN chain /\ j = Len(chain) + 1
      BY <1>7, <2>2, <3>2
    <3>3. CASE i = Len(chain) + 1 /\ j \in DOMAIN chain
      BY <1>7, <2>2, <3>3
    <3> QED
      BY <1>6, <1>7, <2>4, <3>1, <3>2, <3>3
  <2>5. Distinct(b.txs)
    BY <1>3, ValidDistinct
  <2>6. \A i \in DOMAIN chain' : Distinct(chain'[i].txs)
    BY <1>6, <1>7, <2>3, <2>5 DEF NoTxTwice
  <2> QED
    BY <2>4, <2>6 DEF NoTxTwice
<1>11. StateIsReplay'
  <2>1. SUFFICES ASSUME failures = 0 PROVE committed' = Replay(chain')
    BY <1>4 DEF StateIsReplay
  <2>2. committed = Replay(chain)
    BY <2>1 DEF ReplayInv, ChainReplayable, StateIsReplay
  <2>3. PICK m \in Modes : Valid(Clean, b, m) /\ BlockApplied = Apply(Clean, b, m).fsm
    <3>1. CASE Precalculated
      <4>1. result # <<>> /\ result[1] = b
        BY <1>3, <3>1 DEF Precalculated
      <4>2. \E m \in Modes : Valid(Clean, b, m) /\ fsm = Apply(Clean, b, m).fsm
        BY <1>3, <2>1, <4>1 DEF ReplayInv, ResultKept
      <4> QED
        BY <3>1, <4>2 DEF BlockApplied
    <3>2. CASE ~Precalculated
      BY <1>1, <1>2, <1>3, <3>2 DEF BlockApplied, Modes
    <3> QED
      BY <3>1, <3>2
  <2>4. Run(Clean, b.txs, height, Indexed, m).failed = {} /\ BlockApplied = Run(Clean, b.txs, height, Indexed, m).fsm
    BY <2>3 DEF Valid, Apply, Run
  <2>5. Run(Clean, b.txs, height, {}, AcceptAll) = Run(Clean, b.txs, height, Indexed, m)
    BY <1>6, <2>4, SameBlock
  <2>6. Executed(committed, b) = committed'
    BY <1>3, <1>4, <2>4, <2>5 DEF Executed, Clean, Run
  <2>7. Replay(chain') = Executed(Replay(chain), b)
    BY <1>4, <1>6, ReplayAppend
  <2> QED
    BY <2>2, <2>6, <2>7
<1> QED
  BY <1>8, <1>9, <1>10, <1>11 DEF ReplayInv, ChainReplayable

\* Every step.
LEMMA NextReplay == ASSUME Inv, ReplayInv, mode \in Modes, [Next]_vars PROVE ReplayInv' /\ mode' \in Modes
<1>1. ReplayInv'
  <2>1. CASE UNCHANGED vars
    BY <2>1, PoolReplay DEF vars, chainVars, lockVars
  <2>2. CASE (\E batch \in Batches : HandleTransactions(batch)) \/ LazyBegin \/ LazyCheck \/ LazyEnd
    <3>1. UNCHANGED <<chain, committed, height, failures, result, certified, abandoned>>
      BY <2>2 DEF HandleTransactions, LazyBegin, LazyCheck, LazyEnd, chainVars
    <3>2. UNCHANGED <<fsm, lock, candidate>>
      BY <2>2 DEF HandleTransactions, LazyBegin, LazyCheck, LazyEnd, lockVars
    <3> QED
      BY <3>1, <3>2, PoolReplay
  <2>3. CASE ProduceProposal
    BY <2>3, ProduceReplay
  <2>4. CASE \E b \in Proposals \cup {cached.block} : ValidateBegin(b)
    BY <2>4, ValidateBeginReplay
  <2>5. CASE ValidateEnd
    BY <2>5, ValidateEndReplay
  <2>6. CASE RoundInterrupt
    BY <2>6, InterruptReplay
  <2>7. CASE \E b \in Proposals : CommitBegin(b)
    BY <2>7, CommitBeginReplay
  <2>8. CASE CommitCertificate
    BY <2>8, CommitReplay
  <2>9. CASE CommitFails
    BY <2>9, FailsReplay
  <2> QED
    BY <2>1, <2>2, <2>3, <2>4, <2>5, <2>6, <2>7, <2>8, <2>9 DEF Next
<1>2. mode' = mode \/ SetConsensusMode \/ ResetMode
  BY DEF Next, vars, HandleTransactions, LazyBegin, LazyCheck, LazyEnd, ProduceProposal, ValidateBegin,
         ValidateEnd, RoundInterrupt, CommitBegin, CommitCertificate, RefuseBlock, CommitBlock, CommitFails
<1>3. mode' \in Modes
  BY <1>2 DEF SetConsensusMode, ResetMode, Modes
<1> QED
  BY <1>1, <1>3

\* The initial state.
LEMMA InitReplay == ASSUME Init PROVE ReplayInv
<1>1. Shapes /\ CertifiedShape /\ ValidatesClean /\ ResultKept
  BY ControllerAssumption DEF Init, Shapes, CertifiedShape, ValidatesClean, ResultKept
<1>2. committed = Replay(chain)
  <2>1. chain = <<>> /\ Len(chain) = 0 /\ committed = [acc |-> Genesis, fees |-> 0]
    BY DEF Init
  <2>2. States(chain)[0] = [acc |-> Genesis, fees |-> 0]
    BY <2>1, StatesSteps
  <2> QED
    BY <2>1, <2>2 DEF Replay
<1>3. NoTxTwice
  BY DEF Init, NoTxTwice
<1> QED
  BY <1>1, <1>2, <1>3 DEF ReplayInv, ChainReplayable, StateIsReplay

\* The chain can be replayed from genesis, whatever is sent, checked, validated, interrupted
\* and led away from between two commits: CommitCertificate may take the state that
\* ValidateProposal left (BlockResult) for the one the block leads to, and CheckReplay keeps
\* a transaction out of a second block, and the check for duplicates out of the same one
\* (controller/block.go, fsm/transaction.go, fsm/state.go).
THEOREM ChainReplayableHolds == Spec => []ChainReplayable
<1>1. Init => Inv /\ ReplayInv /\ mode \in Modes
  BY InitInv, InitReplay DEF Init, Modes
<1>2. (Inv /\ ReplayInv /\ mode \in Modes) /\ [Next]_vars => (Inv /\ ReplayInv /\ mode \in Modes)'
  BY NextInv, NextReplay
<1>3. ReplayInv => ChainReplayable
  BY DEF ReplayInv
<1> QED
  BY <1>1, <1>2, <1>3, PTL DEF Spec

-----------------------------------------------------------------------------
(* State machines that differ in their caches only. *)

\* The cache of a state machine has what the store has.
Machine(f) ==
  /\ f = [acc |-> f.acc, fees |-> f.fees, cache |-> f.cache]
  /\ f.acc = [a \in Accounts |-> f.acc[a]]
  /\ \A a \in DOMAIN f.cache : a \in Accounts /\ f.cache[a] = f.acc[a]

Alike(f, g) == Machine(f) /\ Machine(g) /\ f.acc = g.acc /\ f.fees = g.fees

\* So that it does not matter which of the two is read.
LEMMA Reads == ASSUME NEW f, Machine(f), NEW a PROVE GetAccount(f, a) = f.acc[a]
BY DEF Machine, GetAccount

\* SetAccount writes both.
LEMMA Writes ==
  ASSUME NEW f, Machine(f), NEW a \in Accounts, NEW x
  PROVE  /\ Machine(SetAccount(f, a, x)) /\ SetAccount(f, a, x).fees = f.fees
         /\ SetAccount(f, a, x).acc = [f.acc EXCEPT ![a] = x]
<1> DEFINE c == [y \in DOMAIN f.cache \cup {a} |-> IF y = a THEN x ELSE f.cache[y]]
           s == [f.acc EXCEPT ![a] = x]
           g == [acc |-> s, fees |-> f.fees, cache |-> c]
<1>1. SetAccount(f, a, x) = g
  <2>1. SetAccount(f, a, x) = [f EXCEPT !.acc = s, !.cache = c]
    BY DEF SetAccount
  <2>2. f = [acc |-> f.acc, fees |-> f.fees, cache |-> f.cache]
    BY DEF Machine
  <2> HIDE DEF c, s
  <2>3. PICK k : k = [f EXCEPT !.acc = s]
    OBVIOUS
  <2>4. k = [acc |-> s, fees |-> f.fees, cache |-> f.cache]
    BY <2>2, <2>3
  <2>5. [k EXCEPT !.cache = c] = g
    BY <2>4
  <2> QED
    BY <2>1, <2>3, <2>5
<1>2. s = [b \in Accounts |-> s[b]] /\ s[a] = x /\ \A b \in Accounts \ {a} : s[b] = f.acc[b]
  BY DEF Machine
<1>3. \A b \in DOMAIN c : b \in Accounts /\ c[b] = s[b]
  BY <1>2 DEF Machine
<1> HIDE DEF c, s
<1>4. Machine(g)
  BY <1>2, <1>3 DEF Machine
<1> QED
  BY <1>1, <1>4 DEF s

\* Amounts are added and subtracted in the same way.
LEMMA Amounts ==
  ASSUME NEW f, NEW g, Alike(f, g), NEW a \in Accounts, NEW x
  PROVE  /\ Alike(AccountAdd(f, a, x), AccountAdd(g, a, x))
         /\ Alike(AccountSub(f, a, x), AccountSub(g, a, x))
<1>1. CASE x = 0
  BY <1>1 DEF AccountAdd, AccountSub
<1>2. CASE x # 0
  <2>1. GetAccount(f, a) = GetAccount(g, a)
    BY Reads DEF Alike
  <2>2. ASSUME NEW y PROVE Alike(SetAccount(f, a, y), SetAccount(g, a, y))
    <3>1. Machine(f) /\ Machine(g) /\ f.acc = g.acc /\ f.fees = g.fees
      BY DEF Alike
    <3>2. /\ Machine(SetAccount(f, a, y)) /\ SetAccount(f, a, y).fees = f.fees
          /\ SetAccount(f, a, y).acc = [f.acc EXCEPT ![a] = y]
      BY <3>1, Writes
    <3>3. /\ Machine(SetAccount(g, a, y)) /\ SetAccount(g, a, y).fees = g.fees
          /\ SetAccount(g, a, y).acc = [g.acc EXCEPT ![a] = y]
      BY <3>1, Writes
    <3>4. [f.acc EXCEPT ![a] = y] = [g.acc EXCEPT ![a] = y]
      BY <3>1
    <3> QED
      BY <3>1, <3>2, <3>3, <3>4 DEF Alike
  <2>3. PICK s : s = GetAccount(f, a) + x
    OBVIOUS
  <2>4. PICK d : d = GetAccount(f, a) - x
    OBVIOUS
  <2>5. AccountAdd(f, a, x) = SetAccount(f, a, s) /\ AccountAdd(g, a, x) = SetAccount(g, a, s)
    BY <1>2, <2>1, <2>3 DEF AccountAdd
  <2>6. AccountSub(f, a, x) = SetAccount(f, a, d) /\ AccountSub(g, a, x) = SetAccount(g, a, d)
    BY <1>2, <2>1, <2>4 DEF AccountSub
  <2> QED
    BY <2>2, <2>5, <2>6
<1> QED
  BY <1>1, <1>2

\* The pool of fees.
LEMMA Fees ==
  ASSUME NEW f, NEW g, Alike(f, g), NEW x
  PROVE  Alike([f EXCEPT !.fees = x], [g EXCEPT !.fees = x])
BY DEF Alike, Machine

\* A transaction.
LEMMA TransactionAlike ==
  ASSUME NEW f, NEW g, Alike(f, g), NEW t \in Txs
  PROVE  Alike(ApplyTransaction(f, t), ApplyTransaction(g, t))
<1>1. Tx[t].from \in Accounts /\ Tx[t].to \in Accounts
  BY ControllerAssumption
<1>2. PICK a : a = Tx[t].from
  OBVIOUS
<1>3. PICK d : d = Tx[t].to
  OBVIOUS
<1>4. PICK x : x = Tx[t].amount
  OBVIOUS
<1>5. PICK y : y = Tx[t].fee
  OBVIOUS
<1>6. PICK f1 : f1 = AccountSub(f, a, y)
  OBVIOUS
<1>7. PICK g1 : g1 = AccountSub(g, a, y)
  OBVIOUS
<1>8. Alike(f1, g1)
  BY <1>1, <1>2, <1>6, <1>7, Amounts
<1>9. PICK z : z = f1.fees + y
  OBVIOUS
<1>10. PICK f2 : f2 = AccountDeductFees(f, a, y)
  OBVIOUS
<1>11. PICK g2 : g2 = AccountDeductFees(g, a, y)
  OBVIOUS
<1>12. f2 = [f1 EXCEPT !.fees = z] /\ g2 = [g1 EXCEPT !.fees = z]
  BY <1>6, <1>7, <1>8, <1>9, <1>10, <1>11 DEF AccountDeductFees, Alike
<1>13. Alike(f2, g2)
  BY <1>8, <1>12, Fees
<1>14. Alike(AccountSub(f2, a, x), AccountSub(g2, a, x))
  BY <1>1, <1>2, <1>13, Amounts
<1>15. Alike(AccountAdd(AccountSub(f2, a, x), d, x), AccountAdd(AccountSub(g2, a, x), d, x))
  BY <1>1, <1>3, <1>14, Amounts
<1> QED
  BY <1>2, <1>3, <1>4, <1>5, <1>10, <1>11, <1>15 DEF ApplyTransaction

\* What fails on one state machine fails on the other; and what a mode lets pass is accepted
\* where all proposals are.
LEMMA AppliesAlike ==
  ASSUME NEW f, NEW g, Alike(f, g), NEW t, NEW h, NEW ix, NEW m, Applies(f, t, h, ix, m)
  PROVE  Applies(g, t, h, ix, AcceptAll)
<1>1. GetAccount(f, Tx[t].from) = GetAccount(g, Tx[t].from)
  BY Reads DEF Alike
<1> QED
  BY <1>1 DEF Applies, ApproveProposal

\* A failed transaction.
LEMMA RollbackAlike ==
  ASSUME NEW f, NEW g, Alike(f, g), NEW t
  PROVE  Alike(Rollback(f, t), g)
BY DEF Alike, Machine, Rollback, NoCache

\* The rewards at the end of the block.
LEMMA RewardsAlike ==
  ASSUME NEW f, NEW g, Alike(f, g)
  PROVE  Alike(DistributeCommitteeRewards(f), DistributeCommitteeRewards(g))
<1>1. PICK x : x = f.fees
  OBVIOUS
<1>2. PICK f1 : f1 = AccountAdd(f, Recipient, x)
  OBVIOUS
<1>3. PICK g1 : g1 = AccountAdd(g, Recipient, x)
  OBVIOUS
<1>4. Alike(f1, g1)
  BY <1>2, <1>3, Amounts, ControllerAssumption
<1>5. Alike([f1 EXCEPT !.fees = 0], [g1 EXCEPT !.fees = 0])
  BY <1>4, Fees
<1> QED
  BY <1>1, <1>2, <1>3, <1>5 DEF DistributeCommitteeRewards, Alike

-----------------------------------------------------------------------------
(* The block of a pool, executed again. *)

\* A transaction does not fit, or one before it did not.
TooBig(q, t, h) == q.oversize \/ (CheckTx(t, h) /\ Tx[t].size + q.size > MaxBlockSize)

\* All variables after an iteration in which the transaction fits.
LEMMA StepParts ==
  ASSUME NEW q, IsLoop(q), NEW t, NEW h, NEW ix, NEW m
  PROVE  /\ ~TooBig(q, t, h) => ~Step(q, t, h, ix, m).oversize
         /\ TooBig(q, t, h) => Step(q, t, h, ix, m).oversize
         /\ Applies(q.fsm, t, h, ix, m) /\ ~TooBig(q, t, h) =>
              /\ Step(q, t, h, ix, m).fsm = ApplyTransaction(q.fsm, t)
              /\ Step(q, t, h, ix, m).base = ApplyTransaction(q.fsm, t)
              /\ Step(q, t, h, ix, m).txs = Append(q.txs, t)
              /\ Step(q, t, h, ix, m).size = q.size + Tx[t].size
         /\ ~Applies(q.fsm, t, h, ix, m) =>
              /\ Step(q, t, h, ix, m).fsm \in {q.fsm, Rollback(q.fsm, t)}
              /\ Step(q, t, h, ix, m).base = q.base
              /\ Step(q, t, h, ix, m).size = q.size
<1> DEFINE o == TooBig(q, t, h)
           no == [q EXCEPT !.failed = @ \cup {t}, !.oversize = o,
                           !.fsm = IF CheckTx(t, h) THEN Rollback(@, t) ELSE @]
           yes == [q EXCEPT !.fsm = ApplyTransaction(@, t), !.oversize = o,
                            !.txs = IF o THEN @ ELSE Append(@, t),
                            !.size = IF o THEN @ ELSE @ + Tx[t].size,
                            !.base = IF o THEN @ ELSE ApplyTransaction(q.fsm, t)]
<1>1. Step(q, t, h, ix, m) = IF ~Applies(q.fsm, t, h, ix, m) THEN no ELSE yes
  BY DEF Step, TooBig
<1>2. DOMAIN q = Fields
  BY DEF IsLoop
<1> HIDE DEF o
<1>3. /\ no.oversize = o /\ no.fsm \in {q.fsm, Rollback(q.fsm, t)} /\ no.base = q.base /\ no.size = q.size
  BY <1>2 DEF Fields
<1>4. /\ yes.oversize = o
      /\ ~o => /\ yes.fsm = ApplyTransaction(q.fsm, t) /\ yes.base = ApplyTransaction(q.fsm, t)
               /\ yes.txs = Append(q.txs, t) /\ yes.size = q.size + Tx[t].size
  BY <1>2 DEF Fields
<1> HIDE DEF no, yes
<1> QED
  BY <1>1, <1>3, <1>4 DEF o

\* The loop without a transaction that does not fit: the store under it follows.
Sound(q) == IsLoop(q) /\ Alike(q.base, q.fsm) /\ ~q.oversize

\* Loop q has taken what loop r has executed without a failure.
Match(q, r) ==
  Sound(q) /\ Sound(r) /\ Alike(q.fsm, r.fsm) /\ q.size = r.size /\ q.txs = r.txs /\ r.failed = {}

LEMMA AlikeOrder ==
  /\ \A f, g : Alike(f, g) => Alike(g, f) /\ Alike(f, f)
  /\ \A f, g, k : Alike(f, g) /\ Alike(g, k) => Alike(f, k)
BY DEF Alike

\* One more transaction: both take it, or it fails and the second is not given it.
LEMMA StepMatch ==
  ASSUME NEW q, NEW r, Match(q, r), NEW t \in Txs, NEW h, NEW ix, NEW m, ~Step(q, t, h, ix, m).oversize
  PROVE  \/ /\ Step(q, t, h, ix, m).txs = Append(q.txs, t)
            /\ Match(Step(q, t, h, ix, m), Step(r, t, h, ix, AcceptAll))
         \/ /\ Step(q, t, h, ix, m).txs = q.txs
            /\ Match(Step(q, t, h, ix, m), r)
<1>1. /\ IsLoop(q) /\ IsLoop(r) /\ Alike(q.base, q.fsm) /\ Alike(r.base, r.fsm) /\ Alike(q.fsm, r.fsm)
      /\ q.size = r.size /\ q.txs = r.txs /\ r.failed = {} /\ ~q.oversize /\ ~r.oversize
  BY DEF Match, Sound
<1>2. ~TooBig(q, t, h)
  BY <1>1, StepParts
<1>3. ~TooBig(r, t, h)
  BY <1>1, <1>2 DEF TooBig
<1>4. PICK q1 : q1 = Step(q, t, h, ix, m)
  OBVIOUS
<1>5. IsLoop(q1) /\ ~q1.oversize
  BY <1>1, <1>4, StepFields
<1>6. CASE Applies(q.fsm, t, h, ix, m)
  <2>1. PICK r1 : r1 = Step(r, t, h, ix, AcceptAll)
    OBVIOUS
  <2>2. Applies(r.fsm, t, h, ix, AcceptAll)
    BY <1>1, <1>6, AppliesAlike
  <2>3. IsLoop(r1) /\ ~r1.oversize
    BY <1>1, <1>3, <2>1, StepFields, StepParts
  <2>4. r1.failed = {}
    BY <1>1, <2>1, <2>2, StepFields
  <2>5. /\ q1.fsm = ApplyTransaction(q.fsm, t) /\ q1.base = ApplyTransaction(q.fsm, t)
        /\ q1.txs = Append(q.txs, t) /\ q1.size = q.size + Tx[t].size
    BY <1>1, <1>2, <1>4, <1>6, StepParts
  <2>6. /\ r1.fsm = ApplyTransaction(r.fsm, t) /\ r1.base = ApplyTransaction(r.fsm, t)
        /\ r1.txs = Append(r.txs, t) /\ r1.size = r.size + Tx[t].size
    BY <1>1, <1>3, <2>1, <2>2, StepParts
  <2>7. Alike(ApplyTransaction(q.fsm, t), ApplyTransaction(r.fsm, t))
    BY <1>1, TransactionAlike
  <2>8. Alike(q1.fsm, r1.fsm) /\ Alike(q1.base, q1.fsm) /\ Alike(r1.base, r1.fsm)
    BY <2>5, <2>6, <2>7, AlikeOrder
  <2>9. Match(q1, r1)
    BY <1>1, <1>5, <2>3, <2>4, <2>5, <2>6, <2>8 DEF Match, Sound
  <2> QED
    BY <1>4, <2>1, <2>5, <2>9
<1>7. CASE ~Applies(q.fsm, t, h, ix, m)
  <2>1. q1.fsm \in {q.fsm, Rollback(q.fsm, t)} /\ q1.base = q.base /\ q1.size = q.size /\ q1.txs = q.txs
    BY <1>1, <1>4, <1>7, StepFields, StepParts
  <2>2. Alike(q1.fsm, q.fsm)
    BY <1>1, <2>1, AlikeOrder, RollbackAlike
  <2>3. Alike(q1.fsm, r.fsm) /\ Alike(q1.base, q1.fsm)
    BY <1>1, <2>1, <2>2, AlikeOrder
  <2>4. Match(q1, r)
    BY <1>1, <1>5, <2>1, <2>3 DEF Match, Sound
  <2> QED
    BY <1>4, <2>1, <2>4
<1> QED
  BY <1>6, <1>7

\* The loop over a list with one more transaction.
LEMMA ProgressAppend ==
  ASSUME NEW f, NEW A, NEW s \in Seq(A), NEW t \in A, NEW h, NEW ix, NEW m
  PROVE  Progress(f, Append(s, t), h, ix, m)[Len(s) + 1]
           = Step(Progress(f, s, h, ix, m)[Len(s)], t, h, ix, m)
<1> DEFINE n == Len(s)
           s2 == Append(s, t)
           p == Progress(f, s, h, ix, m)
           q == Progress(f, s2, h, ix, m)
           S == {i \in Nat : i <= n => q[i] = p[i]}
<1>1. n \in Nat /\ Len(s2) = n + 1 /\ s2[n + 1] = t /\ \A i \in 1 .. n : s2[i] = s[i]
  OBVIOUS
<1>2. p[0] = Start(f) /\ \A i \in 1 .. n : p[i] = Step(p[i - 1], s[i], h, ix, m)
  BY <1>1, ProgressSteps
<1> HIDE DEF n, s2, p
<1>3. q[0] = Start(f) /\ \A i \in 1 .. n + 1 : q[i] = Step(q[i - 1], s2[i], h, ix, m)
  <2>1. Len(s2) \in Nat
    BY <1>1
  <2>2. q[0] = Start(f) /\ \A i \in 1 .. Len(s2) : q[i] = Step(q[i - 1], s2[i], h, ix, m)
    BY <2>1, ProgressSteps
  <2> QED
    BY <1>1, <2>2
<1> HIDE DEF q
<1>4. 0 \in S
  BY <1>2, <1>3
<1>5. ASSUME NEW i \in Nat, i \in S PROVE i + 1 \in S
  <2>1. SUFFICES ASSUME i + 1 <= n PROVE q[i + 1] = p[i + 1]
    OBVIOUS
  <2>2. i + 1 \in 1 .. n /\ i + 1 \in 1 .. n + 1 /\ (i + 1) - 1 = i /\ q[i] = p[i]
    BY <1>1, <1>5, <2>1
  <2> QED
    BY <1>1, <1>2, <1>3, <2>2
<1> HIDE DEF S
<1>6. n \in S
  BY <1>1, <1>4, <1>5, FromZero
<1>7. q[n] = p[n] /\ n + 1 \in 1 .. n + 1 /\ (n + 1) - 1 = n
  BY <1>1, <1>6 DEF S
<1>8. q[n + 1] = Step(p[n], t, h, ix, m)
  BY <1>1, <1>3, <1>7
<1> QED
  BY <1>8 DEF n, s2, p, q

\* Whoever is given only what a loop has taken, and accepts all proposals, takes all of it.
LEMMA Rebuilt ==
  ASSUME NEW f, Machine(f), NEW s \in Seq(Txs), NEW h, NEW ix, NEW m,
         ~Progress(f, s, h, ix, m)[Len(s)].oversize
  PROVE  LET p == Progress(f, s, h, ix, m)[Len(s)]
         IN  p.txs \in Seq(Txs) /\ Match(p, Progress(f, p.txs, h, ix, AcceptAll)[Len(p.txs)])
<1> DEFINE n == Len(s)
           p == Progress(f, s, h, ix, m)
           Again(u) == Progress(f, u, h, ix, AcceptAll)[Len(u)]
           Good(i) == p[i].txs \in Seq(Txs) /\ Match(p[i], Again(p[i].txs))
           S == {i \in Nat : i <= n /\ ~p[i].oversize => Good(i)}
<1>1. n \in Nat /\ \A i \in 1 .. n : s[i] \in Txs
  OBVIOUS
<1>2. p[0] = Start(f) /\ \A i \in 1 .. n : p[i] = Step(p[i - 1], s[i], h, ix, m)
  BY <1>1, ProgressSteps
<1>3. \A i \in 0 .. n : IsLoop(p[i])
  BY <1>1, ProgressFields
<1> HIDE DEF n, p
<1>4. ASSUME NEW u \in Seq(Txs), NEW t \in Txs
      PROVE  Append(u, t) \in Seq(Txs) /\ Again(Append(u, t)) = Step(Again(u), t, h, ix, AcceptAll)
  <2>1. Append(u, t) \in Seq(Txs) /\ Len(Append(u, t)) = Len(u) + 1
    OBVIOUS
  <2> QED
    BY <2>1, ProgressAppend
<1>5. 0 \in S
  <2>1. Again(<<>>) = Start(f)
    <3>1. PICK e : e = <<>>
      OBVIOUS
    <3>2. Len(e) = 0 /\ Len(e) \in Nat
      BY <3>1
    <3>3. Progress(f, e, h, ix, AcceptAll)[0] = Start(f)
      BY <3>2, ProgressSteps
    <3> QED
      BY <3>1, <3>2, <3>3
  <2>2. /\ IsLoop(Start(f)) /\ Start(f).txs = <<>> /\ Start(f).fsm = f /\ Start(f).base = f
        /\ Start(f).failed = {} /\ ~Start(f).oversize
    BY DEF Start, IsLoop, Fields
  <2>3. Alike(f, f)
    BY DEF Alike
  <2>4. PICK q : q = Start(f)
    OBVIOUS
  <2>5. Match(q, q) /\ q.txs = <<>>
    BY <2>2, <2>3, <2>4 DEF Match, Sound
  <2>6. <<>> \in Seq(Txs)
    OBVIOUS
  <2> HIDE DEF Again
  <2>7. p[0].txs \in Seq(Txs) /\ Match(p[0], Again(p[0].txs))
    BY <1>2, <2>1, <2>4, <2>5, <2>6
  <2> QED
    BY <2>7
<1> HIDE DEF Again
<1>6. ASSUME NEW i \in Nat, i \in S PROVE i + 1 \in S
  <2>1. SUFFICES ASSUME i + 1 <= n, ~p[i + 1].oversize PROVE Good(i + 1)
    OBVIOUS
  <2>2. PICK t : t = s[i + 1]
    OBVIOUS
  <2>3. PICK q : q = p[i]
    OBVIOUS
  <2>4. t \in Txs /\ p[i + 1] = Step(q, t, h, ix, m) /\ IsLoop(q)
    BY <1>1, <1>2, <1>3, <2>1, <2>2, <2>3
  <2>5. ~TooBig(q, t, h)
    BY <2>1, <2>4, StepParts
  <2>6. ~q.oversize
    BY <2>5 DEF TooBig
  <2>7. q.txs \in Seq(Txs) /\ Match(q, Again(q.txs))
    BY <1>1, <1>6, <2>1, <2>3, <2>6
  <2>8. PICK r : r = Again(q.txs)
    OBVIOUS
  <2>9. \/ /\ p[i + 1].txs = Append(q.txs, t) /\ Match(p[i + 1], Step(r, t, h, ix, AcceptAll))
        \/ /\ p[i + 1].txs = q.txs /\ Match(p[i + 1], r)
    BY <2>1, <2>4, <2>7, <2>8, StepMatch
  <2>10. Append(q.txs, t) \in Seq(Txs) /\ Again(Append(q.txs, t)) = Step(r, t, h, ix, AcceptAll)
    BY <1>4, <2>4, <2>7, <2>8
  <2> QED
    BY <2>7, <2>8, <2>9, <2>10
<1> HIDE DEF S
<1>7. n \in S
  BY <1>1, <1>5, <1>6, FromZero
<1>8. Good(n)
  BY <1>1, <1>7 DEF S, n, p
<1> QED
  BY <1>8 DEF n, p, Again

\* The store is the original one again; nothing was written to the other.
LEMMA UnwrapSound ==
  ASSUME NEW p, Sound(p)
  PROVE  /\ Alike(Unwrapped(p).fsm, p.fsm) /\ Unwrapped(p).txs = p.txs
         /\ Unwrapped(p).failed = p.failed /\ ~Unwrapped(p).oversize
<1>1. IsLoop(p) /\ Alike(p.base, p.fsm) /\ ~p.oversize
  BY DEF Sound
<1>2. PICK f : f = p.base
  OBVIOUS
<1>3. PICK g : g = p.fsm
  OBVIOUS
<1>4. PICK k : k = [f EXCEPT !.cache = g.cache]
  OBVIOUS
<1>5. Machine(f) /\ Machine(g) /\ f.acc = g.acc /\ f.fees = g.fees
  BY <1>1, <1>2, <1>3 DEF Alike
<1>6. k = [acc |-> f.acc, fees |-> f.fees, cache |-> g.cache]
  BY <1>4, <1>5 DEF Machine
<1>7. k = g
  BY <1>5, <1>6 DEF Machine
<1>8. Unwrapped(p) = [p EXCEPT !.fsm = k]
  BY <1>2, <1>3, <1>4 DEF Unwrapped
<1>9. PICK u : u = [p EXCEPT !.fsm = k]
  OBVIOUS
<1>10. u.fsm = k /\ u.txs = p.txs /\ u.failed = p.failed /\ u.oversize = p.oversize
  BY <1>1, <1>9 DEF IsLoop, Fields
<1>11. Alike(g, g)
  BY <1>5 DEF Alike
<1> QED
  BY <1>1, <1>3, <1>7, <1>8, <1>9, <1>10, <1>11

\* A run of the mempool.
Pooled(f, s, h, ix, m, c) == ApplyBlock(f, s, h, ix, m, TRUE, c)

\* What ApplyBlock makes of the loop's variables.
LEMMA BlockOf ==
  ASSUME NEW f, NEW s, NEW h, NEW ix, NEW m, NEW u, u = ApplyTransactions(f, s, h, ix, m),
         NEW g, g = DistributeCommitteeRewards(u.fsm)
  PROVE  /\ Run(f, s, h, ix, m).block = [height |-> h, txs |-> u.txs, root |-> [acc |-> g.acc, fees |-> g.fees]]
         /\ Run(f, s, h, ix, m).failed = u.failed /\ Run(f, s, h, ix, m).fsm = g
         /\ Run(f, s, h, ix, m).error <=> u.oversize \/ Duplicate(s, h)
         /\ \A c : /\ Pooled(f, s, h, ix, m, c).block = Run(f, s, h, ix, m).block
                  /\ Pooled(f, s, h, ix, m, c).oversize = u.oversize
BY DEF ApplyBlock, Run, Pooled

\* What a loop has taken of a list without duplicates has none.
LEMMA TakenDistinct ==
  ASSUME NEW f, NEW s \in Seq(Txs), Distinct(s), NEW h, NEW ix, NEW m
  PROVE  Distinct(Progress(f, s, h, ix, m)[Len(s)].txs)
<1> DEFINE n == Len(s)
           p == Progress(f, s, h, ix, m)
           X(i) == {s[j] : j \in 1 .. i}
           Good(i) == p[i].txs \in Seq(X(i)) /\ Distinct(p[i].txs)
           S == {i \in Nat : i <= n => Good(i)}
<1>1. n \in Nat /\ DOMAIN s = 1 .. n
  OBVIOUS
<1>2. p[0] = Start(f) /\ \A i \in 1 .. n : p[i] = Step(p[i - 1], s[i], h, ix, m)
  BY <1>1, ProgressSteps
<1>3. \A i \in 0 .. n : IsLoop(p[i])
  BY <1>1, ProgressFields
<1> HIDE DEF n, p
<1>4. 0 \in S
  <2>1. p[0].txs = <<>>
    BY <1>2 DEF Start
  <2>2. PICK e : e = <<>>
    OBVIOUS
  <2>3. e \in Seq(X(0)) /\ Distinct(e)
    BY <2>2 DEF Distinct
  <2> QED
    BY <2>1, <2>2, <2>3
<1>5. ASSUME NEW i \in Nat, i \in S PROVE i + 1 \in S
  <2>1. SUFFICES ASSUME i + 1 <= n PROVE Good(i + 1)
    OBVIOUS
  <2>2. PICK t, u, q : t = s[i + 1] /\ u = p[i].txs /\ q = p[i]
    OBVIOUS
  <2>3. u \in Seq(X(i)) /\ Distinct(u) /\ i \in 0 .. n /\ i + 1 \in 1 .. n /\ (i + 1) - 1 = i
    BY <1>1, <1>5, <2>1, <2>2
  <2>4. p[i + 1].txs \in {u, Append(u, t)}
    <3>1. IsLoop(q) /\ p[i + 1] = Step(q, t, h, ix, m) /\ u = q.txs
      BY <1>2, <1>3, <2>2, <2>3
    <3> QED
      BY <3>1, StepFields
  <2>5. t \notin X(i) /\ t \in X(i + 1) /\ X(i) \subseteq X(i + 1)
    BY <1>1, <2>2, <2>3 DEF Distinct
  <2>6. PICK Y, Z : Y = X(i) /\ Z = X(i + 1)
    OBVIOUS
  <2>7. u \in Seq(Y) /\ u \in Seq(Z) /\ Append(u, t) \in Seq(Z) /\ Len(u) \in Nat
    BY <2>3, <2>5, <2>6
  <2>8. /\ DOMAIN u = 1 .. Len(u) /\ DOMAIN Append(u, t) = 1 .. Len(u) + 1
        /\ Append(u, t)[Len(u) + 1] = t /\ \A k \in 1 .. Len(u) : Append(u, t)[k] = u[k] /\ u[k] \in Y
    BY <2>7
  <2>9. Distinct(Append(u, t))
    <3> SUFFICES ASSUME NEW a \in 1 .. Len(u) + 1, NEW b \in 1 .. Len(u) + 1, a < b
                 PROVE  Append(u, t)[a] # Append(u, t)[b]
      BY <2>8 DEF Distinct
    <3>1. a \in 1 .. Len(u) /\ Append(u, t)[a] = u[a] /\ u[a] \in Y
      BY <2>7, <2>8
    <3>2. CASE b = Len(u) + 1
      BY <2>5, <2>6, <2>8, <3>1, <3>2
    <3>3. CASE b \in 1 .. Len(u)
      BY <2>3, <2>8, <3>1, <3>3 DEF Distinct
    <3> QED
      BY <2>7, <3>2, <3>3
  <2> QED
    BY <2>3, <2>4, <2>6, <2>7, <2>9
<1> HIDE DEF S
<1>6. n \in S
  BY <1>1, <1>4, <1>5, FromZero
<1>7. Distinct(p[n].txs)
  BY <1>1, <1>6 DEF S
<1> QED
  BY <1>7 DEF n, p

\* Everything in the pool fitted; a block is executed without a failure, to the same header.
Fitted(f, s, h, ix, m, c) == ~Pooled(f, s, h, ix, m, c).oversize
Repeats(f, b, h, ix) ==
  LET r == Run(f, b.txs, h, ix, AcceptAll) IN ~r.error /\ r.failed = {} /\ r.block = b

\* The block that a pool without duplicates leads to is valid where all proposals are
\* accepted, if everything fitted.
LEMMA PoolBlock ==
  ASSUME NEW f, Machine(f), NEW s \in Seq(Txs), Distinct(s), NEW h, NEW ix, NEW m, NEW c,
         Fitted(f, s, h, ix, m, c)
  PROVE  Repeats(f, Pooled(f, s, h, ix, m, c).block, h, ix)
<1> DEFINE b == Pooled(f, s, h, ix, m, c).block
           r == Run(f, b.txs, h, ix, AcceptAll)
<1>1. PICK p : p = Progress(f, s, h, ix, m)[Len(s)]
  OBVIOUS
<1>2. PICK u : u = ApplyTransactions(f, s, h, ix, m)
  OBVIOUS
<1>3. PICK g : g = DistributeCommitteeRewards(u.fsm)
  OBVIOUS
<1>4. /\ b = [height |-> h, txs |-> u.txs, root |-> [acc |-> g.acc, fees |-> g.fees]]
      /\ ~u.oversize /\ u = Unwrapped(p)
  BY <1>1, <1>2, <1>3, BlockOf DEF ApplyTransactions, Fitted
<1>5. IsLoop(p) /\ Len(s) \in Nat /\ Len(s) \in 0 .. Len(s)
  BY <1>1, ProgressFields
<1>6. ~p.oversize /\ u.txs = p.txs
  BY <1>4, <1>5 DEF Unwrapped, IsLoop, Fields
<1>7. PICK q : q = Progress(f, p.txs, h, ix, AcceptAll)[Len(p.txs)]
  OBVIOUS
<1>8. p.txs \in Seq(Txs) /\ Match(p, q)
  BY <1>1, <1>6, <1>7, Rebuilt
<1>9. PICK v : v = ApplyTransactions(f, b.txs, h, ix, AcceptAll)
  OBVIOUS
<1>10. b.txs = p.txs /\ v = Unwrapped(q)
  BY <1>4, <1>6, <1>7, <1>9 DEF ApplyTransactions
<1>11. Sound(p) /\ Sound(q) /\ Alike(p.fsm, q.fsm) /\ p.txs = q.txs /\ q.failed = {}
  BY <1>8 DEF Match
<1>12. /\ Alike(u.fsm, p.fsm) /\ Alike(v.fsm, q.fsm) /\ v.txs = b.txs /\ v.failed = {} /\ ~v.oversize
  BY <1>4, <1>10, <1>11, UnwrapSound
<1>13. Alike(u.fsm, v.fsm)
  BY <1>11, <1>12, AlikeOrder
<1>14. PICK k : k = DistributeCommitteeRewards(v.fsm)
  OBVIOUS
<1>15. g.acc = k.acc /\ g.fees = k.fees
  BY <1>3, <1>13, <1>14, RewardsAlike DEF Alike
<1>16. /\ r.block = [height |-> h, txs |-> v.txs, root |-> [acc |-> k.acc, fees |-> k.fees]]
       /\ r.failed = v.failed /\ (r.error <=> v.oversize \/ Duplicate(b.txs, h))
  BY <1>9, <1>14, BlockOf
<1>17. ~Duplicate(b.txs, h)
  BY <1>1, <1>10, TakenDistinct DEF Duplicate, Distinct
<1>18. r.block = b /\ r.failed = {} /\ ~r.error
  BY <1>4, <1>12, <1>15, <1>16, <1>17
<1> QED
  BY <1>18 DEF Repeats

\* The state machine that has executed a block.
LEMMA RunMachine ==
  ASSUME NEW f, Machine(f), NEW s \in Seq(Txs), NEW h, NEW ix, NEW m, ~Run(f, s, h, ix, m).error
  PROVE  Machine(Run(f, s, h, ix, m).fsm)
<1>1. PICK p : p = Progress(f, s, h, ix, m)[Len(s)]
  OBVIOUS
<1>2. PICK u : u = ApplyTransactions(f, s, h, ix, m)
  OBVIOUS
<1>3. u = Unwrapped(p) /\ ~u.oversize /\ Run(f, s, h, ix, m).fsm = DistributeCommitteeRewards(u.fsm)
  BY <1>1, <1>2, BlockOf DEF ApplyTransactions
<1>4. IsLoop(p) /\ Len(s) \in Nat /\ Len(s) \in 0 .. Len(s)
  BY <1>1, ProgressFields
<1>5. ~p.oversize
  BY <1>3, <1>4 DEF Unwrapped, IsLoop, Fields
<1>6. Sound(p)
  BY <1>1, <1>5, Rebuilt DEF Match
<1>7. Alike(u.fsm, u.fsm)
  BY <1>3, <1>6, UnwrapSound, AlikeOrder
<1>8. Alike(DistributeCommitteeRewards(u.fsm), DistributeCommitteeRewards(u.fsm))
  BY <1>7, RewardsAlike
<1> QED
  BY <1>3, <1>8 DEF Alike

-----------------------------------------------------------------------------
(* The lists of the mempool. *)

\* A list of n functions on D, and what they lead to from d.
Steps(F, n, D) == F \in [1 .. n -> [D -> D]]
Leads(g, F, n, D, d) ==
  g \in [0 .. n -> D] /\ g[0] = d /\ \A i \in 1 .. n : g[i] = F[i][g[i - 1]]

\* A recursion over the first n numbers has a solution.
LEMMA Recursion ==
  ASSUME NEW D, NEW d \in D, NEW n \in Nat, NEW F, Steps(F, n, D)
  PROVE  \E g : Leads(g, F, n, D, d)
<1> USE DEF Steps, Leads
<1> DEFINE Solves(g, k) == Leads(g, F, k, D, d)
           S == {k \in Nat : k <= n => \E g : Solves(g, k)}
<1>1. 0 \in S
  <2>1. Solves([i \in 0 .. 0 |-> d], 0)
    OBVIOUS
  <2> QED
    BY <2>1
<1>2. ASSUME NEW k \in Nat, k \in S PROVE k + 1 \in S
  <2>1. SUFFICES ASSUME k + 1 <= n PROVE \E g : Solves(g, k + 1)
    OBVIOUS
  <2>2. PICK g : Solves(g, k)
    BY <1>2, <2>1
  <2>3. PICK e : e = F[k + 1][g[k]]
    OBVIOUS
  <2>4. e \in D
    <3>1. k + 1 \in 1 .. n /\ g[k] \in D
      BY <2>1, <2>2
    <3> QED
      BY <2>3, <3>1
  <2>5. PICK l : l = [i \in 0 .. k + 1 |-> IF i <= k THEN g[i] ELSE e]
    OBVIOUS
  <2>6. l \in [0 .. k + 1 -> D] /\ l[0] = d
    BY <2>2, <2>4, <2>5
  <2>7. ASSUME NEW i \in 1 .. k + 1 PROVE l[i] = F[i][l[i - 1]]
    <3>1. CASE i <= k
      <4>1. i \in 1 .. k /\ l[i] = g[i] /\ l[i - 1] = g[i - 1]
        BY <2>5, <3>1
      <4> QED
        BY <2>2, <4>1
    <3>2. CASE i = k + 1
      <4>1. l[i] = e /\ l[i - 1] = g[k]
        BY <2>5, <3>2
      <4> QED
        BY <2>3, <3>2, <4>1
    <3> QED
      BY <3>1, <3>2
  <2>8. Solves(l, k + 1)
    BY <2>6, <2>7
  <2> QED
    BY <2>8
<1> HIDE DEF S
<1>3. n \in S
  BY <1>1, <1>2, FromZero
<1>4. PICK g : Solves(g, n)
  BY <1>3 DEF S
<1> QED
  BY <1>4

\* One iteration of delete.
Spare(u, t, x) == IF t \in x THEN u ELSE Append(u, t)

IsRemaining(g, e, s, x, n) == g = [i \in 0 .. n |-> IF i = 0 THEN e ELSE Spare(g[i - 1], s[i], x)]

\* What is left of a list, transaction by transaction.
LEMMA RemainingSteps ==
  ASSUME NEW T, NEW s \in Seq(T), NEW x
  PROVE  /\ Remaining(s, x)[0] = <<>>
         /\ \A i \in 1 .. Len(s) : Remaining(s, x)[i] = Spare(Remaining(s, x)[i - 1], s[i], x)
         /\ \A i \in 0 .. Len(s) : Remaining(s, x)[i] \in Seq(T)
<1>1. PICK n : n = Len(s)
  OBVIOUS
<1>2. PICK D : D = Seq(T)
  OBVIOUS
<1>3. PICK e : e = <<>>
  OBVIOUS
<1>4. n \in Nat /\ \A i \in 1 .. n : s[i] \in T
  BY <1>1
<1>5. e \in D /\ \A u \in D : \A t \in T : Spare(u, t, x) \in D
  BY <1>2, <1>3 DEF Spare
<1> DEFINE r == CHOOSE g : IsRemaining(g, e, s, x, n)
           S == {i \in Nat : i <= n => r[i] \in D}
<1>6. Remaining(s, x) = r
  BY <1>1, <1>3 DEF Remaining, IsRemaining, Spare
<1>7. \E g : IsRemaining(g, e, s, x, n)
  <2>1. PICK F : F = [i \in 1 .. n |-> [u \in D |-> Spare(u, s[i], x)]]
    OBVIOUS
  <2>2. F \in [1 .. n -> [D -> D]]
    <3>1. ASSUME NEW i \in 1 .. n PROVE [u \in D |-> Spare(u, s[i], x)] \in [D -> D]
      <4>1. s[i] \in T
        BY <1>4
      <4> QED
        BY <1>5, <4>1
    <3> QED
      BY <2>1, <3>1
  <2>3. PICK g \in [0 .. n -> D] : g[0] = e /\ \A i \in 1 .. n : g[i] = F[i][g[i - 1]]
    <3>1. Steps(F, n, D)
      BY <2>2 DEF Steps
    <3>2. \E g : Leads(g, F, n, D, e)
      BY <1>4, <1>5, <3>1, Recursion
    <3> QED
      BY <3>2 DEF Leads
  <2>4. ASSUME NEW i \in 1 .. n PROVE g[i] = Spare(g[i - 1], s[i], x)
    <3>1. g[i - 1] \in D /\ g[i] = F[i][g[i - 1]]
      BY <1>4, <2>3
    <3> QED
      BY <2>1, <3>1
  <2>5. PICK k : k = [i \in 0 .. n |-> IF i = 0 THEN e ELSE Spare(g[i - 1], s[i], x)]
    OBVIOUS
  <2>6. \A i \in 0 .. n : g[i] = k[i]
    BY <1>4, <2>3, <2>4, <2>5
  <2>7. g = k
    BY <2>3, <2>5, <2>6
  <2> QED
    BY <2>5, <2>7 DEF IsRemaining
<1>8. IsRemaining(r, e, s, x, n)
  BY <1>7
<1> HIDE DEF r
<1>9. r[0] = e /\ \A i \in 1 .. n : r[i] = Spare(r[i - 1], s[i], x)
  BY <1>4, <1>8 DEF IsRemaining
<1>10. 0 \in S
  BY <1>4, <1>5, <1>9
<1>11. ASSUME NEW i \in Nat, i \in S PROVE i + 1 \in S
  <2>1. SUFFICES ASSUME i + 1 <= n PROVE r[i + 1] \in D
    OBVIOUS
  <2>2. r[i] \in D /\ i + 1 \in 1 .. n /\ (i + 1) - 1 = i
    BY <1>4, <1>11, <2>1
  <2> QED
    BY <1>4, <1>5, <1>9, <2>2
<1> HIDE DEF S
<1>12. \A i \in Nat : i \in S
  BY <1>10, <1>11, FromZero
<1>13. \A i \in 0 .. n : r[i] \in D
  BY <1>4, <1>12 DEF S
<1> QED
  BY <1>1, <1>2, <1>3, <1>6, <1>9, <1>13

LEMMA RemainingTxs == ASSUME NEW T, NEW s \in Seq(T), NEW x PROVE Without(s, x) \in Seq(T)
<1>1. Len(s) \in 0 .. Len(s)
  OBVIOUS
<1> QED
  BY <1>1, RemainingSteps DEF Without

\* Parts of a list.
LEMMA PartTxs ==
  ASSUME NEW T, NEW s \in Seq(T), NEW n \in 0 .. Len(s)
  PROVE  SubSeq(s, 1, n) \in Seq(T) /\ SubSeq(s, n + 1, Len(s)) \in Seq(T)
<1>1. Len(s) \in Nat /\ \A i \in 1 .. Len(s) : s[i] \in T
  OBVIOUS
<1>2. /\ 1 \in Int /\ n \in Int /\ n + 1 \in Int /\ Len(s) \in Int
      /\ \A i \in 1 .. n : s[i] \in T
      /\ \A i \in n + 1 .. Len(s) : s[i] \in T
  BY <1>1
<1> QED
  BY <1>2, SubSeqProperties

\* A transaction is put into a list of transactions.
LEMMA PlaceTxs == ASSUME NEW T, NEW s \in Seq(T), NEW t \in T PROVE Place(s, t) \in Seq(T)
<1>1. PICK P : P = {i \in DOMAIN s : StoredFee(s[i]) > StoredFee(t)}
  OBVIOUS
<1>2. Len(s) \in Nat /\ P \in SUBSET (1 .. Len(s)) /\ 1 \in Int /\ Len(s) \in Int
  BY <1>1
<1>3. IsFiniteSet(1 .. Len(s)) /\ Cardinality(1 .. Len(s)) = Len(s)
  <2>1. PICK n : n = Len(s)
    OBVIOUS
  <2>2. n \in Nat /\ n \in Int
    BY <1>2, <2>1
  <2>3. IsFiniteSet(1 .. n) /\ Cardinality(1 .. n) = IF 1 > n THEN 0 ELSE n - 1 + 1
    BY <2>2, FS_Interval
  <2>4. Cardinality(1 .. n) = n
    BY <2>2, <2>3
  <2> QED
    BY <2>1, <2>3, <2>4
<1>4. Cardinality(P) \in 0 .. Len(s)
  <2>1. IsFiniteSet(P) /\ Cardinality(P) <= Len(s)
    BY <1>2, <1>3, FS_Subset
  <2> QED
    BY <1>2, <2>1, FS_CardinalityType
<1>5. PICK n : n = Cardinality(P)
  OBVIOUS
<1>6. SubSeq(s, 1, n) \in Seq(T) /\ SubSeq(s, n + 1, Len(s)) \in Seq(T)
  BY <1>4, <1>5, PartTxs
<1>7. SubSeq(s, 1, n) \o <<t>> \o SubSeq(s, n + 1, Len(s)) \in Seq(T)
  BY <1>6
<1> QED
  BY <1>1, <1>5, <1>7 DEF Place

IsInserted(g, p, new, n) == g = [i \in 0 .. n |-> IF i = 0 THEN p ELSE Place(g[i - 1], new[i])]

\* So are the transactions of a batch.
LEMMA InsertedSteps ==
  ASSUME NEW T, NEW p \in Seq(T), NEW new \in Seq(T)
  PROVE  /\ Inserted(p, new)[0] = p
         /\ \A i \in 1 .. Len(new) : Inserted(p, new)[i] = Place(Inserted(p, new)[i - 1], new[i])
         /\ \A i \in 0 .. Len(new) : Inserted(p, new)[i] \in Seq(T)
<1>1. PICK n : n = Len(new)
  OBVIOUS
<1>2. PICK D : D = Seq(T)
  OBVIOUS
<1>3. n \in Nat /\ \A i \in 1 .. n : new[i] \in T
  BY <1>1
<1>4. p \in D /\ \A u \in D : \A t \in T : Place(u, t) \in D
  BY <1>2, PlaceTxs
<1> DEFINE r == CHOOSE g : IsInserted(g, p, new, n)
           S == {i \in Nat : i <= n => r[i] \in D}
<1>5. Inserted(p, new) = r
  BY <1>1 DEF Inserted, IsInserted
<1>6. \E g : IsInserted(g, p, new, n)
  <2>1. PICK F : F = [i \in 1 .. n |-> [u \in D |-> Place(u, new[i])]]
    OBVIOUS
  <2>2. ASSUME NEW i \in 1 .. n PROVE [u \in D |-> Place(u, new[i])] \in [D -> D]
    <3>1. new[i] \in T
      BY <1>3
    <3> QED
      BY <1>4, <3>1
  <2>3. Steps(F, n, D)
    BY <2>1, <2>2 DEF Steps
  <2>4. PICK g : Leads(g, F, n, D, p)
    BY <1>3, <1>4, <2>3, Recursion
  <2>5. ASSUME NEW i \in 1 .. n PROVE g[i] = Place(g[i - 1], new[i])
    <3>1. g[i - 1] \in D /\ g[i] = F[i][g[i - 1]]
      BY <1>3, <2>4 DEF Leads
    <3> QED
      BY <2>1, <3>1
  <2>6. PICK k : k = [i \in 0 .. n |-> IF i = 0 THEN p ELSE Place(g[i - 1], new[i])]
    OBVIOUS
  <2>7. \A i \in 0 .. n : g[i] = k[i]
    BY <1>3, <2>4, <2>5, <2>6 DEF Leads
  <2>8. g = k
    BY <2>4, <2>6, <2>7 DEF Leads
  <2> QED
    BY <2>6, <2>8 DEF IsInserted
<1>7. IsInserted(r, p, new, n)
  BY <1>6
<1> HIDE DEF r
<1>8. r[0] = p /\ \A i \in 1 .. n : r[i] = Place(r[i - 1], new[i])
  BY <1>3, <1>7 DEF IsInserted
<1>9. 0 \in S
  BY <1>3, <1>4, <1>8
<1>10. ASSUME NEW i \in Nat, i \in S PROVE i + 1 \in S
  <2>1. SUFFICES ASSUME i + 1 <= n PROVE r[i + 1] \in D
    OBVIOUS
  <2>2. r[i] \in D /\ i + 1 \in 1 .. n /\ (i + 1) - 1 = i
    BY <1>3, <1>10, <2>1
  <2> QED
    BY <1>3, <1>4, <1>8, <2>2
<1> HIDE DEF S
<1>11. \A i \in Nat : i \in S
  BY <1>9, <1>10, FromZero
<1>12. \A i \in 0 .. n : r[i] \in D
  BY <1>3, <1>11 DEF S
<1> QED
  BY <1>1, <1>2, <1>5, <1>8, <1>12

LEMMA InsertTxs == ASSUME NEW T, NEW p \in Seq(T), NEW new \in Seq(T) PROVE insert(p, new) \in Seq(T)
<1>1. Len(new) \in 0 .. Len(new)
  OBVIOUS
<1> QED
  BY <1>1, InsertedSteps DEF insert

IsKept(g, p, z, n) ==
  g = [i \in 0 .. n |-> IF i > 0 /\ Overfull(p, z, i) THEN g[i - numDrop(i)] ELSE i]

\* Something is dropped, and no more than there is.
LEMMA Drops == ASSUME NEW n \in Nat, n > 0 PROVE n - numDrop(n) \in 0 .. n - 1
<1>1. PICK d : d = (n * DropPercentage) \div 100
  OBVIOUS
<1>2. n * DropPercentage \in Nat
  BY PoolAssumption
<1>3. d \in Nat
  BY <1>1, <1>2
<1> QED
  BY <1>1, <1>3 DEF numDrop

\* The loop that drops ends, with some number of the transactions.
LEMMA KeptSome ==
  ASSUME NEW p, Len(p) \in Nat, NEW z
  PROVE  Kept(p, z) \in 0 .. Len(p)
<1> DEFINE S == {n \in Nat : \E g : IsKept(g, p, z, n)}
           r == CHOOSE g : IsKept(g, p, z, Len(p))
           T == {n \in Nat : n <= Len(p) => \A i \in 0 .. n : r[i] \in 0 .. i}
<1>1. 0 \in S
  <2>1. IsKept([i \in 0 .. 0 |-> 0], p, z, 0)
    BY DEF IsKept
  <2> QED
    BY <2>1
<1>2. ASSUME NEW n \in Nat, n \in S PROVE n + 1 \in S
  <2>1. PICK g : IsKept(g, p, z, n)
    BY <1>2
  <2>2. PICK k : k = [i \in 0 .. n + 1 |->
                        IF i <= n THEN g[i]
                        ELSE IF Overfull(p, z, i) THEN g[i - numDrop(i)] ELSE i]
    OBVIOUS
  <2>3. PICK l : l = [i \in 0 .. n + 1 |-> IF i > 0 /\ Overfull(p, z, i) THEN k[i - numDrop(i)] ELSE i]
    OBVIOUS
  <2>4. ASSUME NEW i \in 0 .. n + 1 PROVE k[i] = l[i]
    <3>1. i > 0 => i - numDrop(i) \in 0 .. n
      BY Drops
    <3>2. i > 0 => k[i - numDrop(i)] = g[i - numDrop(i)]
      BY <2>2, <3>1
    <3>3. CASE i <= n
      <4>1. g[i] = IF i > 0 /\ Overfull(p, z, i) THEN g[i - numDrop(i)] ELSE i
        BY <2>1, <3>3 DEF IsKept
      <4> QED
        BY <2>2, <2>3, <3>2, <3>3, <4>1
    <3>4. CASE i = n + 1
      BY <2>2, <2>3, <3>2, <3>4
    <3> QED
      BY <3>3, <3>4
  <2>5. k = l
    BY <2>2, <2>3, <2>4
  <2>6. IsKept(k, p, z, n + 1)
    BY <2>3, <2>5 DEF IsKept
  <2> QED
    BY <2>6
<1> HIDE DEF S
<1>3. Len(p) \in S
  BY <1>1, <1>2, FromZero
<1>4. IsKept(r, p, z, Len(p))
  BY <1>3 DEF S
<1>5. Kept(p, z) = r[Len(p)]
  BY DEF Kept, IsKept
<1> HIDE DEF r
<1>6. \A i \in 0 .. Len(p) : r[i] = IF i > 0 /\ Overfull(p, z, i) THEN r[i - numDrop(i)] ELSE i
  BY <1>4 DEF IsKept
<1>7. 0 \in T
  BY <1>6
<1>8. ASSUME NEW n \in Nat, n \in T PROVE n + 1 \in T
  <2>1. SUFFICES ASSUME n + 1 <= Len(p), NEW i \in 0 .. n + 1 PROVE r[i] \in 0 .. i
    OBVIOUS
  <2>2. CASE i <= n
    BY <1>8, <2>1, <2>2
  <2>3. CASE i = n + 1
    <3>1. i - numDrop(i) \in 0 .. n
      BY <2>3, Drops
    <3>2. r[i - numDrop(i)] \in 0 .. n
      BY <1>8, <2>1, <3>1
    <3>3. r[i] = IF i > 0 /\ Overfull(p, z, i) THEN r[i - numDrop(i)] ELSE i
      BY <1>6, <2>1
    <3> QED
      BY <2>3, <3>2, <3>3
  <2> QED
    BY <2>2, <2>3
<1> HIDE DEF T
<1>9. Len(p) \in T
  BY <1>7, <1>8, FromZero
<1> QED
  BY <1>5, <1>9 DEF T

\* AddTransactions keeps a list of transactions.
LEMMA AddTxs ==
  ASSUME NEW p \in Seq(Txs), NEW z, NEW batch \in Seq(Txs)
  PROVE  AddTransactions(p, z, batch).pool \in Seq(Txs)
<1> DEFINE refuse(t) == \/ Tx[t].size > IndividualMaxTxSize
                        \/ t \notin ToSet(p) /\ t \in IllFormed
           B == {i \in DOMAIN batch : refuse(batch[i])}
           k == IF B = {} THEN Len(batch) ELSE Min(B) - 1
<1>1. Accepted(p, batch) = SubSeq(batch, 1, k)
  BY DEF Accepted
<1>2. Len(batch) \in Nat /\ B \subseteq 1 .. Len(batch)
  OBVIOUS
<1> HIDE DEF B
<1>3. k \in 0 .. Len(batch)
  <2>1. ASSUME B # {} PROVE Min(B) \in B
    <3>1. B \subseteq Nat
      BY <1>2
    <3>2. \E i \in B : \A j \in B : i <= j
      BY <2>1, <3>1, NatMin
    <3> QED
      BY <3>2 DEF Min
  <2>2. CASE B = {}
    BY <1>2, <2>2
  <2>3. CASE B # {}
    <3>1. Min(B) \in 1 .. Len(batch)
      BY <1>2, <2>1, <2>3
    <3> QED
      BY <2>3, <3>1
  <2> QED
    BY <2>2, <2>3
<1> HIDE DEF k
<1>4. Accepted(p, batch) \in Seq(Txs)
  BY <1>1, <1>3, PartTxs
<1>5. PICK new : new = Without(Accepted(p, batch), ToSet(p))
  OBVIOUS
<1>6. new \in Seq(Txs)
  BY <1>4, <1>5, RemainingTxs
<1>7. PICK all : all = insert(p, new)
  OBVIOUS
<1>8. all \in Seq(Txs) /\ Len(all) \in Nat
  BY <1>6, <1>7, InsertTxs
<1>9. PICK n : n = Kept(all, z + Bytes(new))
  OBVIOUS
<1>10. SubSeq(all, 1, n) \in Seq(Txs)
  BY <1>8, <1>9, KeptSome, PartTxs
<1>11. AddTransactions(p, z, batch).pool \in {p, SubSeq(all, 1, n)}
  BY <1>5, <1>7, <1>9 DEF AddTransactions
<1> QED
  BY <1>10, <1>11

\* A block of the mempool, whether everything fitted or not.
LEMMA PooledTxs ==
  ASSUME NEW f, NEW s \in Seq(Txs), NEW h, NEW ix, NEW m, NEW c
  PROVE  Pooled(f, s, h, ix, m, c).block.txs \in Seq(Txs)
<1>1. PICK p : p = Progress(f, s, h, ix, m)[Len(s)]
  OBVIOUS
<1>2. PICK X : X = NewOnes(s, ix)
  OBVIOUS
<1>3. Len(s) \in Nat /\ Len(s) \in 0 .. Len(s) /\ X \subseteq Txs
  BY <1>2 DEF NewOnes
<1>4. IsLoop(p) /\ p.txs \in Seq(X)
  BY <1>1, <1>2, <1>3, ProgressFields
<1>5. PICK u : u = ApplyTransactions(f, s, h, ix, m)
  OBVIOUS
<1>6. u.txs = p.txs
  BY <1>1, <1>4, <1>5 DEF ApplyTransactions, Unwrapped, IsLoop, Fields
<1>7. PICK g : g = DistributeCommitteeRewards(u.fsm)
  OBVIOUS
<1>8. Pooled(f, s, h, ix, m, c).block = [height |-> h, txs |-> u.txs, root |-> [acc |-> g.acc, fees |-> g.fees]]
  BY <1>5, <1>7, BlockOf
<1>9. Pooled(f, s, h, ix, m, c).block.txs = u.txs
  BY <1>8
<1> QED
  BY <1>3, <1>4, <1>6, <1>9

-----------------------------------------------------------------------------
(* Balances. *)

\* A state machine whose balances, in the store and in the cache, are amounts.
Funded(f) ==
  /\ f = [acc |-> f.acc, fees |-> f.fees, cache |-> f.cache]
  /\ f.acc \in [Accounts -> Nat] /\ f.fees \in Nat
  /\ \A a \in DOMAIN f.cache : a \in Accounts /\ f.cache[a] \in Nat

\* What is read is an amount.
LEMMA FundedReads == ASSUME NEW f, Funded(f), NEW a \in Accounts PROVE GetAccount(f, a) \in Nat
BY DEF Funded, GetAccount

\* What is written is read again.
LEMMA FundedSet ==
  ASSUME NEW f, Funded(f), NEW a \in Accounts, NEW x \in Nat
  PROVE  /\ Funded(SetAccount(f, a, x)) /\ GetAccount(SetAccount(f, a, x), a) = x
         /\ SetAccount(f, a, x).fees = f.fees
<1>1. PICK c : c = [y \in DOMAIN f.cache \cup {a} |-> IF y = a THEN x ELSE f.cache[y]]
  OBVIOUS
<1>2. PICK s : s = [f.acc EXCEPT ![a] = x]
  OBVIOUS
<1>3. SetAccount(f, a, x) = [f EXCEPT !.acc = s, !.cache = c]
  BY <1>1, <1>2 DEF SetAccount
<1>4. f = [acc |-> f.acc, fees |-> f.fees, cache |-> f.cache]
  BY DEF Funded
<1>5. PICK k : k = [f EXCEPT !.acc = s]
  OBVIOUS
<1>6. k = [acc |-> s, fees |-> f.fees, cache |-> f.cache]
  BY <1>4, <1>5
<1>7. [k EXCEPT !.cache = c] = [acc |-> s, fees |-> f.fees, cache |-> c]
  BY <1>6
<1>8. PICK g : g = [acc |-> s, fees |-> f.fees, cache |-> c]
  OBVIOUS
<1>9. SetAccount(f, a, x) = g
  BY <1>3, <1>5, <1>7, <1>8
<1>10. s \in [Accounts -> Nat] /\ f.fees \in Nat
  BY <1>2 DEF Funded
<1>11. \A b \in DOMAIN c : b \in Accounts /\ c[b] \in Nat
  BY <1>1 DEF Funded
<1>12. Funded(g)
  BY <1>8, <1>10, <1>11 DEF Funded
<1>13. a \in DOMAIN g.cache /\ g.cache[a] = x /\ g.fees = f.fees
  BY <1>1, <1>8
<1> QED
  BY <1>9, <1>12, <1>13 DEF GetAccount

\* Amounts are added, and subtracted from accounts that have them.
LEMMA FundedAmounts ==
  ASSUME NEW f, Funded(f), NEW a \in Accounts, NEW x \in Nat
  PROVE  /\ Funded(AccountAdd(f, a, x))
         /\ x <= GetAccount(f, a) =>
              /\ Funded(AccountSub(f, a, x))
              /\ GetAccount(AccountSub(f, a, x), a) = GetAccount(f, a) - x
              /\ AccountSub(f, a, x).fees = f.fees
<1>1. PICK y : y = GetAccount(f, a)
  OBVIOUS
<1>2. y \in Nat
  BY <1>1, FundedReads
<1>3. CASE x = 0
  BY <1>1, <1>2, <1>3 DEF AccountAdd, AccountSub
<1>4. CASE x # 0
  <2>1. AccountAdd(f, a, x) = SetAccount(f, a, y + x) /\ AccountSub(f, a, x) = SetAccount(f, a, y - x)
    BY <1>1, <1>4 DEF AccountAdd, AccountSub
  <2>2. y + x \in Nat /\ (x <= y => y - x \in Nat)
    BY <1>2
  <2>3. PICK u, v : u = y + x /\ v = y - x
    OBVIOUS
  <2>4. Funded(SetAccount(f, a, u))
    BY <2>2, <2>3, FundedSet
  <2>5. x <= y => /\ Funded(SetAccount(f, a, v)) /\ GetAccount(SetAccount(f, a, v), a) = v
                  /\ SetAccount(f, a, v).fees = f.fees
    BY <2>2, <2>3, FundedSet
  <2> QED
    BY <1>1, <2>1, <2>3, <2>4, <2>5
<1> QED
  BY <1>3, <1>4

\* The fees that are waiting.
LEMMA FundedFees ==
  ASSUME NEW f, Funded(f), NEW x \in Nat
  PROVE  Funded([f EXCEPT !.fees = x]) /\ \A a : GetAccount([f EXCEPT !.fees = x], a) = GetAccount(f, a)
<1>1. PICK g : g = [f EXCEPT !.fees = x]
  OBVIOUS
<1>2. g = [acc |-> f.acc, fees |-> x, cache |-> f.cache]
  BY <1>1 DEF Funded
<1>3. Funded(g) /\ \A a : GetAccount(g, a) = GetAccount(f, a)
  BY <1>2 DEF Funded, GetAccount
<1> QED
  BY <1>1, <1>3

\* A transaction is applied to accounts that can pay for it.
LEMMA FundedTransaction ==
  ASSUME NEW f, Funded(f), NEW t \in Txs, NEW h, NEW ix, NEW m, Applies(f, t, h, ix, m)
  PROVE  Funded(ApplyTransaction(f, t))
<1>1. PICK a, d : a = Tx[t].from /\ d = Tx[t].to
  OBVIOUS
<1>2. PICK x, y : x = Tx[t].amount /\ y = Tx[t].fee
  OBVIOUS
<1>3. a \in Accounts /\ d \in Accounts
  BY <1>1, ControllerAssumption
<1>4. x \in Nat /\ y \in Nat
  BY <1>2, PoolAssumption
<1>5. PICK v : v = GetAccount(f, a)
  OBVIOUS
<1>6. v \in Nat /\ v >= y + x
  BY <1>1, <1>2, <1>3, <1>5, FundedReads DEF Applies
<1>7. PICK f1 : f1 = AccountSub(f, a, y)
  OBVIOUS
<1>8. Funded(f1) /\ GetAccount(f1, a) = v - y /\ f1.fees = f.fees
  BY <1>3, <1>4, <1>5, <1>6, <1>7, FundedAmounts
<1>9. PICK z : z = f1.fees + y
  OBVIOUS
<1>10. z \in Nat
  BY <1>4, <1>8, <1>9 DEF Funded
<1>11. PICK f2 : f2 = [f1 EXCEPT !.fees = z]
  OBVIOUS
<1>12. Funded(f2) /\ GetAccount(f2, a) = v - y
  BY <1>8, <1>10, <1>11, FundedFees
<1>13. f2 = AccountDeductFees(f, a, y)
  <2>1. f1 = [acc |-> f1.acc, fees |-> f1.fees, cache |-> f1.cache]
    BY <1>8 DEF Funded
  <2> QED
    BY <1>7, <1>9, <1>11, <2>1 DEF AccountDeductFees
<1>14. PICK f3 : f3 = AccountSub(f2, a, x)
  OBVIOUS
<1>15. Funded(f3)
  BY <1>3, <1>4, <1>6, <1>12, <1>14, FundedAmounts
<1>16. Funded(AccountAdd(f3, d, x))
  BY <1>3, <1>4, <1>15, FundedAmounts
<1> QED
  BY <1>1, <1>2, <1>13, <1>14, <1>16 DEF ApplyTransaction

\* A cache that another state machine left, as after the wrapper of the store goes.
LEMMA FundedCache ==
  ASSUME NEW f, Funded(f), NEW g, Funded(g)
  PROVE  Funded([f EXCEPT !.cache = g.cache]) /\ Funded([f EXCEPT !.cache = NoCache])
<1>1. f = [acc |-> f.acc, fees |-> f.fees, cache |-> f.cache]
  BY DEF Funded
<1>2. PICK j, k : j = [f EXCEPT !.cache = g.cache] /\ k = [f EXCEPT !.cache = NoCache]
  OBVIOUS
<1>3. j = [acc |-> f.acc, fees |-> f.fees, cache |-> g.cache]
  BY <1>1, <1>2
<1>4. k = [acc |-> f.acc, fees |-> f.fees, cache |-> NoCache]
  BY <1>1, <1>2
<1>5. Funded(j)
  BY <1>3 DEF Funded
<1>6. Funded(k)
  BY <1>4 DEF Funded, NoCache
<1> QED
  BY <1>2, <1>5, <1>6

\* The rewards.
LEMMA FundedRewards == ASSUME NEW f, Funded(f) PROVE Funded(DistributeCommitteeRewards(f))
<1>1. PICK x : x = f.fees
  OBVIOUS
<1>2. x \in Nat
  BY <1>1 DEF Funded
<1>3. PICK g : g = AccountAdd(f, Recipient, x)
  OBVIOUS
<1>4. Funded(g)
  BY <1>2, <1>3, FundedAmounts, ControllerAssumption
<1>5. Funded([g EXCEPT !.fees = 0])
  BY <1>4, FundedFees
<1> QED
  BY <1>1, <1>3, <1>5 DEF DistributeCommitteeRewards

\* The loop over the transactions.
FundedLoop(q) == IsLoop(q) /\ Funded(q.fsm) /\ Funded(q.base) /\ q.oversize \in BOOLEAN

LEMMA StepValues ==
  ASSUME NEW q, IsLoop(q), NEW t, NEW h, NEW ix, NEW m
  PROVE  /\ Step(q, t, h, ix, m).oversize \in BOOLEAN
         /\ Applies(q.fsm, t, h, ix, m) =>
              /\ Step(q, t, h, ix, m).fsm = ApplyTransaction(q.fsm, t)
              /\ Step(q, t, h, ix, m).base \in {q.base, ApplyTransaction(q.fsm, t)}
<1> DEFINE o == TooBig(q, t, h)
           no == [q EXCEPT !.failed = @ \cup {t}, !.oversize = o,
                           !.fsm = IF CheckTx(t, h) THEN Rollback(@, t) ELSE @]
           yes == [q EXCEPT !.fsm = ApplyTransaction(@, t), !.oversize = o,
                            !.txs = IF o THEN @ ELSE Append(@, t),
                            !.size = IF o THEN @ ELSE @ + Tx[t].size,
                            !.base = IF o THEN @ ELSE ApplyTransaction(q.fsm, t)]
<1>1. Step(q, t, h, ix, m) = IF ~Applies(q.fsm, t, h, ix, m) THEN no ELSE yes
  BY DEF Step, TooBig
<1>2. DOMAIN q = Fields
  BY DEF IsLoop
<1>3. o \in BOOLEAN
  BY DEF TooBig
<1> HIDE DEF o
<1>4. no.oversize = o
  BY <1>2 DEF Fields
<1>5. /\ yes.oversize = o /\ yes.fsm = ApplyTransaction(q.fsm, t)
      /\ yes.base \in {q.base, ApplyTransaction(q.fsm, t)}
  BY <1>2 DEF Fields
<1> HIDE DEF no, yes
<1> QED
  BY <1>1, <1>3, <1>4, <1>5

LEMMA StepFunded ==
  ASSUME NEW q, FundedLoop(q), NEW t \in Txs, NEW h, NEW ix, NEW m
  PROVE  FundedLoop(Step(q, t, h, ix, m))
<1>1. IsLoop(q) /\ Funded(q.fsm) /\ Funded(q.base)
  BY DEF FundedLoop
<1>2. PICK r : r = Step(q, t, h, ix, m)
  OBVIOUS
<1>3. IsLoop(r) /\ r.oversize \in BOOLEAN
  BY <1>1, <1>2, StepFields, StepValues
<1>4. CASE Applies(q.fsm, t, h, ix, m)
  <2>1. r.fsm = ApplyTransaction(q.fsm, t) /\ r.base \in {q.base, ApplyTransaction(q.fsm, t)}
    BY <1>1, <1>2, <1>4, StepValues
  <2>2. Funded(ApplyTransaction(q.fsm, t))
    BY <1>1, <1>4, FundedTransaction
  <2> QED
    BY <1>1, <1>2, <1>3, <2>1, <2>2 DEF FundedLoop
<1>5. CASE ~Applies(q.fsm, t, h, ix, m)
  <2>1. r.fsm \in {q.fsm, Rollback(q.fsm, t)} /\ r.base = q.base
    BY <1>1, <1>2, <1>5, StepParts
  <2>2. Funded(Rollback(q.fsm, t))
    BY <1>1, FundedCache DEF Rollback
  <2> QED
    BY <1>1, <1>2, <1>3, <2>1, <2>2 DEF FundedLoop
<1> QED
  BY <1>4, <1>5

LEMMA ProgressFunded ==
  ASSUME NEW f, Funded(f), NEW s \in Seq(Txs), NEW h, NEW ix, NEW m
  PROVE  FundedLoop(Progress(f, s, h, ix, m)[Len(s)])
<1> DEFINE n == Len(s)
           p == Progress(f, s, h, ix, m)
           S == {i \in Nat : i <= n => FundedLoop(p[i])}
<1>1. n \in Nat /\ \A i \in 1 .. n : s[i] \in Txs
  OBVIOUS
<1>2. p[0] = Start(f) /\ \A i \in 1 .. n : p[i] = Step(p[i - 1], s[i], h, ix, m)
  BY <1>1, ProgressSteps
<1> HIDE DEF n, p
<1>3. 0 \in S
  <2>1. IsLoop(Start(f)) /\ Start(f).fsm = f /\ Start(f).base = f /\ Start(f).oversize \in BOOLEAN
    BY DEF Start, IsLoop, Fields
  <2> QED
    BY <1>2, <2>1 DEF FundedLoop
<1>4. ASSUME NEW i \in Nat, i \in S PROVE i + 1 \in S
  <2>1. SUFFICES ASSUME i + 1 <= n PROVE FundedLoop(p[i + 1])
    OBVIOUS
  <2>2. PICK q, t : q = p[i] /\ t = s[i + 1]
    OBVIOUS
  <2>3. t \in Txs /\ p[i + 1] = Step(q, t, h, ix, m) /\ FundedLoop(q)
    BY <1>1, <1>2, <1>4, <2>1, <2>2
  <2> QED
    BY <2>3, StepFunded
<1> HIDE DEF S
<1>5. n \in S
  BY <1>1, <1>3, <1>4, FromZero
<1> QED
  BY <1>1, <1>5 DEF S, n, p

\* The block that ApplyBlock returns, and the state machine it leaves.
LEMMA BlockTyped ==
  ASSUME NEW f, Funded(f), NEW s \in Seq(Txs), NEW h \in Nat, NEW ix, NEW m
  PROVE  /\ Run(f, s, h, ix, m).block \in Block /\ Funded(Run(f, s, h, ix, m).fsm)
         /\ \A c : Pooled(f, s, h, ix, m, c).block \in Block /\ Pooled(f, s, h, ix, m, c).oversize \in BOOLEAN
<1>1. PICK p : p = Progress(f, s, h, ix, m)[Len(s)]
  OBVIOUS
<1>2. FundedLoop(p)
  BY <1>1, ProgressFunded
<1>3. PICK u : u = ApplyTransactions(f, s, h, ix, m)
  OBVIOUS
<1>4. PICK k : k = [p.base EXCEPT !.cache = p.fsm.cache]
  OBVIOUS
<1>5. Funded(k)
  BY <1>2, <1>4, FundedCache DEF FundedLoop
<1>6. u = [p EXCEPT !.fsm = k]
  BY <1>1, <1>3, <1>4 DEF ApplyTransactions, Unwrapped
<1>7. u.fsm = k /\ u.oversize = p.oversize
  BY <1>2, <1>6 DEF FundedLoop, IsLoop, Fields
<1>8. PICK g : g = DistributeCommitteeRewards(u.fsm)
  OBVIOUS
<1>9. Funded(g)
  BY <1>5, <1>7, <1>8, FundedRewards
<1>10. PICK b : b = [height |-> h, txs |-> u.txs, root |-> [acc |-> g.acc, fees |-> g.fees]]
  OBVIOUS
<1>11. Run(f, s, h, ix, m).block = b /\ Run(f, s, h, ix, m).fsm = g
  BY <1>3, <1>8, <1>10, BlockOf
<1>12. ASSUME NEW c PROVE Pooled(f, s, h, ix, m, c).block = b /\ Pooled(f, s, h, ix, m, c).oversize = u.oversize
  BY <1>3, <1>8, <1>10 DEF ApplyBlock, Pooled
<1>13. b.txs \in Seq(Txs)
  <2>1. PICK c : c = FALSE
    OBVIOUS
  <2>2. Pooled(f, s, h, ix, m, c).block.txs \in Seq(Txs)
    BY PooledTxs
  <2> QED
    BY <1>12, <2>2
<1>14. b \in Block
  <2>1. u.txs \in Seq(Txs) /\ g.acc \in [Accounts -> Nat] /\ g.fees \in Nat
    BY <1>9, <1>10, <1>13 DEF Funded
  <2> QED
    BY <1>10, <2>1 DEF Block
<1>15. u.oversize \in BOOLEAN
  BY <1>2, <1>7 DEF FundedLoop
<1> QED
  BY <1>9, <1>11, <1>12, <1>14, <1>15

-----------------------------------------------------------------------------
(* The bytes of the pool. *)

IsTotals(g, s, n) == g = [i \in 0 .. n |-> IF i = 0 THEN 0 ELSE g[i - 1] + Tx[s[i]].size]

\* They are added up transaction by transaction.
LEMMA TotalsSteps ==
  ASSUME NEW s \in Seq(Txs)
  PROVE  /\ Totals(s)[0] = 0
         /\ \A i \in 1 .. Len(s) : Totals(s)[i] = Totals(s)[i - 1] + Tx[s[i]].size
         /\ \A i \in 0 .. Len(s) : Totals(s)[i] \in Nat
         /\ \A i \in 1 .. Len(s) : Tx[s[i]].size \in Nat
<1>1. PICK n : n = Len(s)
  OBVIOUS
<1>2. n \in Nat /\ \A i \in 1 .. n : s[i] \in Txs
  BY <1>1
<1>3. \A i \in 1 .. n : Tx[s[i]].size \in Nat
  BY <1>2, PoolAssumption
<1> DEFINE r == CHOOSE g : IsTotals(g, s, n)
           S == {i \in Nat : i <= n => r[i] \in Nat}
<1>4. Totals(s) = r
  BY <1>1 DEF Totals, IsTotals
<1>5. \E g : IsTotals(g, s, n)
  <2>1. PICK F : F = [i \in 1 .. n |-> [u \in Nat |-> u + Tx[s[i]].size]]
    OBVIOUS
  <2>2. ASSUME NEW i \in 1 .. n PROVE [u \in Nat |-> u + Tx[s[i]].size] \in [Nat -> Nat]
    <3>1. Tx[s[i]].size \in Nat
      BY <1>3
    <3> QED
      BY <3>1
  <2>3. Steps(F, n, Nat)
    BY <2>1, <2>2 DEF Steps
  <2>4. PICK e : e = 0
    OBVIOUS
  <2>5. PICK g : Leads(g, F, n, Nat, e)
    BY <1>2, <2>3, <2>4, Recursion
  <2>6. ASSUME NEW i \in 1 .. n PROVE g[i] = g[i - 1] + Tx[s[i]].size
    <3>1. g[i - 1] \in Nat /\ g[i] = F[i][g[i - 1]]
      BY <1>2, <2>5 DEF Leads
    <3> QED
      BY <2>1, <3>1
  <2>7. PICK k : k = [i \in 0 .. n |-> IF i = 0 THEN 0 ELSE g[i - 1] + Tx[s[i]].size]
    OBVIOUS
  <2>8. \A i \in 0 .. n : g[i] = k[i]
    BY <1>2, <2>4, <2>5, <2>6, <2>7 DEF Leads
  <2>9. g = k
    BY <2>5, <2>7, <2>8 DEF Leads
  <2> QED
    BY <2>7, <2>9 DEF IsTotals
<1>6. IsTotals(r, s, n)
  BY <1>5
<1> HIDE DEF r
<1>7. r[0] = 0 /\ \A i \in 1 .. n : r[i] = r[i - 1] + Tx[s[i]].size
  BY <1>2, <1>6 DEF IsTotals
<1>8. 0 \in S
  BY <1>7
<1>9. ASSUME NEW i \in Nat, i \in S PROVE i + 1 \in S
  <2>1. SUFFICES ASSUME i + 1 <= n PROVE r[i + 1] \in Nat
    OBVIOUS
  <2>2. r[i] \in Nat /\ i + 1 \in 1 .. n /\ (i + 1) - 1 = i
    BY <1>2, <1>9, <2>1
  <2>3. r[i + 1] = r[i] + Tx[s[i + 1]].size /\ Tx[s[i + 1]].size \in Nat
    BY <1>3, <1>7, <2>2
  <2> QED
    BY <2>2, <2>3
<1> HIDE DEF S
<1>10. \A i \in Nat : i \in S
  BY <1>8, <1>9, FromZero
<1>11. \A i \in 0 .. n : r[i] \in Nat
  BY <1>2, <1>10 DEF S
<1> QED
  BY <1>1, <1>3, <1>4, <1>7, <1>11

\* The bytes of two lists.
LEMMA BytesConcat ==
  ASSUME NEW a \in Seq(Txs), NEW b \in Seq(Txs)
  PROVE  Bytes(a) \in Nat /\ Bytes(b) \in Nat /\ Bytes(a \o b) = Bytes(a) + Bytes(b)
<1>1. PICK c, k, l : c = a \o b /\ k = Len(a) /\ l = Len(b)
  OBVIOUS
<1>2. /\ c \in Seq(Txs) /\ k \in Nat /\ l \in Nat /\ Len(c) = k + l
      /\ \A i \in 1 .. k : c[i] = a[i]
      /\ \A i \in 1 .. l : c[k + i] = b[i]
  BY <1>1
<1>3. PICK A, B, C : A = Totals(a) /\ B = Totals(b) /\ C = Totals(c)
  OBVIOUS
<1>4. /\ A[0] = 0 /\ \A i \in 1 .. k : A[i] = A[i - 1] + Tx[a[i]].size /\ Tx[a[i]].size \in Nat
      /\ \A i \in 0 .. k : A[i] \in Nat
  BY <1>1, <1>3, TotalsSteps
<1>5. /\ B[0] = 0 /\ \A i \in 1 .. l : B[i] = B[i - 1] + Tx[b[i]].size /\ Tx[b[i]].size \in Nat
      /\ \A i \in 0 .. l : B[i] \in Nat
  BY <1>1, <1>3, TotalsSteps
<1>6. C[0] = 0 /\ \A i \in 1 .. k + l : C[i] = C[i - 1] + Tx[c[i]].size
  BY <1>2, <1>3, TotalsSteps
<1> DEFINE S == {i \in Nat : i <= k => C[i] = A[i]}
           T == {i \in Nat : i <= l => C[k + i] = A[k] + B[i]}
<1>7. k \in S
  <2>1. 0 \in S
    BY <1>4, <1>6
  <2>2. ASSUME NEW i \in Nat, i \in S PROVE i + 1 \in S
    <3>1. SUFFICES ASSUME i + 1 <= k PROVE C[i + 1] = A[i + 1]
      OBVIOUS
    <3>2. i + 1 \in 1 .. k /\ i + 1 \in 1 .. k + l /\ (i + 1) - 1 = i /\ C[i] = A[i]
      BY <1>2, <2>2, <3>1
    <3>3. C[i + 1] = C[i] + Tx[c[i + 1]].size /\ A[i + 1] = A[i] + Tx[a[i + 1]].size /\ c[i + 1] = a[i + 1]
      BY <1>2, <1>4, <1>6, <3>2
    <3> QED
      BY <3>2, <3>3
  <2> HIDE DEF S
  <2> QED
    BY <1>2, <2>1, <2>2, FromZero
<1>8. C[k] = A[k] /\ A[k] \in Nat
  BY <1>2, <1>4, <1>7
<1>9. l \in T
  <2>1. 0 \in T
    BY <1>2, <1>5, <1>8
  <2>2. ASSUME NEW i \in Nat, i \in T PROVE i + 1 \in T
    <3>1. SUFFICES ASSUME i + 1 <= l PROVE C[k + (i + 1)] = A[k] + B[i + 1]
      OBVIOUS
    <3>2. /\ i + 1 \in 1 .. l /\ k + (i + 1) \in 1 .. k + l /\ (k + (i + 1)) - 1 = k + i /\ (i + 1) - 1 = i
          /\ C[k + i] = A[k] + B[i] /\ i \in 0 .. l
      BY <1>2, <2>2, <3>1
    <3>3. C[k + (i + 1)] = C[k + i] + Tx[c[k + (i + 1)]].size
      BY <1>6, <3>2
    <3>4. c[k + (i + 1)] = b[i + 1] /\ B[i + 1] = B[i] + Tx[b[i + 1]].size /\ Tx[b[i + 1]].size \in Nat
      BY <1>2, <1>5, <3>2
    <3>5. B[i] \in Nat
      BY <1>5, <3>2
    <3> QED
      BY <1>8, <3>2, <3>3, <3>4, <3>5
  <2> HIDE DEF T
  <2> QED
    BY <1>2, <2>1, <2>2, FromZero
<1>10. C[k + l] = A[k] + B[l] /\ B[l] \in Nat
  BY <1>2, <1>5, <1>9
<1> QED
  BY <1>1, <1>2, <1>3, <1>8, <1>10 DEF Bytes

\* No transaction, and one.
LEMMA BytesOne ==
  /\ Bytes(<<>>) = 0
  /\ \A t \in Txs : Bytes(<<t>>) = Tx[t].size /\ Tx[t].size \in Nat
<1>1. PICK e : e = <<>>
  OBVIOUS
<1>2. e \in Seq(Txs) /\ Len(e) = 0
  BY <1>1
<1>3. Bytes(e) = 0
  BY <1>2, TotalsSteps DEF Bytes
<1>4. ASSUME NEW t \in Txs PROVE Bytes(<<t>>) = Tx[t].size /\ Tx[t].size \in Nat
  <2>1. PICK s : s = <<t>>
    OBVIOUS
  <2>2. s \in Seq(Txs) /\ Len(s) = 1 /\ s[1] = t /\ 1 \in 1 .. Len(s) /\ 1 - 1 = 0
    BY <2>1
  <2>3. Totals(s)[1] = Totals(s)[0] + Tx[t].size /\ Totals(s)[0] = 0 /\ Tx[t].size \in Nat
    BY <2>2, TotalsSteps
  <2> QED
    BY <2>1, <2>2, <2>3 DEF Bytes
<1> QED
  BY <1>1, <1>3, <1>4

\* One more.
LEMMA BytesAppend ==
  ASSUME NEW s \in Seq(Txs), NEW t \in Txs
  PROVE  Bytes(Append(s, t)) = Bytes(s) + Tx[t].size /\ Tx[t].size \in Nat /\ Bytes(s) \in Nat
<1>1. PICK u : u = <<t>>
  OBVIOUS
<1>2. u \in Seq(Txs) /\ Append(s, t) = s \o u
  BY <1>1
<1>3. Bytes(u) = Tx[t].size /\ Tx[t].size \in Nat
  BY <1>1, BytesOne
<1> QED
  BY <1>2, <1>3, BytesConcat

\* A list is its two parts.
LEMMA TwoParts ==
  ASSUME NEW T, NEW s \in Seq(T), NEW n \in 0 .. Len(s)
  PROVE  /\ SubSeq(s, 1, n) \o SubSeq(s, n + 1, Len(s)) = s
         /\ Len(SubSeq(s, 1, n)) = n /\ Len(SubSeq(s, n + 1, Len(s))) = Len(s) - n
         /\ \A i \in 1 .. n : SubSeq(s, 1, n)[i] = s[i]
         /\ \A i \in 1 .. Len(s) - n : SubSeq(s, n + 1, Len(s))[i] = s[n + i]
<1>1. PICK a, b : a = SubSeq(s, 1, n) /\ b = SubSeq(s, n + 1, Len(s))
  OBVIOUS
<1>2. Len(s) \in Nat /\ n \in Nat /\ n <= Len(s)
  OBVIOUS
<1>3. a \in Seq(T) /\ Len(a) = n /\ \A i \in 1 .. n : a[i] = s[i]
  BY <1>1, <1>2, PartTxs
<1>4. b \in Seq(T) /\ Len(b) = Len(s) - n /\ \A i \in 1 .. Len(s) - n : b[i] = s[n + i]
  BY <1>1, <1>2, PartTxs
<1>5. PICK c : c = a \o b
  OBVIOUS
<1>6. c = s
  <2>1. c \in Seq(T) /\ Len(c) = Len(s)
    <3>1. c \in Seq(T) /\ Len(c) = Len(a) + Len(b)
      BY <1>3, <1>4, <1>5, ConcatProperties
    <3> QED
      BY <1>2, <1>3, <1>4, <3>1
  <2>2. ASSUME NEW i \in 1 .. Len(s) PROVE c[i] = s[i]
    <3>1. CASE i <= n
      <4>1. c[i] = a[i]
        BY <1>2, <1>3, <1>4, <1>5, <3>1
      <4> QED
        BY <1>2, <1>3, <3>1, <4>1
    <3>2. CASE i > n
      <4>1. c[i] = b[i - n]
        BY <1>2, <1>3, <1>4, <1>5, <3>2
      <4>2. i - n \in 1 .. Len(s) - n /\ n + (i - n) = i
        BY <1>2, <3>2
      <4> QED
        BY <1>4, <4>1, <4>2
    <3> QED
      BY <1>2, <3>1, <3>2
  <2> QED
    BY <2>1, <2>2, SeqEqual
<1> QED
  BY <1>1, <1>3, <1>4, <1>5, <1>6

-----------------------------------------------------------------------------
(* The order of the pool. *)

\* Sorted by fee, without duplicates.
Ordered(s) == \A i, j \in DOMAIN s : i < j => StoredFee(s[i]) >= StoredFee(s[j]) /\ s[i] # s[j]

LEMMA FeeIsNat == \A t \in Txs : StoredFee(t) \in Nat
BY PoolAssumption DEF StoredFee

\* A set of numbers that has all those below its own counts up to its size.
LEMMA Prefix ==
  ASSUME NEW N \in Nat, NEW P \in SUBSET (1 .. N), \A i \in P : \A j \in 1 .. i : j \in P
  PROVE  Cardinality(P) \in 0 .. N /\ P = 1 .. Cardinality(P)
<1> DEFINE T == {k \in Nat : k + 1 \notin P}
<1>1. N \in T
  OBVIOUS
<1>2. PICK n \in T : \A k \in T : n <= k
  <2>1. T \subseteq Nat /\ T # {}
    BY <1>1
  <2> HIDE DEF T
  <2> QED
    BY <2>1, NatMin
<1>3. ASSUME NEW i \in 1 .. n PROVE i \in P
  <2>1. i - 1 \in Nat /\ i - 1 < n /\ (i - 1) + 1 = i
    BY <1>2
  <2> QED
    BY <1>2, <2>1
<1>4. ASSUME NEW i \in P PROVE i \in 1 .. n
  <2>1. CASE i <= n
    BY <1>2, <2>1
  <2>2. CASE i > n
    <3>1. n + 1 \in 1 .. i
      BY <1>2, <2>2
    <3> QED
      BY <1>2, <3>1
  <2> QED
    BY <1>2, <2>1, <2>2
<1>5. P = 1 .. n /\ n \in 0 .. N
  <2>1. n \in Nat /\ n <= N
    BY <1>1, <1>2
  <2>2. \A i \in P : i \in 1 .. n
    BY <1>4
  <2>3. \A i \in 1 .. n : i \in P
    BY <1>3
  <2>4. P = 1 .. n
    BY <2>2, <2>3, Zenon
  <2> HIDE DEF T
  <2> QED
    BY <2>1, <2>4
<1>6. Cardinality(1 .. n) = n
  <2>1. 1 \in Int /\ n \in Int /\ n \in Nat
    BY <1>2
  <2> QED
    BY <2>1, FS_Interval
<1> QED
  BY <1>5, <1>6

\* A transaction is put behind those that pay more.
Placed(q, s, t, n) ==
  /\ n \in 0 .. Len(s) /\ q \in Seq(Txs) /\ Len(q) = Len(s) + 1 /\ q[n + 1] = t
  /\ \A i \in 1 .. n : q[i] = s[i] /\ StoredFee(s[i]) > StoredFee(t)
  /\ \A i \in n + 1 .. Len(s) : q[i + 1] = s[i] /\ ~(StoredFee(s[i]) > StoredFee(t))
  /\ Bytes(q) = Bytes(s) + Tx[t].size

LEMMA PlaceShape ==
  ASSUME NEW s \in Seq(Txs), Ordered(s), NEW t \in Txs, t \notin ToSet(s)
  PROVE  \E n : Placed(Place(s, t), s, t, n)
<1>1. PICK N : N = Len(s)
  OBVIOUS
<1>2. PICK P : P = {i \in DOMAIN s : StoredFee(s[i]) > StoredFee(t)}
  OBVIOUS
<1>3. N \in Nat /\ DOMAIN s = 1 .. N /\ P \in SUBSET (1 .. N) /\ \A i \in 1 .. N : s[i] \in Txs
  BY <1>1, <1>2
<1>4. \A i \in 1 .. N : StoredFee(s[i]) \in Nat
  BY <1>3, FeeIsNat
<1>5. StoredFee(t) \in Nat
  BY FeeIsNat
<1>6. ASSUME NEW i \in P, NEW j \in 1 .. i PROVE j \in P
  <2>1. i \in 1 .. N /\ j \in 1 .. N /\ StoredFee(s[i]) > StoredFee(t)
    BY <1>2, <1>3
  <2>2. j = i \/ StoredFee(s[j]) >= StoredFee(s[i])
    BY <1>3, <2>1 DEF Ordered
  <2>3. StoredFee(s[j]) > StoredFee(t)
    BY <1>4, <1>5, <2>1, <2>2
  <2> QED
    BY <1>2, <1>3, <2>1, <2>3
<1>7. PICK n : n = Cardinality(P)
  OBVIOUS
<1>8. n \in 0 .. N /\ P = 1 .. n
  BY <1>3, <1>6, <1>7, Prefix
<1>9. PICK a, b, u : a = SubSeq(s, 1, n) /\ b = SubSeq(s, n + 1, Len(s)) /\ u = <<t>>
  OBVIOUS
<1>10. /\ a \in Seq(Txs) /\ b \in Seq(Txs) /\ u \in Seq(Txs) /\ a \o b = s /\ Len(a) = n /\ Len(b) = N - n
       /\ Len(u) = 1 /\ u[1] = t
       /\ \A i \in 1 .. n : a[i] = s[i]
       /\ \A i \in 1 .. N - n : b[i] = s[n + i]
  <2>1. n \in 0 .. Len(s) /\ Len(s) = N
    BY <1>1, <1>8
  <2>2. /\ a \o b = s /\ Len(a) = n /\ Len(b) = N - n
        /\ \A i \in 1 .. n : a[i] = s[i]
        /\ \A i \in 1 .. N - n : b[i] = s[n + i]
    BY <1>9, <2>1, TwoParts
  <2>3. a \in Seq(Txs) /\ b \in Seq(Txs)
    BY <1>9, <2>1, PartTxs
  <2>4. u \in Seq(Txs) /\ Len(u) = 1 /\ u[1] = t
    BY <1>9
  <2> QED
    BY <2>2, <2>3, <2>4
<1>11. PICK c, q : c = a \o u /\ q = c \o b
  OBVIOUS
<1>12. q = Place(s, t)
  BY <1>2, <1>7, <1>9, <1>11 DEF Place
<1>13. /\ c \in Seq(Txs) /\ Len(c) = n + 1 /\ c[n + 1] = t /\ \A i \in 1 .. n : c[i] = a[i]
  <2>1. a \in Seq(Txs) /\ u \in Seq(Txs) /\ n \in Nat
    BY <1>3, <1>8, <1>10
  <2>2. c \in Seq(Txs) /\ Len(c) = Len(a) + Len(u)
    BY <1>11, <2>1, ConcatProperties
  <2> QED
    BY <1>10, <1>11, <2>1, <2>2
<1>14. q \in Seq(Txs) /\ Len(q) = N + 1
  <2>1. q \in Seq(Txs) /\ Len(q) = Len(c) + Len(b)
    BY <1>10, <1>11, <1>13, ConcatProperties
  <2> QED
    BY <1>3, <1>8, <1>10, <1>13, <2>1
<1>15. \A i \in 1 .. n + 1 : q[i] = c[i]
  BY <1>8, <1>10, <1>11, <1>13
<1>16. \A i \in 1 .. N - n : q[(n + 1) + i] = b[i]
  BY <1>3, <1>8, <1>10, <1>11, <1>13
<1>17. q[n + 1] = t /\ \A i \in 1 .. n : q[i] = s[i] /\ StoredFee(s[i]) > StoredFee(t)
  <2>1. n + 1 \in 1 .. n + 1 /\ \A i \in 1 .. n : i \in 1 .. n + 1 /\ i \in P
    BY <1>8
  <2> QED
    BY <1>2, <1>10, <1>13, <1>15, <2>1
<1>18. ASSUME NEW i \in n + 1 .. N PROVE q[i + 1] = s[i] /\ ~(StoredFee(s[i]) > StoredFee(t))
  <2>1. i - n \in 1 .. N - n /\ (n + 1) + (i - n) = i + 1 /\ n + (i - n) = i /\ i \notin 1 .. n /\ i \in 1 .. N
    BY <1>3, <1>8
  <2>2. q[(n + 1) + (i - n)] = b[i - n] /\ b[i - n] = s[n + (i - n)]
    BY <1>10, <1>16, <2>1
  <2>3. q[i + 1] = s[i]
    BY <2>1, <2>2
  <2> QED
    BY <1>2, <1>3, <1>8, <2>1, <2>3
<1>19. Bytes(q) = Bytes(s) + Tx[t].size
  <2>1. Bytes(c) = Bytes(a) + Bytes(u) /\ Bytes(a) \in Nat
    BY <1>10, <1>11, BytesConcat
  <2>2. Bytes(q) = Bytes(c) + Bytes(b) /\ Bytes(b) \in Nat
    BY <1>10, <1>11, <1>13, BytesConcat
  <2>3. Bytes(s) = Bytes(a) + Bytes(b)
    BY <1>10, BytesConcat
  <2>4. Bytes(u) = Tx[t].size /\ Tx[t].size \in Nat
    BY <1>9, BytesOne
  <2> QED
    BY <2>1, <2>2, <2>3, <2>4
<1> QED
  BY <1>1, <1>8, <1>12, <1>14, <1>17, <1>18, <1>19 DEF Placed

\* Which keeps the order, and adds no more than its bytes.
LEMMA PlaceOrdered ==
  ASSUME NEW s \in Seq(Txs), Ordered(s), NEW t \in Txs
  PROVE  Ordered(Place(s, t)) /\ Bytes(Place(s, t)) <= Bytes(s) + Tx[t].size
<1>1. Bytes(s) \in Nat /\ Tx[t].size \in Nat
  BY BytesAppend
<1>2. CASE t \in ToSet(s)
  BY <1>1, <1>2 DEF Place
<1>3. CASE t \notin ToSet(s)
  <2>1. PICK q : q = Place(s, t)
    OBVIOUS
  <2>2. PICK n : Placed(q, s, t, n)
    BY <1>3, <2>1, PlaceShape
  <2>3. PICK N : N = Len(s)
    OBVIOUS
  <2>4. N \in Nat /\ n \in 0 .. N /\ DOMAIN s = 1 .. N /\ DOMAIN q = 1 .. N + 1 /\ \A i \in 1 .. N : s[i] \in Txs /\ s[i] # t
    BY <1>3, <2>2, <2>3 DEF Placed, ToSet
  <2>5. StoredFee(t) \in Nat /\ \A i \in 1 .. N : StoredFee(s[i]) \in Nat
    BY <2>4, FeeIsNat
  <2>6. ASSUME NEW i \in 1 .. N + 1, NEW j \in 1 .. N + 1, i < j
        PROVE  StoredFee(q[i]) >= StoredFee(q[j]) /\ q[i] # q[j]
    <3>1. CASE j <= n
      <4>1. i \in 1 .. n /\ j \in 1 .. n /\ i \in 1 .. N /\ j \in 1 .. N
        BY <2>4, <2>6, <3>1
      <4>2. q[i] = s[i] /\ q[j] = s[j]
        BY <2>2, <4>1 DEF Placed
      <4> QED
        BY <2>4, <2>6, <4>1, <4>2 DEF Ordered
    <3>2. CASE j = n + 1
      <4>1. i \in 1 .. n /\ i \in 1 .. N
        BY <2>4, <2>6, <3>2
      <4>2. q[i] = s[i] /\ StoredFee(s[i]) > StoredFee(t) /\ q[j] = t
        BY <2>2, <3>2, <4>1 DEF Placed
      <4> QED
        BY <2>4, <2>5, <4>1, <4>2
    <3>3. CASE j > n + 1
      <4>1. j - 1 \in n + 1 .. N /\ (j - 1) + 1 = j /\ j - 1 \in 1 .. N
        BY <2>4, <3>3
      <4>2. q[j] = s[j - 1] /\ ~(StoredFee(s[j - 1]) > StoredFee(t))
        BY <2>2, <2>3, <4>1 DEF Placed
      <4>3. CASE i <= n
        <5>1. i \in 1 .. n /\ i \in 1 .. N /\ i < j - 1
          BY <2>4, <3>3, <4>3
        <5>2. q[i] = s[i]
          BY <2>2, <5>1 DEF Placed
        <5> QED
          BY <2>4, <4>1, <4>2, <5>1, <5>2 DEF Ordered
      <4>4. CASE i = n + 1
        <5>1. q[i] = t
          BY <2>2, <4>4 DEF Placed
        <5> QED
          BY <2>4, <2>5, <4>1, <4>2, <5>1
      <4>5. CASE i > n + 1
        <5>1. i - 1 \in n + 1 .. N /\ (i - 1) + 1 = i /\ i - 1 \in 1 .. N /\ i - 1 < j - 1
          BY <2>4, <2>6, <4>5
        <5>2. q[i] = s[i - 1]
          BY <2>2, <2>3, <5>1 DEF Placed
        <5> QED
          BY <2>4, <4>1, <4>2, <5>1, <5>2 DEF Ordered
      <4> QED
        BY <2>4, <4>3, <4>4, <4>5
    <3> QED
      BY <2>4, <3>1, <3>2, <3>3
  <2>7. Ordered(q)
    BY <2>4, <2>6 DEF Ordered
  <2>8. Bytes(q) = Bytes(s) + Tx[t].size
    BY <2>2 DEF Placed
  <2> QED
    BY <1>1, <2>1, <2>7, <2>8
<1> QED
  BY <1>2, <1>3

\* The transactions of a batch.
LEMMA InsertOrdered ==
  ASSUME NEW p \in Seq(Txs), Ordered(p), NEW new \in Seq(Txs)
  PROVE  Ordered(insert(p, new)) /\ Bytes(insert(p, new)) <= Bytes(p) + Bytes(new)
<1>1. PICK n, g, w : n = Len(new) /\ g = Inserted(p, new) /\ w = Totals(new)
  OBVIOUS
<1>2. n \in Nat /\ \A i \in 1 .. n : new[i] \in Txs
  BY <1>1
<1>3. /\ g[0] = p /\ \A i \in 1 .. n : g[i] = Place(g[i - 1], new[i])
      /\ \A i \in 0 .. n : g[i] \in Seq(Txs)
  BY <1>1, InsertedSteps
<1>4. /\ w[0] = 0 /\ \A i \in 1 .. n : w[i] = w[i - 1] + Tx[new[i]].size /\ Tx[new[i]].size \in Nat
      /\ \A i \in 0 .. n : w[i] \in Nat
  BY <1>1, TotalsSteps
<1>5. \A s \in Seq(Txs) : Bytes(s) \in Nat
  BY BytesConcat
<1> DEFINE S == {i \in Nat : i <= n => Ordered(g[i]) /\ Bytes(g[i]) <= Bytes(p) + w[i]}
<1>6. 0 \in S
  BY <1>3, <1>4, <1>5
<1>7. ASSUME NEW i \in Nat, i \in S PROVE i + 1 \in S
  <2>1. SUFFICES ASSUME i + 1 <= n PROVE Ordered(g[i + 1]) /\ Bytes(g[i + 1]) <= Bytes(p) + w[i + 1]
    OBVIOUS
  <2>2. PICK s, t : s = g[i] /\ t = new[i + 1]
    OBVIOUS
  <2>3. i + 1 \in 1 .. n /\ (i + 1) - 1 = i /\ i \in 0 .. n /\ i + 1 \in 0 .. n
    BY <1>2, <2>1
  <2>4. Ordered(s) /\ Bytes(s) <= Bytes(p) + w[i] /\ s \in Seq(Txs) /\ t \in Txs
    BY <1>2, <1>3, <1>7, <2>1, <2>2, <2>3
  <2>5. g[i + 1] = Place(s, t) /\ w[i + 1] = w[i] + Tx[t].size /\ Tx[t].size \in Nat /\ w[i] \in Nat
    BY <1>3, <1>4, <2>2, <2>3
  <2>6. Ordered(Place(s, t)) /\ Bytes(Place(s, t)) <= Bytes(s) + Tx[t].size
    BY <2>4, PlaceOrdered
  <2>7. Bytes(s) \in Nat /\ Bytes(p) \in Nat /\ Bytes(g[i + 1]) \in Nat
    BY <1>3, <1>5, <2>3, <2>4
  <2> QED
    BY <2>4, <2>5, <2>6, <2>7
<1> HIDE DEF S
<1>8. n \in S
  BY <1>2, <1>6, <1>7, FromZero
<1> QED
  BY <1>1, <1>2, <1>8 DEF S, insert, Bytes

\* A transaction behind those that pay no less.
LEMMA OrderedAppend ==
  ASSUME NEW u \in Seq(Txs), Ordered(u), NEW t \in Txs,
         \A a \in 1 .. Len(u) : StoredFee(u[a]) >= StoredFee(t) /\ u[a] # t
  PROVE  Ordered(Append(u, t))
<1>1. PICK k, q : k = Len(u) /\ q = Append(u, t)
  OBVIOUS
<1>2. k \in Nat /\ DOMAIN u = 1 .. k /\ DOMAIN q = 1 .. k + 1 /\ q[k + 1] = t /\ \A a \in 1 .. k : q[a] = u[a]
  BY <1>1
<1>3. ASSUME NEW i \in 1 .. k + 1, NEW j \in 1 .. k + 1, i < j
      PROVE  StoredFee(q[i]) >= StoredFee(q[j]) /\ q[i] # q[j]
  <2>1. i \in 1 .. k /\ q[i] = u[i]
    BY <1>2, <1>3
  <2>2. CASE j = k + 1
    <3>1. StoredFee(u[i]) >= StoredFee(t) /\ u[i] # t
      BY <1>1, <2>1
    <3> QED
      BY <1>2, <2>1, <2>2, <3>1
  <2>3. CASE j # k + 1
    <3>1. j \in 1 .. k /\ q[j] = u[j]
      BY <1>2, <2>3
    <3>2. StoredFee(u[i]) >= StoredFee(u[j]) /\ u[i] # u[j]
      BY <1>2, <1>3, <2>1, <3>1 DEF Ordered
    <3> QED
      BY <2>1, <3>1, <3>2
  <2> QED
    BY <2>2, <2>3
<1> QED
  BY <1>1, <1>2, <1>3 DEF Ordered

\* What is left of the first transactions of a list.
Kin(u, s, i) ==
  /\ u \in Seq(Txs) /\ Len(u) <= i /\ Ordered(u)
  /\ \A a \in 1 .. Len(u) : \E j \in 1 .. i : u[a] = s[j]

LEMMA KinSpare ==
  ASSUME NEW s \in Seq(Txs), Ordered(s), NEW i \in Nat, i + 1 <= Len(s), NEW u, Kin(u, s, i), NEW x
  PROVE  Kin(Spare(u, s[i + 1], x), s, i + 1)
<1>1. PICK t : t = s[i + 1]
  OBVIOUS
<1>2. /\ t \in Txs /\ i + 1 \in DOMAIN s /\ Len(s) \in Nat /\ DOMAIN s = 1 .. Len(s)
      /\ \A j \in 1 .. i : j \in 1 .. i + 1 /\ j \in 1 .. Len(s) /\ j < i + 1
  BY <1>1
<1>3. u \in Seq(Txs) /\ Len(u) \in Nat /\ Len(u) <= i /\ \A a \in 1 .. Len(u) : \E j \in 1 .. i : u[a] = s[j]
  BY DEF Kin
<1>4. CASE t \in x
  <2>1. Kin(u, s, i + 1)
    <3>1. Len(u) <= i + 1
      BY <1>3
    <3>2. ASSUME NEW a \in 1 .. Len(u) PROVE \E j \in 1 .. i + 1 : u[a] = s[j]
      BY <1>2, <1>3
    <3> QED
      BY <3>1, <3>2 DEF Kin
  <2> QED
    BY <1>1, <1>4, <2>1 DEF Spare
<1>5. CASE t \notin x
  <2>1. PICK q, k : q = Append(u, t) /\ k = Len(u)
    OBVIOUS
  <2>2. q \in Seq(Txs) /\ k \in Nat /\ Len(q) = k + 1 /\ q[k + 1] = t /\ \A a \in 1 .. k : q[a] = u[a]
    BY <1>2, <1>3, <2>1
  <2>3. ASSUME NEW a \in 1 .. Len(u) PROVE StoredFee(u[a]) >= StoredFee(t) /\ u[a] # t
    <3>1. PICK j \in 1 .. i : u[a] = s[j]
      BY <1>3
    <3>2. j \in DOMAIN s /\ i + 1 \in DOMAIN s /\ j < i + 1
      BY <1>2
    <3> QED
      BY <1>1, <3>1, <3>2 DEF Ordered
  <2>4. Ordered(q)
    BY <1>2, <1>3, <2>1, <2>3, OrderedAppend DEF Kin
  <2>5. ASSUME NEW a \in 1 .. Len(q) PROVE \E j \in 1 .. i + 1 : q[a] = s[j]
    <3>1. CASE a = k + 1
      BY <1>1, <2>2, <3>1
    <3>2. CASE a # k + 1
      <4>1. a \in 1 .. Len(u) /\ q[a] = u[a]
        BY <2>1, <2>2, <3>2
      <4>2. PICK j \in 1 .. i : u[a] = s[j]
        BY <1>3, <4>1
      <4> QED
        BY <1>2, <4>1, <4>2
    <3> QED
      BY <3>1, <3>2
  <2>6. Len(q) <= i + 1
    BY <1>3, <2>1, <2>2
  <2>7. Kin(q, s, i + 1)
    BY <2>2, <2>4, <2>5, <2>6 DEF Kin
  <2> QED
    BY <1>1, <1>5, <2>1, <2>7 DEF Spare
<1> QED
  BY <1>4, <1>5

\* What is left of a list is no longer and in the same order.
LEMMA WithoutOrdered ==
  ASSUME NEW s \in Seq(Txs), Ordered(s), NEW x
  PROVE  Ordered(Without(s, x)) /\ Len(Without(s, x)) <= Len(s)
<1>1. PICK n, r : n = Len(s) /\ r = Remaining(s, x)
  OBVIOUS
<1>2. n \in Nat
  BY <1>1
<1>3. r[0] = <<>> /\ \A i \in 1 .. n : r[i] = Spare(r[i - 1], s[i], x)
  BY <1>1, RemainingSteps
<1> DEFINE S == {i \in Nat : i <= n => Kin(r[i], s, i)}
<1>4. 0 \in S
  <2>1. PICK e : e = <<>>
    OBVIOUS
  <2>2. e \in Seq(Txs) /\ Len(e) = 0
    BY <2>1
  <2>3. Kin(e, s, 0)
    BY <2>2 DEF Kin, Ordered
  <2> QED
    BY <1>3, <2>1, <2>3
<1>5. ASSUME NEW i \in Nat, i \in S PROVE i + 1 \in S
  <2>1. SUFFICES ASSUME i + 1 <= n PROVE Kin(r[i + 1], s, i + 1)
    OBVIOUS
  <2>2. i + 1 \in 1 .. n /\ (i + 1) - 1 = i /\ Kin(r[i], s, i) /\ i + 1 <= Len(s)
    BY <1>1, <1>2, <1>5, <2>1
  <2>3. r[i + 1] = Spare(r[i], s[i + 1], x)
    BY <1>3, <2>2
  <2> QED
    BY <2>2, <2>3, KinSpare
<1> HIDE DEF S
<1>6. n \in S
  BY <1>2, <1>4, <1>5, FromZero
<1>7. Kin(r[n], s, n)
  BY <1>2, <1>6 DEF S
<1>8. Without(s, x) = r[n]
  BY <1>1 DEF Without
<1> QED
  BY <1>1, <1>7, <1>8 DEF Kin

\* What is left of a list and what is taken from it have its bytes.
LEMMA BytesSplit ==
  ASSUME NEW s \in Seq(Txs), NEW x
  PROVE  /\ Bytes(Without(s, x)) \in Nat /\ Bytes(Without(s, ToSet(s) \ x)) \in Nat
         /\ Bytes(Without(s, x)) + Bytes(Without(s, ToSet(s) \ x)) = Bytes(s)
<1>1. PICK y : y = ToSet(s) \ x
  OBVIOUS
<1>2. PICK n, r, q, w : n = Len(s) /\ r = Remaining(s, x) /\ q = Remaining(s, y) /\ w = Totals(s)
  OBVIOUS
<1>3. n \in Nat /\ \A i \in 1 .. n : s[i] \in Txs /\ (s[i] \in x <=> s[i] \notin y)
  BY <1>1, <1>2 DEF ToSet
<1>4. /\ r[0] = <<>> /\ \A i \in 1 .. n : r[i] = Spare(r[i - 1], s[i], x)
      /\ \A i \in 0 .. n : r[i] \in Seq(Txs)
  BY <1>2, RemainingSteps
<1>5. /\ q[0] = <<>> /\ \A i \in 1 .. n : q[i] = Spare(q[i - 1], s[i], y)
      /\ \A i \in 0 .. n : q[i] \in Seq(Txs)
  BY <1>2, RemainingSteps
<1>6. w[0] = 0 /\ \A i \in 1 .. n : w[i] = w[i - 1] + Tx[s[i]].size
  BY <1>2, TotalsSteps
<1>7. \A u \in Seq(Txs) : Bytes(u) \in Nat
  BY BytesConcat
<1> DEFINE S == {i \in Nat : i <= n => Bytes(r[i]) + Bytes(q[i]) = w[i]}
<1>8. 0 \in S
  BY <1>4, <1>5, <1>6, BytesOne
<1>9. ASSUME NEW i \in Nat, i \in S PROVE i + 1 \in S
  <2>1. SUFFICES ASSUME i + 1 <= n PROVE Bytes(r[i + 1]) + Bytes(q[i + 1]) = w[i + 1]
    OBVIOUS
  <2>2. PICK a, b, t : a = r[i] /\ b = q[i] /\ t = s[i + 1]
    OBVIOUS
  <2>3. i + 1 \in 1 .. n /\ (i + 1) - 1 = i /\ i \in 0 .. n /\ Bytes(a) + Bytes(b) = w[i]
    BY <1>3, <1>9, <2>1, <2>2
  <2>4. /\ r[i + 1] = Spare(a, t, x) /\ q[i + 1] = Spare(b, t, y) /\ w[i + 1] = w[i] + Tx[t].size
        /\ t \in Txs /\ a \in Seq(Txs) /\ b \in Seq(Txs) /\ (t \in x <=> t \notin y)
    BY <1>3, <1>4, <1>5, <1>6, <2>2, <2>3
  <2>5. /\ Bytes(Append(a, t)) = Bytes(a) + Tx[t].size /\ Tx[t].size \in Nat /\ Bytes(a) \in Nat
        /\ Bytes(Append(b, t)) = Bytes(b) + Tx[t].size /\ Bytes(b) \in Nat
    BY <2>4, BytesAppend
  <2>6. CASE t \in x
    <3>1. r[i + 1] = a /\ q[i + 1] = Append(b, t)
      BY <2>4, <2>6 DEF Spare
    <3> QED
      BY <2>3, <2>4, <2>5, <3>1
  <2>7. CASE t \notin x
    <3>1. r[i + 1] = Append(a, t) /\ q[i + 1] = b
      BY <2>4, <2>7 DEF Spare
    <3> QED
      BY <2>3, <2>4, <2>5, <3>1
  <2> QED
    BY <2>6, <2>7
<1> HIDE DEF S
<1>10. n \in S
  BY <1>3, <1>8, <1>9, FromZero
<1>11. n \in 0 .. n /\ Bytes(r[n]) + Bytes(q[n]) = w[n]
  BY <1>3, <1>10 DEF S
<1>12. Without(s, x) = r[n] /\ Without(s, y) = q[n] /\ Bytes(s) = w[n]
  BY <1>2 DEF Without, Bytes
<1>13. Bytes(r[n]) \in Nat /\ Bytes(q[n]) \in Nat
  BY <1>4, <1>5, <1>7, <1>11
<1> QED
  BY <1>1, <1>11, <1>12, <1>13

\* A pool and its count of bytes.
Legal == Txs \ IllFormed

Counted(p, z) == p \in Seq(Legal) /\ Ordered(p) /\ z \in Nat /\ Bytes(p) <= z

Within(p) == Len(p) < MaxTransactionCount /\ Bytes(p) <= MaxTotalBytes

LEMMA LegalTxs == ASSUME NEW p \in Seq(Legal) PROVE p \in Seq(Txs) /\ Bytes(p) \in Nat
<1>1. p \in Seq(Txs)
  BY DEF Legal
<1> QED
  BY <1>1, BytesConcat

\* DeleteTransaction takes from a pool, and from its count, no more than there is.
LEMMA DeleteCounted ==
  ASSUME NEW p, NEW z, Counted(p, z), NEW x
  PROVE  /\ Counted(DeleteTransaction(p, z, x).pool, DeleteTransaction(p, z, x).bytes)
         /\ Within(p) => Within(DeleteTransaction(p, z, x).pool)
<1>1. PICK q, y : q = Without(p, x) /\ y = Bytes(Without(p, ToSet(p) \ x))
  OBVIOUS
<1>2. DeleteTransaction(p, z, x).pool = q /\ DeleteTransaction(p, z, x).bytes = z - y
  BY <1>1 DEF DeleteTransaction
<1>3. p \in Seq(Legal) /\ Ordered(p) /\ z \in Nat /\ Bytes(p) <= z /\ p \in Seq(Txs) /\ Bytes(p) \in Nat
  BY LegalTxs DEF Counted
<1>4. q \in Seq(Legal)
  BY <1>1, <1>3, RemainingTxs
<1>5. Ordered(q) /\ Len(q) <= Len(p)
  BY <1>1, <1>3, WithoutOrdered
<1>6. Bytes(q) \in Nat /\ y \in Nat /\ Bytes(q) + y = Bytes(p)
  BY <1>1, <1>3, BytesSplit
<1>7. Counted(q, z - y)
  BY <1>3, <1>4, <1>5, <1>6 DEF Counted
<1>8. Within(p) => Within(q)
  <2>1. Len(p) \in Nat /\ Len(q) \in Nat /\ MaxTransactionCount \in Nat /\ MaxTotalBytes \in Nat
    BY <1>3, <1>4, PoolAssumption
  <2> QED
    BY <1>3, <1>5, <1>6, <2>1 DEF Within
<1> QED
  BY <1>2, <1>7, <1>8

\* The transactions that precede the first refused one are legal, or in the pool already.
LEMMA AcceptedLegal ==
  ASSUME NEW p \in Seq(Legal), NEW batch \in Seq(Txs)
  PROVE  Accepted(p, batch) \in Seq(Legal)
<1> DEFINE refuse(t) == \/ Tx[t].size > IndividualMaxTxSize
                        \/ t \notin ToSet(p) /\ t \in IllFormed
           B == {i \in DOMAIN batch : refuse(batch[i])}
           k == IF B = {} THEN Len(batch) ELSE Min(B) - 1
<1>1. Accepted(p, batch) = SubSeq(batch, 1, k)
  BY DEF Accepted
<1>2. Len(batch) \in Nat /\ B \subseteq 1 .. Len(batch)
  OBVIOUS
<1>3. ASSUME NEW i \in 1 .. Len(batch), i \notin B PROVE batch[i] \in Legal
  <2>1. i \in DOMAIN batch /\ batch[i] \in Txs
    OBVIOUS
  <2>2. batch[i] \in ToSet(p) \/ batch[i] \notin IllFormed
    BY <1>3, <2>1
  <2>3. ToSet(p) \subseteq Legal
    BY DEF ToSet
  <2> QED
    BY <2>1, <2>2, <2>3 DEF Legal
<1> HIDE DEF B
<1>4. k \in 0 .. Len(batch) /\ \A i \in 1 .. k : i \notin B
  <2>1. CASE B = {}
    BY <1>2, <2>1
  <2>2. CASE B # {}
    <3>1. PICK m : m = Min(B)
      OBVIOUS
    <3>2. m \in B /\ \A j \in B : m <= j
      <4>1. B \subseteq Nat
        BY <1>2
      <4>2. \E i \in B : \A j \in B : i <= j
        BY <2>2, <4>1, NatMin
      <4> QED
        BY <3>1, <4>2 DEF Min
    <3>3. m \in 1 .. Len(batch) /\ k = m - 1
      BY <1>2, <2>2, <3>1, <3>2
    <3>4. ASSUME NEW i \in 1 .. k, i \in B PROVE FALSE
      BY <3>2, <3>3, <3>4
    <3> QED
      BY <3>3, <3>4
  <2> QED
    BY <2>1, <2>2
<1> HIDE DEF k
<1>5. /\ 1 \in Int /\ k \in Int /\ \A i \in 1 .. k : batch[i] \in Legal
  BY <1>2, <1>3, <1>4
<1>6. SubSeq(batch, 1, k) \in Seq(Legal)
  BY <1>5, SubSeqProperties
<1> QED
  BY <1>1, <1>6

\* The first transactions of a list are in the same order.
LEMMA PartOrdered ==
  ASSUME NEW s \in Seq(Txs), Ordered(s), NEW n \in 0 .. Len(s)
  PROVE  Ordered(SubSeq(s, 1, n))
<1>1. PICK a : a = SubSeq(s, 1, n)
  OBVIOUS
<1>2. Len(a) = n /\ \A i \in 1 .. n : a[i] = s[i]
  BY <1>1, TwoParts
<1>3. a \in Seq(Txs)
  BY <1>1, PartTxs
<1>4. DOMAIN a = 1 .. n /\ \A i \in 1 .. n : i \in DOMAIN s
  BY <1>2, <1>3
<1> QED
  BY <1>1, <1>2, <1>4 DEF Ordered

\* AddTransactions keeps the order and counts the bytes, and what it leaves is within the
\* limits unless its loop does not end.
LEMMA AddCounted ==
  ASSUME NEW p, NEW z, Counted(p, z), Within(p), NEW batch \in Seq(Txs)
  PROVE  /\ Counted(AddTransactions(p, z, batch).pool, AddTransactions(p, z, batch).bytes)
         /\ AddTransactions(p, z, batch).hung \in BOOLEAN
         /\ ~AddTransactions(p, z, batch).hung => Within(AddTransactions(p, z, batch).pool)
<1>1. p \in Seq(Legal) /\ Ordered(p) /\ z \in Nat /\ Bytes(p) <= z /\ p \in Seq(Txs) /\ Bytes(p) \in Nat
  BY LegalTxs DEF Counted
<1>2. PICK new : new = Without(Accepted(p, batch), ToSet(p))
  OBVIOUS
<1>3. new \in Seq(Legal)
  BY <1>1, <1>2, AcceptedLegal, RemainingTxs
<1>4. new \in Seq(Txs) /\ Bytes(new) \in Nat
  BY <1>3, LegalTxs
<1>5. PICK y, all : y = z + Bytes(new) /\ all = insert(p, new)
  OBVIOUS
<1>6. y \in Nat /\ Bytes(p) <= y /\ Bytes(p) + Bytes(new) <= y
  BY <1>1, <1>4, <1>5
<1>7. CASE Len(Accepted(p, batch)) < Len(batch)
  <2>1. AddTransactions(p, z, batch) = [pool |-> p, bytes |-> y, hung |-> FALSE]
    BY <1>2, <1>5, <1>7 DEF AddTransactions
  <2>2. /\ AddTransactions(p, z, batch).pool = p /\ AddTransactions(p, z, batch).bytes = y
        /\ AddTransactions(p, z, batch).hung = FALSE
    BY <2>1
  <2>3. Counted(p, y)
    BY <1>1, <1>6 DEF Counted
  <2> QED
    BY <2>2, <2>3
<1>8. CASE ~(Len(Accepted(p, batch)) < Len(batch))
  <2>1. all \in Seq(Legal)
    BY <1>1, <1>3, <1>5, InsertTxs
  <2>2. all \in Seq(Txs) /\ Bytes(all) \in Nat /\ Len(all) \in Nat
    BY <2>1, LegalTxs
  <2>3. Ordered(all) /\ Bytes(all) <= Bytes(p) + Bytes(new)
    BY <1>1, <1>4, <1>5, InsertOrdered
  <2>4. PICK n : n = Kept(all, y)
    OBVIOUS
  <2>5. n \in 0 .. Len(all)
    BY <2>2, <2>4, KeptSome
  <2>6. PICK a, b : a = SubSeq(all, 1, n) /\ b = SubSeq(all, n + 1, Len(all))
    OBVIOUS
  <2>7. a \in Seq(Legal) /\ b \in Seq(Legal)
    BY <2>1, <2>5, <2>6, PartTxs
  <2>8. a \in Seq(Txs) /\ b \in Seq(Txs) /\ Bytes(a) \in Nat /\ Bytes(b) \in Nat
    BY <2>7, LegalTxs
  <2>9. a \o b = all /\ Len(a) = n
    BY <2>2, <2>5, <2>6, TwoParts
  <2>10. Bytes(a) + Bytes(b) = Bytes(all)
    BY <2>8, <2>9, BytesConcat
  <2>11. Ordered(a)
    BY <2>2, <2>3, <2>5, <2>6, PartOrdered
  <2>12. y - Bytes(b) \in Nat /\ Bytes(a) <= y - Bytes(b)
    BY <1>1, <1>4, <1>6, <2>2, <2>3, <2>8, <2>10
  <2>13. Counted(a, y - Bytes(b))
    BY <2>7, <2>11, <2>12 DEF Counted
  <2>14. AddTransactions(p, z, batch) = [pool |-> a, bytes |-> y - Bytes(b), hung |-> Overfull(all, y, n)]
    BY <1>2, <1>5, <1>8, <2>4, <2>6 DEF AddTransactions
  <2>15. /\ AddTransactions(p, z, batch).pool = a /\ AddTransactions(p, z, batch).bytes = y - Bytes(b)
         /\ AddTransactions(p, z, batch).hung = Overfull(all, y, n)
    BY <2>14
  <2>16. Overfull(all, y, n) \in BOOLEAN
    BY DEF Overfull
  <2>17. ASSUME ~Overfull(all, y, n) PROVE Within(a)
    <3>1. ~(n >= MaxTransactionCount) /\ ~(y - Bytes(b) > MaxTotalBytes)
      BY <2>6, <2>17 DEF Overfull
    <3>2. MaxTransactionCount \in Nat /\ MaxTotalBytes \in Nat /\ n \in Nat
      BY <2>2, <2>5, PoolAssumption
    <3> QED
      BY <2>8, <2>9, <2>12, <3>1, <3>2 DEF Within
  <2> QED
    BY <2>13, <2>15, <2>16, <2>17
<1> QED
  BY <1>7, <1>8

\* The mempool of the controller.
MempoolInv == Counted(pool, bytes) /\ hung \in BOOLEAN /\ (~hung => Within(pool))

\* A step that deletes transactions, or leaves the pool alone.
LEMMA DeleteMempool ==
  ASSUME MempoolInv, hung' = hung, NEW x,
         \/ UNCHANGED <<pool, bytes>>
         \/ pool' = DeleteTransaction(pool, bytes, x).pool /\ bytes' = DeleteTransaction(pool, bytes, x).bytes
  PROVE  MempoolInv'
<1>1. PICK p, z : p = pool /\ z = bytes
  OBVIOUS
<1>2. Counted(p, z) /\ (~hung => Within(p))
  BY <1>1 DEF MempoolInv
<1>3. CASE UNCHANGED <<pool, bytes>>
  BY <1>3 DEF MempoolInv
<1>4. CASE pool' = DeleteTransaction(p, z, x).pool /\ bytes' = DeleteTransaction(p, z, x).bytes
  <2>1. /\ Counted(DeleteTransaction(p, z, x).pool, DeleteTransaction(p, z, x).bytes)
        /\ Within(p) => Within(DeleteTransaction(p, z, x).pool)
    BY <1>2, DeleteCounted
  <2>2. Counted(pool', bytes') /\ (~hung' => Within(pool'))
    BY <1>2, <1>4, <2>1
  <2> QED
    BY <2>2 DEF MempoolInv
<1> QED
  BY <1>1, <1>3, <1>4

\* HandleTransactions
LEMMA HandleMempool == ASSUME MempoolInv, NEW batch \in Batches, HandleTransactions(batch) PROVE MempoolInv'
<1>1. PICK p, z : p = pool /\ z = bytes
  OBVIOUS
<1>2. Counted(p, z) /\ Within(p) /\ batch \in Seq(Txs)
  BY <1>1, ControllerAssumption DEF MempoolInv, HandleTransactions, PoolLockFree
<1>3. /\ pool' = AddTransactions(p, z, batch).pool /\ bytes' = AddTransactions(p, z, batch).bytes
      /\ hung' = AddTransactions(p, z, batch).hung
  BY <1>1 DEF HandleTransactions
<1>4. /\ Counted(AddTransactions(p, z, batch).pool, AddTransactions(p, z, batch).bytes)
      /\ AddTransactions(p, z, batch).hung \in BOOLEAN
      /\ ~AddTransactions(p, z, batch).hung => Within(AddTransactions(p, z, batch).pool)
  BY <1>2, AddCounted
<1>5. Counted(pool', bytes') /\ hung' \in BOOLEAN /\ (~hung' => Within(pool'))
  BY <1>3, <1>4
<1> QED
  BY <1>5 DEF MempoolInv

\* CommitCertificate: the transactions of the block go, then those that fail now.
LEMMA CommitMempool == ASSUME MempoolInv, CommitCertificate PROVE MempoolInv'
<1>1. CASE RefuseBlock
  BY <1>1 DEF RefuseBlock, poolVars, MempoolInv
<1>2. CASE CommitBlock
  <2>1. PICK p, z, x : p = pool /\ z = bytes /\ x = ToSet(certified[1].txs)
    OBVIOUS
  <2>2. PICK d : d = DeleteTransaction(p, z, x)
    OBVIOUS
  <2>3. PICK y : /\ pool' = DeleteTransaction(d.pool, d.bytes, y).pool
                 /\ bytes' = DeleteTransaction(d.pool, d.bytes, y).bytes
    BY <1>2, <2>1, <2>2 DEF CommitBlock
  <2>4. hung' = hung
    BY <1>2 DEF CommitBlock
  <2>5. Counted(p, z) /\ (~hung => Within(p))
    BY <2>1 DEF MempoolInv
  <2>6. Counted(d.pool, d.bytes) /\ (Within(p) => Within(d.pool))
    BY <2>2, <2>5, DeleteCounted
  <2>7. Counted(pool', bytes') /\ (Within(d.pool) => Within(pool'))
    BY <2>3, <2>6, DeleteCounted
  <2> QED
    BY <2>4, <2>5, <2>6, <2>7 DEF MempoolInv
<1> QED
  BY <1>1, <1>2 DEF CommitCertificate

\* Every step.
LEMMA NextMempool == ASSUME MempoolInv, [Next]_vars PROVE MempoolInv'
<1>1. CASE \E batch \in Batches : HandleTransactions(batch)
  BY <1>1, HandleMempool
<1>2. CASE LazyCheck
  <2>1. PICK r : r = CheckPool(pool, committed, height, Indexed, poolMode, cancelled)
    OBVIOUS
  <2>2. PICK x : x = r.failed
    OBVIOUS
  <2>3. /\ hung' = hung
        /\ \/ UNCHANGED <<pool, bytes>>
           \/ pool' = DeleteTransaction(pool, bytes, x).pool /\ bytes' = DeleteTransaction(pool, bytes, x).bytes
    BY <1>2, <2>1, <2>2 DEF LazyCheck
  <2> QED
    BY <2>3, DeleteMempool
<1>3. CASE CommitFails
  <2>1. PICK x : x = ToSet(certified[1].txs)
    OBVIOUS
  <2>2. /\ hung' = hung
        /\ \/ UNCHANGED <<pool, bytes>>
           \/ pool' = DeleteTransaction(pool, bytes, x).pool /\ bytes' = DeleteTransaction(pool, bytes, x).bytes
    BY <1>3, <2>1 DEF CommitFails
  <2> QED
    BY <2>2, DeleteMempool
<1>4. CASE CommitCertificate
  BY <1>4, CommitMempool
<1>5. CASE \/ LazyBegin \/ LazyEnd \/ ProduceProposal \/ ValidateEnd \/ RoundInterrupt \/ UNCHANGED vars
           \/ \E b \in Proposals \cup {cached.block} : ValidateBegin(b)
           \/ \E b \in Proposals : CommitBegin(b)
  <2>1. UNCHANGED <<pool, bytes, hung>>
    BY <1>5 DEF LazyBegin, LazyEnd, ProduceProposal, ValidateEnd, RoundInterrupt, ValidateBegin, CommitBegin,
                poolVars, vars
  <2> QED
    BY <2>1 DEF MempoolInv
<1> QED
  BY <1>1, <1>2, <1>3, <1>4, <1>5 DEF Next

LEMMA InitMempool == ASSUME Init PROVE MempoolInv
<1>1. pool = <<>> /\ bytes = 0 /\ hung = FALSE
  BY DEF Init
<1>2. pool \in Seq(Legal) /\ Len(pool) = 0 /\ Bytes(pool) = 0
  BY <1>1, BytesOne
<1>3. Ordered(pool)
  BY <1>1 DEF Ordered
<1>4. Counted(pool, bytes)
  BY <1>1, <1>2, <1>3 DEF Counted
<1>5. Within(pool)
  BY <1>2, PoolAssumption DEF Within
<1> QED
  BY <1>1, <1>4, <1>5 DEF MempoolInv

-----------------------------------------------------------------------------
(* The cached proposal. *)

\* The lists are of transactions, and the state machines differ from the committed state in
\* what a block wrote.
ProposalInv ==
  /\ pool \in Seq(Txs) /\ cached.block.txs \in Seq(Txs)
  /\ lock = "validate" => candidate[1].txs \in Seq(Txs)
  /\ Machine(fsm) /\ Machine(Clean)
  /\ ProposalReproducible

\* The order of the pool leaves no room for duplicates.
LEMMA OrderedDistinct == ASSUME NEW s, Ordered(s) PROVE Distinct(s)
BY DEF Ordered, Distinct

\* What the mempool proposes on the committed state.
LEMMA PoolValid ==
  ASSUME Machine(Clean), NEW s \in Seq(Txs), Distinct(s), NEW m, NEW c, NEW r, r = Pooled(Clean, s, height, Indexed, m, c),
         ~r.oversize
  PROVE  Valid(Clean, r.block, AcceptAll)
<1>1. PICK b : b = r.block
  OBVIOUS
<1>2. PICK f : f = Clean
  OBVIOUS
<1>3. PICK h, ix : h = height /\ ix = Indexed
  OBVIOUS
<1>4. Machine(f) /\ Fitted(f, s, h, ix, m, c) /\ b = Pooled(f, s, h, ix, m, c).block
  BY <1>1, <1>2, <1>3 DEF Fitted
<1>5. Repeats(f, b, h, ix)
  BY <1>4, PoolBlock
<1>6. Valid(f, b, AcceptAll)
  BY <1>3, <1>5 DEF Valid, Apply, Run, Repeats
<1> QED
  BY <1>1, <1>2, <1>6

\* Steps that leave the proposal and the committed state alone.
LEMMA SameProposal ==
  ASSUME ProposalInv, UNCHANGED <<cached, committed, height, chain>>, pool' \in Seq(Txs), Machine(fsm'),
         lock' = "validate" => candidate'[1].txs \in Seq(Txs)
  PROVE  ProposalInv'
<1>1. Clean' = Clean
  BY DEF Clean
<1>2. ASSUME NEW b PROVE Valid(Clean, b, AcceptAll) => Valid(Clean, b, AcceptAll)'
  BY DEF Valid, Apply, Clean, Indexed
<1>3. ProposalReproducible'
  BY <1>2 DEF ProposalInv, ProposalReproducible
<1> QED
  BY <1>1, <1>3 DEF ProposalInv

\* LazyCheck
LEMMA LazyCheckProposal == ASSUME ProposalInv, MempoolInv, LazyCheck PROVE ProposalInv'
<1>1. PICK r : r = Pooled(Clean, pool, height, Indexed, poolMode, cancelled)
  OBVIOUS
<1>2. r = CheckPool(pool, committed, height, Indexed, poolMode, cancelled)
  BY <1>1 DEF Pooled, CheckPool, Clean
<1>3. UNCHANGED <<committed, height, chain, fsm, lock, candidate>>
  BY DEF LazyCheck, chainVars
<1>4. pool' \in Seq(Txs)
  <2>1. pool' \in {pool, Without(pool, r.failed)}
    BY <1>2 DEF LazyCheck, DeleteTransaction
  <2> QED
    BY <2>1, RemainingTxs DEF ProposalInv
<1>5. CASE cached' = cached
  BY <1>3, <1>4, <1>5, SameProposal DEF ProposalInv
<1>6. CASE cached' = [block |-> r.block, oversize |-> r.oversize]
  <2>1. cached'.block = r.block /\ cached'.oversize = r.oversize
    BY <1>6
  <2>2. pool \in Seq(Txs) /\ Machine(Clean) /\ Distinct(pool)
    BY OrderedDistinct DEF ProposalInv, MempoolInv, Counted
  <2>3. r.block.txs \in Seq(Txs)
    BY <1>1, <2>2, PooledTxs
  <2>4. ~r.oversize => Valid(Clean, r.block, AcceptAll)
    BY <1>1, <2>2, PoolValid
  <2>5. Clean' = Clean
    BY <1>3 DEF Clean
  <2>6. ASSUME NEW b PROVE Valid(Clean, b, AcceptAll) => Valid(Clean, b, AcceptAll)'
    BY <1>3 DEF Valid, Apply, Clean, Indexed
  <2>7. ProposalReproducible'
    BY <2>1, <2>4, <2>6 DEF ProposalReproducible
  <2> QED
    BY <1>3, <1>4, <2>1, <2>3, <2>5, <2>7 DEF ProposalInv
<1> QED
  BY <1>2, <1>5, <1>6 DEF LazyCheck

\* The state machine after a valid block, and after a reset.
LEMMA AppliedMachine ==
  ASSUME NEW f, Machine(f), NEW b, b.txs \in Seq(Txs), NEW m, Valid(f, b, m)
  PROVE  Machine(Apply(f, b, m).fsm)
<1>1. PICK h, ix, s : h = height /\ ix = Indexed /\ s = b.txs
  OBVIOUS
<1>2. s \in Seq(Txs) /\ Apply(f, b, m) = Run(f, s, h, ix, m) /\ ~Run(f, s, h, ix, m).error
  BY <1>1 DEF Valid, Apply, Run
<1>3. Machine(Run(f, s, h, ix, m).fsm)
  BY <1>2, RunMachine
<1> QED
  BY <1>2, <1>3

\* The steps under Mempool.L.
LEMMA PoolProposal ==
  ASSUME ProposalInv, (\E batch \in Batches : HandleTransactions(batch)) \/ LazyBegin \/ LazyEnd \/ UNCHANGED vars
  PROVE  ProposalInv'
<1>1. UNCHANGED <<cached, committed, height, chain, fsm, lock, candidate>>
  BY DEF HandleTransactions, LazyBegin, LazyEnd, chainVars, lockVars, vars
<1>2. pool' \in Seq(Txs)
  <2>1. CASE \E batch \in Batches : HandleTransactions(batch)
    <3>1. PICK batch \in Batches : HandleTransactions(batch)
      BY <2>1
    <3>2. pool \in Seq(Txs) /\ batch \in Seq(Txs)
      BY ControllerAssumption DEF ProposalInv
    <3>3. pool' = AddTransactions(pool, bytes, batch).pool
      BY <3>1 DEF HandleTransactions
    <3> QED
      BY <3>2, <3>3, AddTxs
  <2>2. CASE LazyBegin \/ LazyEnd \/ UNCHANGED vars
    BY <2>2 DEF LazyBegin, LazyEnd, poolVars, vars, ProposalInv
  <2> QED
    BY <2>1, <2>2
<1> QED
  BY <1>1, <1>2, SameProposal DEF ProposalInv

\* The steps of consensus.
LEMMA ConsensusProposal ==
  ASSUME ProposalInv, ProduceProposal \/ (\E b \in Proposals \cup {cached.block} : ValidateBegin(b))
                      \/ ValidateEnd \/ RoundInterrupt \/ (\E b \in Proposals : CommitBegin(b))
  PROVE  ProposalInv'
<1>1. UNCHANGED <<cached, committed, height, chain, pool>>
  BY DEF ProduceProposal, ValidateBegin, ValidateEnd, RoundInterrupt, CommitBegin, chainVars, poolVars
<1>2. pool' \in Seq(Txs) /\ Machine(Clean) /\ Machine(fsm)
  BY <1>1 DEF ProposalInv
<1>3. CASE ProduceProposal \/ RoundInterrupt
  <2>1. fsm' = Clean /\ lock' = "free"
    BY <1>3 DEF ProduceProposal, RoundInterrupt, lockVars
  <2> QED
    BY <1>1, <1>2, <2>1, SameProposal
<1>4. CASE \E b \in Proposals \cup {cached.block} : ValidateBegin(b)
  <2>1. PICK b \in Proposals \cup {cached.block} : ValidateBegin(b)
    BY <1>4
  <2>2. b.txs \in Seq(Txs)
    BY ProposedTxs DEF ProposalInv
  <2>3. fsm' = Clean /\ candidate' = <<b>>
    BY <2>1 DEF ValidateBegin
  <2>4. candidate'[1] = b
    BY <2>3
  <2> QED
    BY <1>1, <1>2, <2>2, <2>3, <2>4, SameProposal
<1>5. CASE ValidateEnd
  <2>1. PICK b, m : b = candidate[1] /\ m = mode
    OBVIOUS
  <2>2. lock' = "free" /\ b.txs \in Seq(Txs)
    BY <1>5, <2>1 DEF ValidateEnd, ProposalInv
  <2>3. Machine(fsm')
    <3>1. CASE Valid(fsm, b, m)
      <4>1. fsm' = Apply(fsm, b, m).fsm
        BY <1>5, <2>1, <3>1 DEF ValidateEnd
      <4>2. PICK f : f = fsm
        OBVIOUS
      <4>3. Machine(Apply(f, b, m).fsm)
        BY <1>2, <2>2, <3>1, <4>2, AppliedMachine
      <4> QED
        BY <4>1, <4>2, <4>3
    <3>2. CASE ~Valid(fsm, b, m)
      BY <1>2, <1>5, <2>1, <3>2 DEF ValidateEnd
    <3> QED
      BY <3>1, <3>2
  <2> QED
    BY <1>1, <1>2, <2>2, <2>3, SameProposal
<1>6. CASE \E b \in Proposals : CommitBegin(b)
  <2>1. fsm' = fsm /\ lock' = "commit"
    BY <1>6 DEF CommitBegin
  <2> QED
    BY <1>1, <1>2, <2>1, SameProposal
<1> QED
  BY <1>3, <1>4, <1>5, <1>6

\* A commit that the database fails.
LEMMA FailsProposal == ASSUME ProposalInv, CommitFails PROVE ProposalInv'
<1>1. UNCHANGED <<cached, committed, height, chain>> /\ fsm' = Clean /\ lock' = "free"
  BY DEF CommitFails
<1>2. pool' \in {pool, Without(pool, ToSet(certified[1].txs))}
  BY DEF CommitFails, DeleteTransaction
<1>3. pool' \in Seq(Txs) /\ Machine(Clean)
  BY <1>2, RemainingTxs DEF ProposalInv
<1> QED
  BY <1>1, <1>3, SameProposal

\* A state machine whose caches were cleared.
LEMMA ClearedMachine ==
  ASSUME NEW f, Machine(f)
  PROVE  Machine([acc |-> f.acc, fees |-> f.fees, cache |-> NoCache])
BY DEF Machine, NoCache

\* The index after one more block.
LEMMA IndexedAppend ==
  ASSUME ReplayInv, NEW b, chain' = Append(chain, b)
  PROVE  Indexed' = Indexed \cup ToSet(b.txs)
<1>1. PICK B : B = ToSet(chain)
  OBVIOUS
<1>2. chain \in Seq(B \cup {b}) /\ b \in B \cup {b} /\ Len(chain) \in Nat
  BY <1>1 DEF ReplayInv, Shapes
<1>3. /\ DOMAIN chain' = 1 .. Len(chain) + 1 /\ DOMAIN chain = 1 .. Len(chain)
      /\ chain'[Len(chain) + 1] = b /\ \A i \in DOMAIN chain : chain'[i] = chain[i]
  BY <1>2
<1>4. DOMAIN chain' = DOMAIN chain \cup {Len(chain) + 1}
  BY <1>2, <1>3
<1> DEFINE T(i) == ToSet(chain[i].txs)
           U(i) == ToSet(chain'[i].txs)
<1>5. U(Len(chain) + 1) = ToSet(b.txs) /\ \A i \in DOMAIN chain : U(i) = T(i)
  BY <1>3
<1>6. Indexed = UNION {T(i) : i \in DOMAIN chain} /\ Indexed' = UNION {U(i) : i \in DOMAIN chain'}
  BY DEF Indexed
<1> HIDE DEF T, U
<1> QED
  BY <1>4, <1>5, <1>6

\* CommitCertificate: the pool is checked again on the state that was committed.
LEMMA CommitProposal == ASSUME Inv, ReplayInv, ProposalInv, MempoolInv, CommitCertificate PROVE ProposalInv'
<1>1. PICK b : b = certified[1]
  OBVIOUS
<1>2. CommitReady /\ CommitBlock /\ mode = AcceptAll
  BY CommitAccepts DEF CommitCertificate
<1>3. /\ b.txs \in Seq(Txs) /\ Valid(Clean, b, AcceptAll)
      /\ pool \in Seq(Txs) /\ Machine(Clean) /\ Machine(fsm)
  BY <1>1, <1>2 DEF CommitReady, Inv, CertifiedValid, ReplayInv, CertifiedShape, ProposalInv
<1>4. PICK g : g = BlockApplied
  OBVIOUS
<1>5. Machine(g)
  <2>1. CASE Precalculated
    BY <1>3, <1>4, <2>1 DEF BlockApplied
  <2>2. CASE ~Precalculated
    <3>1. PICK f, m : f = Clean /\ m = AcceptAll
      OBVIOUS
    <3>2. g = Apply(f, b, m).fsm
      BY <1>1, <1>2, <1>4, <2>2, <3>1 DEF BlockApplied
    <3> QED
      BY <1>3, <3>1, <3>2, AppliedMachine
  <2> QED
    BY <2>1, <2>2
<1>6. PICK s : s = Without(pool, ToSet(b.txs))
  OBVIOUS
<1>7. PICK k : k = [acc |-> g.acc, fees |-> g.fees, cache |-> NoCache]
  OBVIOUS
<1>8. PICK c : c = FALSE
  OBVIOUS
<1>9. PICK h, ix : h = height + 1 /\ ix = Indexed \cup ToSet(b.txs)
  OBVIOUS
<1>10. PICK r : r = Pooled(k, s, h, ix, AcceptAll, c)
  OBVIOUS
<1>11. s \in Seq(Txs) /\ Machine(k) /\ Distinct(s)
  <2>1. s \in Seq(Txs) /\ Machine(k)
    BY <1>3, <1>5, <1>6, <1>7, RemainingTxs, ClearedMachine
  <2>2. PICK p : p = pool
    OBVIOUS
  <2>3. p \in Seq(Txs) /\ Ordered(p)
    BY <1>3, <2>2 DEF MempoolInv, Counted
  <2>4. Distinct(s)
    BY <1>6, <2>2, <2>3, WithoutOrdered, OrderedDistinct
  <2> QED
    BY <2>1, <2>4
<1>12. /\ committed' = [acc |-> g.acc, fees |-> g.fees] /\ fsm' = k
       /\ cached' = [block |-> r.block, oversize |-> r.oversize]
       /\ pool' = Without(s, r.failed)
  <2>1. PICK state : state = [acc |-> g.acc, fees |-> g.fees]
    OBVIOUS
  <2>2. DeleteTransaction(pool, bytes, ToSet(certified[1].txs)).pool = s
    BY <1>1, <1>6 DEF DeleteTransaction
  <2>3. Recheck(s, height + 1, state) = r
    BY <1>1, <1>7, <1>8, <1>9, <1>10, <2>1 DEF Recheck, CheckPool, Pooled
  <2> QED
    BY <1>2, <1>4, <1>7, <2>1, <2>2, <2>3 DEF CommitBlock, DeleteTransaction
<1>13. chain' = Append(chain, b) /\ height' = h /\ lock' = "free"
  BY <1>1, <1>2, <1>9 DEF CommitBlock
<1>14. Indexed' = ix
  BY <1>9, <1>13, IndexedAppend
<1>15. Clean' = k
  BY <1>7, <1>12 DEF Clean
<1>16. pool' \in Seq(Txs)
  BY <1>11, <1>12, RemainingTxs
<1>17. cached'.block = r.block /\ cached'.oversize = r.oversize
  BY <1>12
<1>18. r.block.txs \in Seq(Txs)
  BY <1>10, <1>11, PooledTxs
<1>19. ~r.oversize => Repeats(k, r.block, h, ix)
  BY <1>10, <1>11, PoolBlock DEF Fitted
<1>20. ASSUME NEW x, Repeats(k, x, h, ix) PROVE Valid(Clean, x, AcceptAll)'
  BY <1>13, <1>14, <1>15, <1>20 DEF Valid, Apply, Run, Repeats
<1>21. ProposalReproducible'
  BY <1>17, <1>19, <1>20 DEF ProposalReproducible
<1> QED
  BY <1>11, <1>12, <1>13, <1>15, <1>16, <1>17, <1>18, <1>21 DEF ProposalInv

\* The block of genesis: no transaction.
LEMMA InitProposal == ASSUME Init PROVE ProposalInv
<1>1. PICK k : k = [acc |-> Genesis, fees |-> 0, cache |-> NoCache]
  OBVIOUS
<1>2. Machine(k)
  BY <1>1, ControllerAssumption DEF Machine, NoCache
<1>3. fsm = k /\ Clean = k /\ pool = <<>> /\ lock = "free" /\ chain = <<>>
  BY <1>1 DEF Init, Clean
<1>4. Indexed = {}
  BY <1>3 DEF Indexed
<1>5. PICK c : c = FALSE
  OBVIOUS
<1>6. PICK s : s = pool
  OBVIOUS
<1>7. PICK r : r = Pooled(k, s, height, Indexed, AcceptAll, c)
  OBVIOUS
<1>8. s \in Seq(Txs) /\ Len(s) = 0 /\ Len(s) \in Nat /\ Distinct(s)
  BY <1>3, <1>6 DEF Distinct
<1>9. cached = [block |-> r.block, oversize |-> FALSE]
  BY <1>1, <1>3, <1>4, <1>5, <1>6, <1>7 DEF Init, CheckPool, Pooled
<1>10. cached.block = r.block /\ r.block.txs \in Seq(Txs)
  BY <1>7, <1>8, <1>9, PooledTxs
<1>11. ~r.oversize
  <2>1. PICK h, ix, m : h = height /\ ix = Indexed /\ m = AcceptAll
    OBVIOUS
  <2>2. PICK u : u = ApplyTransactions(k, s, h, ix, m)
    OBVIOUS
  <2>3. PICK q : q = Pooled(k, s, h, ix, m, c)
    OBVIOUS
  <2>4. q.oversize = u.oversize
    BY <2>2, <2>3 DEF Pooled, ApplyBlock
  <2>5. PICK p : p = Progress(k, s, h, ix, m)[0]
    OBVIOUS
  <2>6. p = Start(k)
    BY <1>8, <2>5, ProgressSteps
  <2>7. u = Unwrapped(p)
    BY <1>8, <2>2, <2>5 DEF ApplyTransactions
  <2>8. ~u.oversize
    BY <2>6, <2>7 DEF Start, Unwrapped
  <2> QED
    BY <1>7, <2>1, <2>3, <2>4, <2>8
<1>12. Valid(Clean, r.block, AcceptAll)
  BY <1>2, <1>3, <1>7, <1>8, <1>11, PoolValid
<1>13. ProposalReproducible
  BY <1>10, <1>12 DEF ProposalReproducible
<1> QED
  BY <1>2, <1>3, <1>6, <1>8, <1>10, <1>13 DEF ProposalInv

\* Every step.
LEMMA NextProposal == ASSUME Inv, ReplayInv, ProposalInv, MempoolInv, [Next]_vars PROVE ProposalInv'
BY PoolProposal, LazyCheckProposal, ConsensusProposal, CommitProposal, FailsProposal DEF Next

\* The block a leader would send can be executed again: CheckMempool builds it on the
\* committed state, from a loop over the whole pool whose failed transactions leave their
\* caches behind, and whoever validates it runs ApplyBlock over the transactions that were
\* taken, to the same header.  It holds whatever batches, commits, failed commits and
\* interrupted rounds come between (Mempool.cachedProposal and ProduceProposal in
\* controller/tx.go and controller/block.go, ApplyTransactions in fsm/state.go).
THEOREM ProposalReproducibleHolds == Spec => []ProposalReproducible
<1> DEFINE I == Inv /\ ReplayInv /\ mode \in Modes /\ MempoolInv /\ ProposalInv
<1>1. Init => I
  BY InitInv, InitReplay, InitMempool, InitProposal DEF Init, Modes
<1>2. I /\ [Next]_vars => I'
  BY NextInv, NextReplay, NextMempool, NextProposal
<1>3. I => ProposalReproducible
  BY DEF ProposalInv
<1> QED
  BY <1>1, <1>2, <1>3, PTL DEF Spec

-----------------------------------------------------------------------------
(* The values of the controller. *)

Held(s) == s = <<>> \/ s[1] \in Block

Heights == chain \in Seq(Block) /\ height = FirstHeight + Len(chain)

Locks == lock \in {"free", "validate", "commit"} /\ lazy \in {"idle", "begun", "checked"}

\* The types, with balances in every cache.
ValuesInv ==
  /\ cached.block \in Block /\ cached.oversize \in BOOLEAN
  /\ committed \in [acc : [Accounts -> Nat], fees : Nat] /\ Funded(fsm)
  /\ mode \in Modes /\ poolMode \in Modes
  /\ Held(result) /\ Held(candidate) /\ Held(certified)
  /\ Locks /\ Heights

\* A state machine on a state of the store is funded.
LEMMA FundedStore ==
  ASSUME NEW c \in [acc : [Accounts -> Nat], fees : Nat]
  PROVE  Funded([acc |-> c.acc, fees |-> c.fees, cache |-> NoCache])
BY DEF Funded, NoCache

LEMMA FundedClean == ASSUME ValuesInv PROVE Funded(Clean)
<1>1. PICK c : c = committed
  OBVIOUS
<1>2. c \in [acc : [Accounts -> Nat], fees : Nat]
  BY <1>1 DEF ValuesInv
<1>3. Funded([acc |-> c.acc, fees |-> c.fees, cache |-> NoCache])
  BY <1>2, FundedStore
<1> QED
  BY <1>1, <1>3 DEF Clean

\* The block that is proposed or certified.
LEMMA ProposedBlock == ASSUME ValuesInv, height \in Nat, NEW b \in Proposals PROVE b \in Block
<1>1. PICK txs \in Selections : b = Honest(txs)
  BY DEF Proposals
<1>2. PICK f, h, ix, m : f = Clean /\ h = height /\ ix = Indexed /\ m = AcceptAll
  OBVIOUS
<1>3. Funded(f) /\ txs \in Seq(Txs) /\ h \in Nat
  BY <1>2, FundedClean, ControllerAssumption
<1>4. Run(f, txs, h, ix, m).block \in Block
  BY <1>3, BlockTyped
<1> QED
  BY <1>1, <1>2, <1>4 DEF Honest, Run

\* The state machine that a block leaves.
LEMMA AppliedFunded ==
  ASSUME height \in Nat, NEW f, Funded(f), NEW b \in Block, NEW m
  PROVE  Funded(Apply(f, b, m).fsm)
<1>1. PICK h, ix, s : h = height /\ ix = Indexed /\ s = b.txs
  OBVIOUS
<1>2. s \in Seq(Txs) /\ h \in Nat
  BY <1>1 DEF Block
<1>3. Funded(Run(f, s, h, ix, m).fsm)
  BY <1>2, BlockTyped
<1> QED
  BY <1>1, <1>3 DEF Apply, Run

\* The proposal of a check of the pool.
LEMMA CheckedProposal ==
  ASSUME NEW c \in [acc : [Accounts -> Nat], fees : Nat], NEW s \in Seq(Txs), NEW h \in Nat, NEW ix, NEW m, NEW x
  PROVE  CheckPool(s, c, h, ix, m, x).block \in Block /\ CheckPool(s, c, h, ix, m, x).oversize \in BOOLEAN
<1>1. PICK f : f = [acc |-> c.acc, fees |-> c.fees, cache |-> NoCache]
  OBVIOUS
<1>2. Funded(f)
  BY <1>1, FundedStore
<1>3. Pooled(f, s, h, ix, m, x).block \in Block /\ Pooled(f, s, h, ix, m, x).oversize \in BOOLEAN
  BY <1>2, BlockTyped
<1>4. CheckPool(s, c, h, ix, m, x) = Pooled(f, s, h, ix, m, x)
  BY <1>1 DEF CheckPool, Pooled
<1> QED
  BY <1>3, <1>4

\* The steps under Mempool.L.
LEMMA PoolValues ==
  ASSUME ValuesInv, height \in Nat, pool \in Seq(Txs),
         (\E batch \in Batches : HandleTransactions(batch)) \/ LazyBegin \/ LazyCheck \/ LazyEnd \/ UNCHANGED vars
  PROVE  ValuesInv'
<1>1. UNCHANGED <<committed, fsm, result, candidate, certified, lock, chain, height>>
  BY DEF HandleTransactions, LazyBegin, LazyCheck, LazyEnd, chainVars, lockVars, vars
<1>2. lazy' \in {"idle", "begun", "checked"}
  BY DEF HandleTransactions, LazyBegin, LazyCheck, LazyEnd, lockVars, vars, ValuesInv, Locks
<1>3. mode' \in Modes /\ poolMode' \in Modes
  BY DEF HandleTransactions, LazyBegin, LazyCheck, LazyEnd, vars, ValuesInv, SetConsensusMode, ResetMode, Modes
<1>4. cached'.block \in Block /\ cached'.oversize \in BOOLEAN
  <2>1. CASE cached' = cached
    BY <2>1 DEF ValuesInv
  <2>2. CASE cached' # cached
    <3>1. PICK c, s, h, ix, m, x : /\ c = committed /\ s = pool /\ h = height /\ ix = Indexed
                                   /\ m = poolMode /\ x = cancelled
      OBVIOUS
    <3>2. PICK r : r = CheckPool(s, c, h, ix, m, x)
      OBVIOUS
    <3>3. LazyCheck
      BY <2>2 DEF HandleTransactions, LazyBegin, LazyEnd, vars
    <3>4. cached' = [block |-> r.block, oversize |-> r.oversize]
      BY <2>2, <3>1, <3>2, <3>3 DEF LazyCheck
    <3>5. r.block \in Block /\ r.oversize \in BOOLEAN
      BY <3>1, <3>2, CheckedProposal DEF ValuesInv
    <3> QED
      BY <3>4, <3>5
  <2> QED
    BY <2>1, <2>2
<1>5. Locks' /\ Heights'
  BY <1>1, <1>2 DEF ValuesInv, Locks, Heights
<1>6. Held(result)' /\ Held(candidate)' /\ Held(certified)'
  BY <1>1 DEF ValuesInv, Held
<1> QED
  BY <1>1, <1>3, <1>4, <1>5, <1>6 DEF ValuesInv

\* The steps under the controller lock.
LEMMA ConsensusValues ==
  ASSUME ValuesInv, height \in Nat, lock = "validate" => candidate = <<candidate[1]>>,
         \/ ProduceProposal \/ ValidateEnd \/ RoundInterrupt \/ CommitFails
         \/ \E b \in Proposals \cup {cached.block} : ValidateBegin(b)
         \/ \E b \in Proposals : CommitBegin(b)
  PROVE  ValuesInv'
<1>1. UNCHANGED <<cached, committed, chain, height, lazy>>
  BY DEF ProduceProposal, ValidateEnd, RoundInterrupt, CommitFails, ValidateBegin, CommitBegin, chainVars, lockVars
<1>2. lock' \in {"free", "validate", "commit"}
  BY DEF ProduceProposal, ValidateEnd, RoundInterrupt, CommitFails, ValidateBegin, CommitBegin, lockVars,
         ValuesInv, Locks
<1>3. mode' \in Modes /\ poolMode' \in Modes
  BY DEF ProduceProposal, ValidateEnd, RoundInterrupt, CommitFails, ValidateBegin, CommitBegin,
         ValuesInv, SetConsensusMode, ResetMode, Modes
<1>4. \A b \in Proposals \cup {cached.block} : b \in Block
  BY ProposedBlock DEF ValuesInv
<1>5. ASSUME NEW b \in Block PROVE Held(<<b>>)
  BY DEF Held
<1>6. Held(result)' /\ Held(candidate)' /\ Held(certified)'
  <2>1. Held(<<>>)
    BY DEF Held
  <2>2. CASE ProduceProposal \/ RoundInterrupt \/ CommitFails
    <3>1. result' \in {result, <<>>} /\ candidate' = candidate /\ certified' = certified
      BY <2>2 DEF ProduceProposal, RoundInterrupt, CommitFails, chainVars, lockVars
    <3> QED
      BY <2>1, <3>1 DEF ValuesInv
  <2>3. CASE ValidateEnd
    <3>1. result' \in {candidate, <<>>} /\ candidate' = <<>> /\ certified' = certified
      BY <2>3 DEF ValidateEnd, chainVars
    <3> QED
      BY <2>1, <3>1 DEF ValuesInv
  <2>4. CASE \E b \in Proposals \cup {cached.block} : ValidateBegin(b)
    <3>1. PICK b \in Block : candidate' = <<b>> /\ result' = result /\ certified' = certified
      BY <1>4, <2>4 DEF ValidateBegin, chainVars
    <3> QED
      BY <1>5, <3>1 DEF ValuesInv
  <2>5. CASE \E b \in Proposals : CommitBegin(b)
    <3>1. PICK b \in Block : certified' = <<b>> /\ result' = result /\ candidate' = candidate
      BY <1>4, <2>5 DEF CommitBegin
    <3> QED
      BY <1>5, <3>1 DEF ValuesInv
  <2> QED
    BY <2>2, <2>3, <2>4, <2>5
<1>7. Funded(fsm')
  <2>1. Funded(fsm) /\ Funded(Clean)
    BY FundedClean DEF ValuesInv
  <2>2. CASE fsm' \in {fsm, Clean}
    BY <2>1, <2>2
  <2>3. CASE fsm' \notin {fsm, Clean}
    <3>1. ValidateEnd
      BY <2>3 DEF ProduceProposal, RoundInterrupt, CommitFails, ValidateBegin, CommitBegin
    <3>2. PICK b, f, m : b = candidate[1] /\ f = fsm /\ m = mode
      OBVIOUS
    <3>3. fsm' = Apply(f, b, m).fsm /\ lock = "validate"
      BY <2>3, <3>1, <3>2 DEF ValidateEnd
    <3>4. candidate # <<>>
      <4>1. candidate = <<b>>
        BY <3>2, <3>3
      <4>2. Len(<<b>>) = 1 /\ Len(<<>>) = 0
        OBVIOUS
      <4> QED
        BY <4>1, <4>2
    <3>5. b \in Block
      BY <3>2, <3>4 DEF ValuesInv, Held
    <3>6. Funded(Apply(f, b, m).fsm)
      BY <2>1, <3>2, <3>5, AppliedFunded
    <3> QED
      BY <3>3, <3>6
  <2> QED
    BY <2>2, <2>3
<1>8. Locks' /\ Heights'
  BY <1>1, <1>2 DEF ValuesInv, Locks, Heights
<1> QED
  BY <1>1, <1>3, <1>6, <1>7, <1>8 DEF ValuesInv

\* CommitCertificate: the new state of the store, and the proposal for the next height.
LEMMA CommitValues ==
  ASSUME Inv, ValuesInv, height \in Nat, pool \in Seq(Txs), CommitCertificate
  PROVE  ValuesInv'
<1>1. CommitReady /\ CommitBlock
  BY CommitAccepts DEF CommitCertificate
<1>2. PICK b : b = certified[1]
  OBVIOUS
<1>3. b \in Block
  BY <1>1, <1>2 DEF CommitReady, Inv, CertifiedValid, ValuesInv, Held
<1>4. PICK g : g = BlockApplied
  OBVIOUS
<1>5. Funded(g)
  <2>1. Funded(fsm) /\ Funded(Clean)
    BY FundedClean DEF ValuesInv
  <2>2. PICK f, m : f = Clean /\ m = mode
    OBVIOUS
  <2>3. Funded(Apply(f, b, m).fsm)
    BY <1>3, <2>1, <2>2, AppliedFunded
  <2>4. g = fsm \/ g = Apply(f, b, m).fsm
    BY <1>2, <1>4, <2>2 DEF BlockApplied
  <2> QED
    BY <2>1, <2>3, <2>4
<1>6. PICK c : c = [acc |-> g.acc, fees |-> g.fees]
  OBVIOUS
<1>7. c \in [acc : [Accounts -> Nat], fees : Nat]
  BY <1>5, <1>6 DEF Funded
<1>8. PICK k : k = [acc |-> c.acc, fees |-> c.fees, cache |-> NoCache]
  OBVIOUS
<1>9. Funded(k)
  BY <1>7, <1>8, FundedStore
<1>10. PICK s : s = Without(pool, ToSet(b.txs))
  OBVIOUS
<1>11. s \in Seq(Txs)
  BY <1>10, RemainingTxs
<1>12. PICK h, ix, x : h = height + 1 /\ ix = Indexed \cup ToSet(b.txs) /\ x = FALSE
  OBVIOUS
<1>13. PICK r : r = CheckPool(s, c, h, ix, AcceptAll, x)
  OBVIOUS
<1>14. r.block \in Block /\ r.oversize \in BOOLEAN
  <2>1. h \in Nat
    BY <1>12
  <2>2. PICK m : m = AcceptAll
    OBVIOUS
  <2> QED
    BY <1>7, <1>11, <1>13, <2>1, <2>2, CheckedProposal
<1>15. committed' = c /\ fsm' = k /\ cached' = [block |-> r.block, oversize |-> r.oversize]
  <2>1. DeleteTransaction(pool, bytes, ToSet(certified[1].txs)).pool = s
    BY <1>2, <1>10 DEF DeleteTransaction
  <2>2. Recheck(s, height + 1, c) = r
    BY <1>2, <1>12, <1>13 DEF Recheck
  <2> QED
    BY <1>1, <1>4, <1>6, <1>8, <2>1, <2>2 DEF CommitBlock
<1>16. cached'.block = r.block /\ cached'.oversize = r.oversize
  BY <1>15
<1>17. /\ chain' = Append(chain, b) /\ height' = height + 1 /\ certified' = <<>> /\ lock' = "free"
       /\ UNCHANGED <<result, candidate, lazy>> /\ mode' = AcceptAll /\ poolMode' = AcceptAll
  BY <1>1, <1>2 DEF CommitBlock, ResetMode
<1>18. Heights'
  <2>1. chain \in Seq(Block) /\ height = FirstHeight + Len(chain) /\ FirstHeight \in Nat /\ Len(chain) \in Nat
    BY ControllerAssumption DEF ValuesInv, Heights
  <2>2. chain' \in Seq(Block) /\ Len(chain') = Len(chain) + 1
    BY <1>3, <1>17, <2>1
  <2> QED
    BY <1>17, <2>1, <2>2 DEF Heights
<1>19. Held(result)' /\ Held(candidate)' /\ Held(certified)' /\ Locks'
  BY <1>17 DEF ValuesInv, Held, Locks
<1>20. mode' \in Modes /\ poolMode' \in Modes
  BY <1>17 DEF Modes
<1> QED
  BY <1>7, <1>9, <1>14, <1>15, <1>16, <1>18, <1>19, <1>20 DEF ValuesInv

\* Every step, and the initial state.
LEMMA NextValues == ASSUME Inv, ReplayInv, ProposalInv, ValuesInv, [Next]_vars PROVE ValuesInv'
<1>1. height \in Nat /\ pool \in Seq(Txs) /\ (lock = "validate" => candidate = <<candidate[1]>>)
  BY DEF ReplayInv, Shapes, ProposalInv
<1> QED
  BY <1>1, PoolValues, ConsensusValues, CommitValues DEF Next

LEMMA InitValues == ASSUME Init PROVE ValuesInv
<1>1. PICK c : c = [acc |-> Genesis, fees |-> 0]
  OBVIOUS
<1>2. c \in [acc : [Accounts -> Nat], fees : Nat]
  BY <1>1, ControllerAssumption
<1>3. committed = c /\ fsm = [acc |-> c.acc, fees |-> c.fees, cache |-> NoCache]
  BY <1>1 DEF Init
<1>4. Funded(fsm)
  BY <1>2, <1>3, FundedStore
<1>5. PICK s, ix, m, x, h : s = <<>> /\ ix = {} /\ m = AcceptAll /\ x = FALSE /\ h = height
  OBVIOUS
<1>6. PICK r : r = CheckPool(s, c, h, ix, m, x)
  OBVIOUS
<1>7. s \in Seq(Txs) /\ h \in Nat
  BY <1>5, ControllerAssumption DEF Init
<1>8. r.block \in Block
  BY <1>2, <1>6, <1>7, CheckedProposal
<1>9. cached = [block |-> r.block, oversize |-> FALSE]
  BY <1>3, <1>5, <1>6 DEF Init
<1>10. cached.block \in Block /\ cached.oversize \in BOOLEAN
  BY <1>8, <1>9
<1>11. Heights
  BY ControllerAssumption DEF Init, Heights
<1>12. Held(result) /\ Held(candidate) /\ Held(certified) /\ Locks /\ mode \in Modes /\ poolMode \in Modes
  BY DEF Init, Held, Locks, Modes
<1> QED
  BY <1>2, <1>3, <1>4, <1>10, <1>11, <1>12 DEF ValuesInv

\* The parts of the invariant that is checked.
LEMMA InvOfParts == ASSUME Inv, MempoolInv, ValuesInv PROVE ControllerInv
<1>1. PoolBounded
  BY DEF MempoolInv, Counted, Within, Ordered, PoolBounded
<1>2. TypeOK
  <2>1. pool \in Seq(Txs \ IllFormed) /\ bytes \in Nat /\ hung \in BOOLEAN
    BY DEF MempoolInv, Counted, Legal
  <2>2. fsm.acc \in [Accounts -> Nat] /\ fsm.fees \in Nat /\ DOMAIN fsm.cache \subseteq Accounts
    BY DEF ValuesInv, Funded
  <2>3. {mode, poolMode} \subseteq Modes
    BY DEF ValuesInv
  <2>4. \A s \in {result, candidate, certified} : s = <<>> \/ s[1] \in Block
    BY DEF ValuesInv, Held
  <2> QED
    BY <2>1, <2>2, <2>3, <2>4 DEF TypeOK, ValuesInv, Locks, Heights
<1> QED
  BY <1>1, <1>2 DEF Inv, ControllerInv

\* The controller's state stays well formed, both locks do their work, and the mempool keeps
\* its order and its limits: whatever batches arrive, whatever is evicted, committed or fails
\* to be committed, the pool is sorted by fee without a duplicate, its count of bytes covers
\* what it holds, and unless AddTransactions never returns the limits on transactions and
\* bytes hold when it has (AddTransactions and DeleteTransaction in lib/mempool.go,
\* HandleTransactions and CheckMempool in controller/tx.go, CommitCertificate in
\* controller/block.go).
THEOREM ControllerInvHolds == Spec => []ControllerInv
<1> DEFINE I == Inv /\ ReplayInv /\ mode \in Modes /\ ProposalInv /\ MempoolInv /\ ValuesInv
<1>1. Init => I
  BY InitInv, InitReplay, InitProposal, InitMempool, InitValues DEF Init, Modes
<1>2. I /\ [Next]_vars => I'
  BY NextInv, NextReplay, NextProposal, NextMempool, NextValues
<1>3. I => ControllerInv
  BY InvOfParts
<1> QED
  BY <1>1, <1>2, <1>3, PTL DEF Spec
=============================================================================
