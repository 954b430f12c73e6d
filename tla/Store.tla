------------------------------- MODULE Store -------------------------------
(***************************************************************************)
(* The node's storage, package store: nested in-memory transactions        *)
(* (txn.go) over a multi-version key space (versioned_store.go) in which a *)
(* block's writes become one version (store.go).                           *)
(*                                                                         *)
(* A version is written in three places by one batch: the latest state     *)
(* (LSS), the history (HSS) and the state tree with its root.  The batch   *)
(* is applied without a sync, so a crash may lose the most recent commits, *)
(* and an operator can roll a stopped node back.  Readers (the RPC server) *)
(* ask for a version without taking the controller's lock.                 *)
(*                                                                         *)
(* Left out: the byte layout of keys, block property filters, compaction,  *)
(* and backups, none of which changes what a read returns.                 *)
(***************************************************************************)
EXTENDS StateTree

CONSTANTS
  Keys,         \* the state keys, as numbers: iteration is in this order
  Values,
  HashKey,      \* crypto.Hash of a key, cut to KeyBits
  MaxVersion,   \* bound on the number of commits
  MaxWrites,    \* bound on the pending writes
  MaxDepth      \* bound on the nesting of transactions

ASSUME StoreAssumption ==
  /\ Keys \subseteq Nat
  /\ \A k \in Keys : HashKey[k] \in [1..KeyBits -> {0, 1}] \ ReservedKeys
  /\ \A j, k \in Keys : HashKey[j] = HashKey[k] => j = k

ASSUME BoundAssumption == MaxVersion \in Nat /\ MaxDepth \in Nat

\* A stored value is a sequence of length one, and DeadTombstone the empty one.
Dead == <<>>

Stored == {<<x>> : x \in Values}

\* What a transaction holds, and what a version holds.
Ops == UNION {[d -> Stored \cup {Dead}] : d \in SUBSET Keys}

Contents == UNION {[d -> Stored] : d \in SUBSET Keys}

VARIABLES
  db,           \* what pebble holds
  wal,          \* the states of db that a crash may fall back to, oldest first
  version,      \* Store.version
  ops,          \* Store.ss.txn.ops: key -> value or Dead
  sc,           \* Store.sc, the tree of the pending root; <<>> when not computed
  txns,         \* the nested transactions, innermost last: their ops
  batch,        \* Store.writer between the bump of the version and db.Apply
  running,      \* whether the node is up
  reader,       \* a read-only request under way
  truth         \* history: the contents of each committed version

vars == <<db, wal, version, ops, sc, txns, batch, running, reader, truth>>

NoOps == <<>>
NoBatch == <<>>
Idle == [step |-> "idle"]

----------------------------------------------------------------------------
(* The multi-version key space: entries [key, version, value]                *)

\* getRaw: the newest entry of a key at or below a version
Visible(entries, key, v) == {e \in entries : e.key = key /\ e.version <= v /\
                              \A f \in entries : f.key = key /\ f.version <= v => f.version <= e.version}

View(entries, v) ==
  LET alive == {e \in entries : e \in Visible(entries, e.key, v) /\ e.value # Dead}
  IN  [k \in {e.key : e \in alive} |-> (CHOOSE e \in alive : e.key = k).value]

EntriesOf(f, v) == {[key |-> k, version |-> v, value |-> f[k]] : k \in DOMAIN f}

\* Reads and iterations at lssVersion see the newest entry whatever its version.
Latest(entries) == View(entries, MaxVersion)

EmptyDb == [lss |-> NoOps, hss |-> {}, tree |-> {}, index |-> {}, ids |-> NoOps, last |-> [height |-> 0, root |-> <<>>]]

----------------------------------------------------------------------------
(* Iteration.  Raw entries are sorted by key and, within a key, from the     *)
(* newest version to the oldest.  An iterator is a position in that order.   *)

Raw(entries) ==
  LET before(a, b) == a.key < b.key \/ (a.key = b.key /\ a.version > b.version)
  IN  [i \in 1..Cardinality(entries) |-> CHOOSE e \in entries : Cardinality({f \in entries : before(f, e)}) = i - 1]

\* step: to the next entry, or past all versions of the key just handled
IterStep(raw, it, reverse, seek) ==
  LET same == {i \in DOMAIN raw : raw[i].key = it.last}
      low == CHOOSE i \in same : \A j \in same : i <= j
      high == CHOOSE i \in same : \A j \in same : i >= j
  IN  IF seek /\ it.pos \in same THEN [it EXCEPT !.pos = IF reverse THEN low - 1 ELSE high + 1]
      ELSE IF ~reverse THEN [it EXCEPT !.pos = @ + 1]
      ELSE IF it.shouldNotPrev THEN [it EXCEPT !.shouldNotPrev = FALSE]
      ELSE [it EXCEPT !.pos = @ - 1]

\* rewindToLatestVersion: iterating backwards meets the oldest version first
Rewind(raw, it, v, seek) ==
  LET mine == {i \in DOMAIN raw : raw[i].key = it.last /\ raw[i].version <= v}
      newest == CHOOSE i \in mine : \A j \in mine : i <= j
  IN  IF seek THEN [it EXCEPT !.pos = newest, !.value = raw[newest].value]
      ELSE [it EXCEPT !.pos = newest - 1, !.value = raw[newest].value,
                      !.shouldNotPrev = @ \/ it.pos > 1]

\* one turn of the loop of advanceToNextKey, with the caller's Next after a hit
Advance(raw, it, v, reverse, seek) ==
  LET e == raw[it.pos]
      found == [it EXCEPT !.last = e.key, !.value = e.value]
      newest == IF reverse THEN Rewind(raw, found, v, seek) ELSE found
  IN  IF it.pos \notin DOMAIN raw THEN it
      ELSE IF e.version > v \/ e.key = it.last THEN IterStep(raw, it, reverse, seek)
      ELSE IF newest.value = Dead THEN IterStep(raw, newest, reverse, seek)
      ELSE [newest EXCEPT !.out = Append(@, <<e.key, newest.value>>)]

VersionedIterator(entries, v, reverse, seek) ==
  LET raw == Raw(entries)
      turns == 3 * Len(raw) + 1
      run[i \in 0..turns] ==
        IF i = 0 THEN [pos |-> IF reverse THEN Len(raw) ELSE 1, last |-> -1, value |-> Dead,
                       shouldNotPrev |-> FALSE, out |-> <<>>]
        ELSE Advance(raw, run[i - 1], v, reverse, seek)
  IN  run[turns].out

\* Wrong: a deletion takes its turn without the entry that it hides.
ParentAfterBoth(st, t) == IF t[2] = Dead THEN st.p ELSE st.p + 1

\* A pending operation hides the parent's entry of the same key, also when it deletes.
ParentAfter(st, t) == st.p + 1

\* TxnIterator: the pending operations of a transaction merged into its parent
MergeStep(st, parent, tree, reverse) ==
  LET p == parent[st.p]
      t == tree[st.t]
      shown == IF t[2] = Dead THEN st.out ELSE Append(st.out, t)
      txnFirst == IF reverse THEN t[1] > p[1] ELSE t[1] < p[1]
  IN  IF st.p > Len(parent) /\ st.t > Len(tree) THEN st
      ELSE IF st.p > Len(parent) THEN [st EXCEPT !.t = @ + 1, !.out = shown]
      ELSE IF st.t > Len(tree) THEN [st EXCEPT !.p = @ + 1, !.out = Append(@, p)]
      ELSE IF t[1] = p[1] THEN [p |-> ParentAfter(st, t), t |-> st.t + 1, out |-> shown]
      ELSE IF txnFirst THEN [st EXCEPT !.t = @ + 1, !.out = shown]
      ELSE [st EXCEPT !.p = @ + 1, !.out = Append(@, p)]

InOrder(f, reverse) ==
  LET n == Cardinality(DOMAIN f)
      key(i) == CHOOSE k \in DOMAIN f : Cardinality({j \in DOMAIN f : IF reverse THEN j > k ELSE j < k}) = i - 1
  IN  [i \in 1..n |-> <<key(i), f[key(i)]>>]

TxnIterator(parent, pending, reverse) ==
  LET tree == InOrder(pending, reverse)
  IN  FoldLeft(LAMBDA st, x : MergeStep(st, parent, tree, reverse),
               [p |-> 1, t |-> 1, out |-> <<>>], parent \o tree).out

----------------------------------------------------------------------------
(* Transactions                                                              *)

Override(f, g) == [k \in DOMAIN f \cup DOMAIN g |-> IF k \in DOMAIN g THEN g[k] ELSE f[k]]

Alive(f) == [k \in {j \in DOMAIN f : f[j] # Dead} |-> f[k]]

\* Get: the innermost transaction that knows the key, then the parent
Merged == Alive(FoldLeft(Override, Override(db.lss, ops), txns))

InBlock == running /\ batch = NoBatch /\ sc = <<>>

Pending(layers) == FoldLeft(LAMBDA n, f : n + Cardinality(DOMAIN f), 0, layers)

\* Set and Delete.  A block's writes end with the root that ApplyBlock asks for.
Write(k, v) ==
  /\ InBlock /\ version < MaxVersion
  /\ IF txns = <<>>
     THEN ops' = Override(ops, [j \in {k} |-> v]) /\ UNCHANGED txns
     ELSE /\ txns' = [txns EXCEPT ![Len(txns)] = Override(@, [j \in {k} |-> v])]
          /\ UNCHANGED ops
  /\ Pending(<<ops'>> \o txns') <= MaxWrites
  /\ UNCHANGED <<db, wal, version, sc, batch, running, reader, truth>>

NewTxn ==
  /\ InBlock /\ Len(txns) < MaxDepth
  /\ txns' = Append(txns, NoOps)
  /\ UNCHANGED <<db, wal, version, ops, sc, batch, running, reader, truth>>

\* Flush: the operations go to the parent, deletions as deletions
FlushTxn ==
  /\ InBlock /\ txns # <<>>
  /\ IF Len(txns) = 1
     THEN ops' = Override(ops, txns[1]) /\ txns' = <<>>
     ELSE /\ txns' = [Front(txns) EXCEPT ![Len(txns) - 1] = Override(@, Last(txns))]
          /\ UNCHANGED ops
  /\ UNCHANGED <<db, wal, version, sc, batch, running, reader, truth>>

DiscardTxn ==
  /\ InBlock /\ txns # <<>>
  /\ txns' = Front(txns)
  /\ UNCHANGED <<db, wal, version, ops, sc, batch, running, reader, truth>>

----------------------------------------------------------------------------
(* Roots, commits, restarts                                                  *)

\* The operations the tree is given: the pending ones of the state store
SmtOps == {[key |-> HashKey[k], value |-> ops[k]] : k \in DOMAIN ops}

\* The tree as NewDefaultSMT finds it, made when there is none
StoredTree ==
  LET stored == Latest(db.tree)
  IN  IF db.tree = {} THEN EmptyTree ELSE [k \in DOMAIN stored |-> stored[k][1]]

PendingTree == SmtCommit(StoredTree, SmtOps)

\* Root: computed once for a block and kept
Root ==
  /\ InBlock /\ txns = <<>> /\ version < MaxVersion
  /\ sc' = PendingTree
  /\ UNCHANGED <<db, wal, version, ops, txns, batch, running, reader, truth>>

\* What Flush of the tree's transaction writes: nodes set, and nodes deleted
TreeEntries(new, v) ==
  LET old == IF db.tree = {} THEN NoOps ELSE StoredTree
      changed == {k \in DOMAIN new : k \notin DOMAIN old \/ old[k] # new[k]}
  IN  {[key |-> k, version |-> v, value |-> <<new[k]>>] : k \in changed}
      \cup {[key |-> k, version |-> v, value |-> Dead] : k \in DOMAIN old \ DOMAIN new}

\* Commit up to db.Apply: the version is counted up before the batch is applied
CommitBatch ==
  /\ running /\ batch = NoBatch /\ sc # <<>> /\ txns = <<>>
  /\ version' = version + 1
  /\ batch' = [lss |-> Alive(Override(db.lss, ops)),
               hss |-> db.hss \cup EntriesOf(ops, version + 1),
               tree |-> db.tree \cup TreeEntries(sc, version + 1),
               index |-> db.index \cup {version + 1},
               ids |-> Override(db.ids, [v \in {version + 1} |-> RootOf(sc)]),
               last |-> [height |-> version + 1, root |-> RootOf(sc)]]
  /\ UNCHANGED <<db, wal, ops, sc, txns, running, reader, truth>>

\* History: a commit is applied after a reader has found its version to be the latest
\* and before the reader has its snapshot of the latest state.
Overtake(r) == IF r.step = "latest" THEN [r EXCEPT !.overtaken = TRUE] ELSE r

\* db.Apply without a sync, and the Reset that follows
CommitApply ==
  /\ running /\ batch # NoBatch
  /\ db' = batch
  /\ wal' = Append(wal, batch)
  /\ batch' = NoBatch
  /\ ops' = NoOps /\ sc' = <<>>
  /\ truth' = Append(truth, Alive(Override(db.lss, ops)))
  /\ reader' = Overtake(reader)
  /\ UNCHANGED <<version, txns, running>>

\* Reset: an applied block is dropped, after a failed validation or a new round
Reset ==
  /\ running /\ batch = NoBatch
  /\ ops # NoOps \/ txns # <<>> \/ sc # <<>>
  /\ ops' = NoOps /\ sc' = <<>> /\ txns' = <<>>
  /\ UNCHANGED <<db, wal, version, batch, running, reader, truth>>

\* pebble's log reaches the disk
WalSync ==
  /\ Len(wal) > 1
  /\ wal' = <<Last(wal)>>
  /\ UNCHANGED <<db, version, ops, sc, txns, batch, running, reader, truth>>

\* A crash keeps any of the states since the last sync, each of them whole
Crash ==
  /\ running
  /\ \E i \in DOMAIN wal : db' = wal[i]
  /\ wal' = <<db'>>
  /\ running' = FALSE
  /\ version' = db'.last.height
  /\ truth' = SubSeq(truth, 1, db'.last.height)
  /\ ops' = NoOps /\ sc' = <<>> /\ txns' = <<>> /\ batch' = NoBatch /\ reader' = Idle

\* NewStoreWithDB: the version is the one of the last commit
OpenVersion == db.last.height

Start ==
  /\ ~running
  /\ running' = TRUE /\ version' = OpenVersion
  /\ UNCHANGED <<db, wal, ops, sc, txns, batch, reader, truth>>

\* Wrong: the target version goes too.
PruneInclusive(entries, target) == {e \in entries : ~(e.version >= target /\ e.version <= version)}

\* pruneVersionWindow
Prune(entries, target) == {e \in entries : ~(e.version > target /\ e.version <= version)}

\* The latest state again: the keys written since the target get their old value, or go
Restored(target) ==
  LET touched == {e.key : e \in db.hss \ Prune(db.hss, target)}
      old == View(db.hss, target)
  IN  [k \in (DOMAIN db.lss \ touched) \cup (touched \cap DOMAIN old) |->
         IF k \in touched THEN old[k] ELSE db.lss[k]]

\* Rollback of a stopped node: one synced batch
RolledBack(target) ==
  [lss |-> Restored(target),
   hss |-> Prune(db.hss, target),
   tree |-> Prune(db.tree, target),
   index |-> {h \in db.index : h <= target},
   ids |-> [v \in {u \in DOMAIN db.ids : u <= target} |-> db.ids[v]],
   last |-> [height |-> target, root |-> db.ids[target]]]

Rollback(target) ==
  /\ ~running
  /\ 1 <= target /\ target < version
  /\ db' = RolledBack(target)
  /\ wal' = <<db'>>
  /\ version' = target
  /\ truth' = SubSeq(truth, 1, target)
  /\ UNCHANGED <<ops, sc, txns, batch, running, reader>>

----------------------------------------------------------------------------
(* Read-only stores (NewReadOnly, in its order).  TimeMachine cuts a request *)
(* off at the height of the state machine, that of the last finished commit. *)

FsmHeight == Len(truth)

\* Wrong: the reader shares the transaction of the block under construction.
LssReaderShared == Merged

\* A transaction of its own over a snapshot of the latest state
LssReader == db.lss

\* The tree of a read-only store is read under stateCommitmentPrefix, where no operation
\* writes (Root stores its tree under stateCommitIDPrefix): NewDefaultSMT makes a new one.
CommitmentTree == EmptyTree

\* hssReader: a snapshot cut at the version, for the history, the tree and the indexer
ReadOnlyHss(v) ==
  /\ running /\ reader = Idle
  /\ 1 <= v /\ v <= FsmHeight
  /\ reader' = [step |-> "hss", height |-> v, state |-> View(db.hss, v), tree |-> CommitmentTree,
                index |-> {h \in db.index : h <= v}, overtaken |-> FALSE]
  /\ UNCHANGED <<db, wal, version, ops, sc, txns, batch, running, truth>>

\* The comparison with the version of the store, which a commit counts up beside it
ReadOnlyCompare ==
  /\ running /\ reader.step = "hss"
  /\ reader' = [reader EXCEPT !.step = IF version = reader.height THEN "latest" ELSE "open"]
  /\ UNCHANGED <<db, wal, version, ops, sc, txns, batch, running, truth>>

\* lssReader: a second snapshot, for the state only
ReadOnlyLss ==
  /\ running /\ reader.step = "latest"
  /\ reader' = [reader EXCEPT !.step = "open", !.state = LssReader]
  /\ UNCHANGED <<db, wal, version, ops, sc, txns, batch, running, truth>>

ReadOnlyClose ==
  /\ reader.step = "open"
  /\ reader' = Idle
  /\ UNCHANGED <<db, wal, version, ops, sc, txns, batch, running, truth>>

----------------------------------------------------------------------------

Init ==
  /\ db = EmptyDb /\ wal = <<EmptyDb>>
  /\ version = 0 /\ ops = NoOps /\ sc = <<>> /\ txns = <<>> /\ batch = NoBatch
  /\ running = TRUE /\ reader = Idle /\ truth = <<>>

Next ==
  \/ \E k \in Keys, v \in Stored \cup {Dead} : Write(k, v)
  \/ NewTxn \/ FlushTxn \/ DiscardTxn
  \/ Root \/ CommitBatch \/ CommitApply \/ Reset
  \/ WalSync \/ Crash \/ Start
  \/ \E t \in 1..MaxVersion : Rollback(t)
  \/ \E v \in 1..MaxVersion : ReadOnlyHss(v)
  \/ ReadOnlyCompare \/ ReadOnlyLss \/ ReadOnlyClose

Spec == Init /\ [][Next]_vars

----------------------------------------------------------------------------
(* Properties                                                                *)

\* The tree node of a set of leaves, by definition: the reference for SmtCommit
ReferenceNode(leaves) ==
  LET node[S \in SUBSET leaves] ==
        IF Cardinality(S) = 1 THEN CHOOSE l \in S : TRUE
        ELSE LET p == LongestCommonPrefix({l.key : l \in S})
                 half(b) == node[{l \in S : l.key[Len(p) + 1] = b}]
             IN  [key |-> p, value |-> HashOf(half(0), half(1)), left |-> half(0).key, right |-> half(1).key]
  IN  node[leaves]

ReferenceRoot(contents) ==
  ReferenceNode({Leaf(HashKey[k], contents[k]) : k \in DOMAIN contents}
                \cup {Leaf(MinKey, <<"min">>), Leaf(MaxKey, <<"max">>)}).value

\* What depends on db alone is evaluated once for each db, not for every pending write.
AtRest == ops = NoOps /\ txns = <<>> /\ reader = Idle

\* The latest state of d, which blocks are executed on, is the history's newest view,
\* although each is written on its own (store.go Commit, purgeLssTombstones and Rollback).
LatestIsHistoric(d) == d.lss = View(d.hss, d.last.height)

\* Every version of t can be read from d as it was, and has its commit id and its block
\* (store.go Commit, Rollback, NewStoreWithDB).
HistoryIntact(d, t) ==
  /\ d.last.height = Len(t) /\ DOMAIN d.ids = DOMAIN t /\ d.index = DOMAIN t
  /\ \A v \in DOMAIN t : View(d.hss, v) = t[v]
  /\ t # <<>> => d.last.root = d.ids[Len(t)]

\* The history holds at most one entry of a key and a version.
EntriesOnce(d) ==
  /\ d.hss \subseteq [key : Keys, version : 1..d.last.height, value : Stored \cup {Dead}]
  /\ \A e, f \in d.hss : e.key = f.key /\ e.version = f.version => e = f

Intact(d, t) == LatestIsHistoric(d) /\ HistoryIntact(d, t) /\ EntriesOnce(d)

\* The root that a commit records depends on the contents only: executing the
\* block's operations with postponed hashing gives the tree that the contents
\* define (smt.go commit, set, delete, rehash; store.go Root).
RootOfContents ==
  /\ \A v \in DOMAIN truth : db.ids[v] = ReferenceRoot(truth[v])
  /\ sc # <<>> /\ batch = NoBatch => RootOf(sc) = ReferenceRoot(Merged)

\* Whichever way the entries are walked - forwards or backwards, seeking or one
\* by one, through any number of pending transactions - iteration yields exactly
\* the live keys in order (versioned_store.go advanceToNextKey, txn.go Valid).
IterationExact ==
  /\ AtRest => \A v \in 0..MaxVersion, reverse, seek \in BOOLEAN :
       VersionedIterator(db.hss, v, reverse, seek) = InOrder(View(db.hss, v), reverse)
  /\ \A reverse \in BOOLEAN :
       FoldLeft(LAMBDA parent, pending : TxnIterator(parent, pending, reverse),
                InOrder(db.lss, reverse), <<ops>> \o txns) = InOrder(Merged, reverse)

\* A proof that the store gives while it holds the tree of the pending block (GetProof,
\* between Root and the Reset of Commit) convinces a verifier, against the root the block
\* will carry, of what the state will hold, and of nothing else about that key (smt.go
\* GetMerkleProof, VerifyProof).  Nothing is said of proofs from a read-only store: its
\* tree is CommitmentTree.
ProofsSound ==
  sc # <<>> /\ batch = NoBatch =>
    LET contents == Merged
    IN  \A k \in Keys, member \in BOOLEAN, claim \in Stored \cup {Dead} :
          VerifyProof(HashKey[k], claim, member, RootOf(sc), GetMerkleProof(sc, HashKey[k]))
            <=> IF member THEN k \in DOMAIN contents /\ contents[k] = claim ELSE k \notin DOMAIN contents

\* A read-only store shows the blocks up to the version asked for and no others, and the
\* state of exactly that version, whatever is committed while it is opened - unless a commit
\* overtakes it between the comparison of versions and the snapshot of the latest state.
\* Then its state is, whole, that of a later version, beside the blocks of the one asked for
\* (store.go NewReadOnly, Commit; fsm/state.go TimeMachine).
ReadsAsked ==
  reader.step = "open" =>
    /\ reader.index = 1..reader.height
    /\ IF reader.overtaken
       THEN \E v \in (reader.height + 1)..Len(truth) : reader.state = truth[v]
       ELSE reader.state = truth[reader.height]

\* The state is well formed, the store is one version ahead of its last commit while a
\* batch is under way, and a stopped node has none and no readers.
TypeOK ==
  /\ version \in 0..MaxVersion /\ version = db.last.height + IF batch = NoBatch THEN 0 ELSE 1
  /\ sc # <<>> /\ batch = NoBatch => version < MaxVersion
  /\ running \in BOOLEAN /\ (~running => batch = NoBatch /\ reader = Idle)
  /\ ops \in Ops /\ txns \in Seq(Ops) /\ Len(txns) <= MaxDepth
  /\ truth \in Seq(Contents) /\ wal \in Seq(ToSet(wal)) /\ wal # <<>>
  /\ reader.step \in {"idle", "hss", "latest", "open"}
  /\ reader.step # "idle" => reader.height \in DOMAIN truth

\* The versions of the store: blocks are executed on the newest view of the history, and no
\* committed version is changed or lost.  The same is true of every state that a crash may
\* fall back to, for the versions it has, and of the batch of the commit under way, with
\* the version it adds (store.go).
VersionsIntact ==
  /\ TypeOK
  /\ Intact(db, truth)
  /\ \A i \in DOMAIN wal : /\ wal[i].last.height \in 0..Len(truth)
                           /\ Intact(wal[i], SubSeq(truth, 1, wal[i].last.height))
  /\ batch # NoBatch => Intact(batch, Append(truth, Alive(Override(db.lss, ops))))
=============================================================================
