---------------------------- MODULE StoreProofs ----------------------------
(***************************************************************************)
(* Commits, crashes and rollbacks keep every committed version, for any    *)
(* keys, values, hashes and numbers of versions and nested transactions.   *)
(***************************************************************************)
EXTENDS Store, TLAPS

-----------------------------------------------------------------------------
(* The views of a multi-version key space. *)

\* Entries of versions up to n, at most one of a key and a version.
Versioned(entries, n) ==
  /\ entries \subseteq [key : Keys, version : 1..n, value : Stored \cup {Dead}]
  /\ \A e, f \in entries : e.key = f.key /\ e.version = f.version => e = f

\* The live entries that View shows.
Shown(entries, v) == {e \in entries : e \in Visible(entries, e.key, v) /\ e.value # Dead}

\* The fields of an entry.
LEMMA EntryFields ==
  ASSUME NEW n \in Nat, NEW E, Versioned(E, n), NEW e \in E
  PROVE  e.key \in Keys /\ e.version \in 1..n /\ e.version \in Nat /\ e.version <= n
         /\ e.value \in Stored \cup {Dead}
BY DEF Versioned

\* A key is in a view with the value of its newest entry, unless that is a deletion.
LEMMA ViewAt ==
  ASSUME NEW n \in Nat, NEW E, Versioned(E, n), NEW v \in Nat, NEW k
  PROVE  /\ \A e \in Visible(E, k, v) : e.value # Dead => /\ k \in DOMAIN View(E, v)
                                                          /\ View(E, v)[k] = e.value
         /\ k \in DOMAIN View(E, v) => \E e \in Visible(E, k, v) : e.value # Dead
<1> DEFINE alive == Shown(E, v)
<1>1. View(E, v) = [j \in {e.key : e \in alive} |-> (CHOOSE e \in alive : e.key = j).value]
  BY DEF View, Shown
<1>2. \A e \in alive : e \in E /\ e \in Visible(E, e.key, v) /\ e.value # Dead
  BY DEF Shown
<1>3. \A e \in Visible(E, k, v) : e \in E /\ e.key = k
  BY DEF Visible
<1>4. ASSUME NEW e \in Visible(E, k, v), e.value # Dead
      PROVE  k \in DOMAIN View(E, v) /\ View(E, v)[k] = e.value
  <2>1. e \in alive /\ e.key = k
    BY <1>3, <1>4 DEF Shown
  <2> DEFINE c == CHOOSE f \in alive : f.key = k
  <2>2. c \in alive /\ c.key = k
    BY <2>1
  <2> HIDE DEF c, alive
  <2>3. c \in E /\ c \in Visible(E, k, v)
    BY <1>2, <2>2
  <2>4. c.version <= e.version /\ e.version <= c.version /\ c.version \in Nat /\ e.version \in Nat
    BY <1>3, <2>3, EntryFields DEF Visible
  <2>5. c = e
    BY <1>3, <2>1, <2>2, <2>3, <2>4 DEF Versioned
  <2>6. k \in DOMAIN View(E, v) /\ View(E, v)[k] = c.value
    BY <1>1, <2>1 DEF c
  <2> QED
    BY <2>5, <2>6
<1>5. ASSUME k \in DOMAIN View(E, v)
      PROVE  \E e \in Visible(E, k, v) : e.value # Dead
  <2> HIDE DEF alive
  <2>1. PICK e \in alive : e.key = k
    BY <1>1, <1>5
  <2> QED
    BY <1>2, <2>1
<1> QED
  BY <1>4, <1>5

\* A view holds stored values of keys.
LEMMA ViewType ==
  ASSUME NEW n \in Nat, NEW E, Versioned(E, n), NEW v \in Nat
  PROVE  View(E, v) \in Contents
<1>1. View(E, v) = [j \in DOMAIN View(E, v) |-> View(E, v)[j]]
  BY DEF View
<1>2. ASSUME NEW k \in DOMAIN View(E, v)
      PROVE  k \in Keys /\ View(E, v)[k] \in Stored
  <2>1. PICK e \in Visible(E, k, v) : e.value # Dead
    BY <1>2, ViewAt
  <2>2. View(E, v)[k] = e.value
    BY <2>1, ViewAt
  <2>3. e \in E /\ e.key = k
    BY DEF Visible
  <2> QED
    BY <2>1, <2>2, <2>3, EntryFields
<1> DEFINE d == DOMAIN View(E, v)
           w == View(E, v)
<1>3. d \in SUBSET Keys /\ w = [j \in d |-> w[j]] /\ \A j \in d : w[j] \in Stored
  BY <1>1, <1>2
<1> HIDE DEF d, w
<1>4. w \in [d -> Stored]
  BY <1>3
<1>5. w \in Contents
  BY <1>3, <1>4 DEF Contents
<1> QED
  BY <1>5 DEF w

\* Two views that see the same entries are equal.
LEMMA ViewSame ==
  ASSUME NEW E, NEW F, NEW v, NEW w, \A k : Visible(E, k, v) = Visible(F, k, w)
  PROVE  View(E, v) = View(F, w)
<1>1. Shown(E, v) = Shown(F, w)
  <2>1. \A e \in Shown(E, v) : e \in Shown(F, w)
    BY DEF Shown, Visible
  <2>2. \A e \in Shown(F, w) : e \in Shown(E, v)
    BY DEF Shown, Visible
  <2> QED
    BY <2>1, <2>2
<1>2. /\ View(E, v) = [j \in {e.key : e \in Shown(E, v)} |-> (CHOOSE e \in Shown(E, v) : e.key = j).value]
      /\ View(F, w) = [j \in {e.key : e \in Shown(F, w)} |-> (CHOOSE e \in Shown(F, w) : e.key = j).value]
  BY DEF View, Shown
<1> QED
  BY <1>1, <1>2

\* Later entries do not change an earlier view.
LEMMA ViewOfPast ==
  ASSUME NEW n \in Nat, NEW E, Versioned(E, n), NEW F, F \subseteq E, NEW v \in Nat,
         \A e \in E : e.version <= v => e \in F
  PROVE  View(F, v) = View(E, v)
<1>1. ASSUME NEW k PROVE Visible(F, k, v) = Visible(E, k, v)
  <2>1. \A e \in Visible(F, k, v) : e \in Visible(E, k, v)
    BY DEF Visible
  <2>2. \A e \in Visible(E, k, v) : e \in Visible(F, k, v)
    BY DEF Visible
  <2> QED
    BY <2>1, <2>2
<1> QED
  BY <1>1, ViewSame

\* A transaction's operations: a function on some keys.
LEMMA OpsType ==
  ASSUME NEW o \in Ops
  PROVE  /\ DOMAIN o \subseteq Keys /\ o = [k \in DOMAIN o |-> o[k]]
         /\ \A k \in DOMAIN o : o[k] \in Stored \cup {Dead}
<1>1. PICK d \in SUBSET Keys : o \in [d -> Stored \cup {Dead}]
  BY DEF Ops
<1> QED
  BY <1>1

(* A function from some keys to writes is a set of pending operations. *)
LEMMA IsOps ==
  ASSUME NEW d \in SUBSET Keys, NEW o \in [d -> Stored \cup {Dead}]
  PROVE  o \in Ops
BY DEF Ops

(* A function from some keys to stored values is a state of the store. *)
LEMMA IsContents ==
  ASSUME NEW d \in SUBSET Keys, NEW o \in [d -> Stored]
  PROVE  o \in Contents
BY DEF Contents

\* A value that is stored is no deletion.
LEMMA StoredAlive == Dead \notin Stored
BY DEF Dead, Stored

\* The entries of the next version.
LEMMA NextEntries ==
  ASSUME NEW n \in Nat, NEW E, Versioned(E, n), NEW o \in Ops
  PROVE  Versioned(E \cup EntriesOf(o, n + 1), n + 1)
<1> DEFINE N == EntriesOf(o, n + 1)
<1>1. \A e \in N : \E k \in DOMAIN o : e = [key |-> k, version |-> n + 1, value |-> o[k]]
  BY DEF EntriesOf
<1>2. \A e \in N : /\ e.version = n + 1 /\ e.key \in DOMAIN o /\ e.value = o[e.key]
                   /\ e = [key |-> e.key, version |-> n + 1, value |-> o[e.key]]
  BY <1>1
<1>3. \A e \in E : e.version \in Nat /\ e.version <= n
  BY EntryFields
<1> HIDE DEF N
<1>4. ASSUME NEW e \in N
      PROVE  e \in [key : Keys, version : 1..(n + 1), value : Stored \cup {Dead}]
  <2>1. e.key \in Keys /\ o[e.key] \in Stored \cup {Dead} /\ n + 1 \in 1..(n + 1)
    BY <1>2, OpsType
  <2> QED
    BY <1>2, <2>1
<1>5. ASSUME NEW e \in E
      PROVE  e \in [key : Keys, version : 1..(n + 1), value : Stored \cup {Dead}]
  <2>1. e \in [key : Keys, version : 1..n, value : Stored \cup {Dead}]
    BY DEF Versioned
  <2>2. 1..n \subseteq 1..(n + 1)
    OBVIOUS
  <2> QED
    BY <2>1, <2>2
<1>6. ASSUME NEW e \in E \cup N, NEW f \in E \cup N, e.key = f.key, e.version = f.version
      PROVE  e = f
  <2>1. CASE e \in E /\ f \in E
    BY <1>6, <2>1 DEF Versioned
  <2>2. CASE e \in N /\ f \in N
    BY <1>2, <1>6, <2>2
  <2>3. CASE e \in N /\ f \in E
    BY <1>2, <1>3, <1>6, <2>3
  <2>4. CASE e \in E /\ f \in N
    BY <1>2, <1>3, <1>6, <2>4
  <2> QED
    BY <2>1, <2>2, <2>3, <2>4
<1> QED
  BY <1>4, <1>5, <1>6 DEF Versioned, N

\* A commit adds a view, the last one with the block's operations, and changes none.
LEMMA CommitView ==
  ASSUME NEW n \in Nat, NEW E, Versioned(E, n), NEW o \in Ops, NEW F, F = E \cup EntriesOf(o, n + 1)
  PROVE  /\ \A v \in 0..n : View(F, v) = View(E, v)
         /\ View(F, n + 1) = Alive(Override(View(E, n), o))
<1> DEFINE N == EntriesOf(o, n + 1)
<1>1. \A e \in N : e.version = n + 1 /\ e.key \in DOMAIN o /\ e.value = o[e.key]
  BY DEF EntriesOf
<1>2. ASSUME NEW k \in DOMAIN o PROVE \E e \in N : e.key = k
  <2>1. [key |-> k, version |-> n + 1, value |-> o[k]] \in N
    BY DEF EntriesOf
  <2> QED
    BY <2>1
<1>3. Versioned(F, n + 1) /\ F = E \cup N /\ n + 1 \in Nat
  BY NextEntries
<1>4. \A e \in E : e.version \in Nat /\ e.version <= n
  BY EntryFields
<1> HIDE DEF N
<1>5. ASSUME NEW v \in 0..n PROVE View(F, v) = View(E, v)
  <2>1. \A e \in F : e.version <= v => e \in E
    BY <1>1, <1>3
  <2>2. View(E, v) = View(F, v)
    BY <1>3, <2>1, ViewOfPast
  <2> QED
    BY <2>2
<1> DEFINE A == Alive(Override(View(E, n), o))
           W == View(F, n + 1)
           P == View(E, n)
<1>6. ASSUME NEW k \in DOMAIN o
      PROVE  /\ k \in DOMAIN W <=> o[k] # Dead
             /\ k \in DOMAIN W => W[k] = o[k]
  <2>1. PICK e \in N : e.key = k
    BY <1>2
  <2>2. e \in Visible(F, k, n + 1)
    BY <1>1, <1>3, <1>4, <2>1 DEF Visible
  <2>3. e.value = o[k]
    BY <1>1, <2>1
  <2>4. \A f \in Visible(F, k, n + 1) : f = e
    <3> SUFFICES ASSUME NEW f \in Visible(F, k, n + 1) PROVE f = e
      OBVIOUS
    <3>1. f \in F /\ e \in F /\ f.key = k /\ e.key = k
      BY <2>2 DEF Visible
    <3>2. f.version <= n + 1 /\ e.version <= f.version /\ e.version = n + 1 /\ f.version \in Nat
      BY <1>1, <1>3, <2>1, <3>1, EntryFields DEF Visible
    <3>3. f.version = e.version
      BY <3>2
    <3> QED
      BY <1>3, <3>1, <3>3 DEF Versioned
  <2> QED
    BY <1>3, <2>2, <2>3, <2>4, ViewAt
<1>7. ASSUME NEW k, k \notin DOMAIN o
      PROVE  /\ k \in DOMAIN W <=> k \in DOMAIN P
             /\ k \in DOMAIN W => W[k] = P[k]
  <2>1. Visible(F, k, n + 1) = Visible(E, k, n)
    <3>1. \A e \in F : e.key = k => e \in E
      BY <1>1, <1>3, <1>7
    <3>2. \A e \in Visible(F, k, n + 1) : e \in Visible(E, k, n)
      BY <1>3, <1>4, <3>1 DEF Visible
    <3>3. \A e \in Visible(E, k, n) : e \in Visible(F, k, n + 1)
      BY <1>3, <1>4, <3>1 DEF Visible
    <3> QED
      BY <3>2, <3>3
  <2> DEFINE V == Visible(E, k, n)
  <2>2. /\ \A e \in V : e.value # Dead => k \in DOMAIN W /\ W[k] = e.value
        /\ k \in DOMAIN W => \E e \in V : e.value # Dead
    BY <1>3, <2>1, ViewAt
  <2>3. /\ \A e \in V : e.value # Dead => k \in DOMAIN P /\ P[k] = e.value
        /\ k \in DOMAIN P => \E e \in V : e.value # Dead
    BY ViewAt
  <2> HIDE DEF V, W, P
  <2> QED
    BY <2>2, <2>3
<1>8. P \in Contents /\ W \in Contents
  BY <1>3, ViewType
<1>9. P \in Ops /\ \A k \in DOMAIN P : P[k] # Dead
  BY <1>8, StoredAlive DEF Contents, Ops
<1>10. DOMAIN A = {k \in DOMAIN P \cup DOMAIN o : (IF k \in DOMAIN o THEN o[k] ELSE P[k]) # Dead}
       /\ \A k \in DOMAIN A : A[k] = IF k \in DOMAIN o THEN o[k] ELSE P[k]
  BY DEF Alive, Override
<1>11. A = [k \in DOMAIN A |-> A[k]] /\ W = [k \in DOMAIN W |-> W[k]]
  <2>1. A = [k \in DOMAIN A |-> A[k]]
    BY DEF Alive
  <2>2. W = [k \in DOMAIN W |-> W[k]]
    BY <1>8 DEF Contents
  <2> QED
    BY <2>1, <2>2
<1> HIDE DEF A, W, P
<1>12. DOMAIN A = DOMAIN W
  BY <1>6, <1>7, <1>9, <1>10
<1>13. \A k \in DOMAIN A : A[k] = W[k]
  BY <1>6, <1>7, <1>10, <1>12
<1>14. A = W
  BY <1>11, <1>12, <1>13
<1> QED
  BY <1>5, <1>14 DEF A, W, P

\* What a rollback keeps.
LEMMA PrunedView ==
  ASSUME NEW n \in Nat, NEW E, Versioned(E, n), NEW t \in 0..n,
         NEW F, F = {e \in E : ~(e.version > t /\ e.version <= n)}
  PROVE  /\ Versioned(F, t)
         /\ \A v \in 0..t : View(F, v) = View(E, v)
<1>1. \A e \in E : e.version \in Nat /\ e.version >= 1 /\ e.version <= n
  BY EntryFields
<1>2. F = {e \in E : e.version <= t}
  BY <1>1
<1>3. ASSUME NEW e \in F
      PROVE  e \in [key : Keys, version : 1..t, value : Stored \cup {Dead}]
  <2>1. e \in [key : Keys, version : 1..n, value : Stored \cup {Dead}] /\ e.version \in 1..t
    BY <1>1, <1>2 DEF Versioned
  <2> QED
    BY <2>1
<1>4. Versioned(F, t)
  BY <1>2, <1>3 DEF Versioned
<1>5. ASSUME NEW v \in 0..t PROVE View(F, v) = View(E, v)
  <2>1. v \in Nat /\ F \subseteq E /\ \A e \in E : e.version <= v => e \in F
    BY <1>1, <1>2
  <2> QED
    BY <2>1, ViewOfPast
<1> QED
  BY <1>4, <1>5

\* The latest state after a rollback is the view of the target: keys without later entries
\* have there the value they have now.
LEMMA RestoredView ==
  ASSUME NEW n \in Nat, Versioned(db.hss, n), version = n, db.lss = View(db.hss, n), NEW t \in 0..n
  PROVE  Restored(t) = View(db.hss, t)
<1> DEFINE E == db.hss
           touched == {e.key : e \in E \ Prune(E, t)}
           old == View(E, t)
           now == View(E, n)
<1>1. \A e \in E : e.version \in Nat /\ e.version <= n
  BY EntryFields
<1>2. Restored(t) = [k \in (DOMAIN now \ touched) \cup (touched \cap DOMAIN old) |->
                       IF k \in touched THEN old[k] ELSE now[k]]
  BY DEF Restored
<1>3. ASSUME NEW k, k \notin touched
      PROVE  /\ k \in DOMAIN now <=> k \in DOMAIN old
             /\ k \in DOMAIN now => now[k] = old[k]
  <2>1. \A e \in E : e.key = k => e.version <= t
    BY <1>1, <1>3 DEF Prune
  <2>2. Visible(E, k, n) = Visible(E, k, t)
    <3>1. \A e \in Visible(E, k, n) : e \in Visible(E, k, t)
      BY <1>1, <2>1 DEF Visible
    <3>2. \A e \in Visible(E, k, t) : e \in Visible(E, k, n)
      BY <1>1, <2>1 DEF Visible
    <3> QED
      BY <3>1, <3>2
  <2> DEFINE V == Visible(E, k, n)
  <2>3. /\ \A e \in V : e.value # Dead => k \in DOMAIN now /\ now[k] = e.value
        /\ k \in DOMAIN now => \E e \in V : e.value # Dead
    BY ViewAt
  <2>4. /\ \A e \in V : e.value # Dead => k \in DOMAIN old /\ old[k] = e.value
        /\ k \in DOMAIN old => \E e \in V : e.value # Dead
    BY <2>2, ViewAt
  <2> HIDE DEF V, now, old
  <2> QED
    BY <2>3, <2>4
<1>4. old = [k \in DOMAIN old |-> old[k]]
  BY DEF View
<1> HIDE DEF touched, old, now
<1>5. (DOMAIN now \ touched) \cup (touched \cap DOMAIN old) = DOMAIN old
  BY <1>3
<1>6. \A k \in DOMAIN old : (IF k \in touched THEN old[k] ELSE now[k]) = old[k]
  BY <1>3
<1>7. Restored(t) = old
  BY <1>2, <1>4, <1>5, <1>6
<1> QED
  BY <1>7 DEF old

-----------------------------------------------------------------------------
(* Sequences of versions. *)

(* The prefix of all of a sequence is the sequence. *)
LEMMA WholePrefix ==
  ASSUME NEW S, NEW s \in Seq(S)
  PROVE  SubSeq(s, 1, Len(s)) = s
OBVIOUS

(* Appending a version leaves the versions before it. *)
LEMMA PrefixOfAppend ==
  ASSUME NEW S, NEW s \in Seq(S), NEW x \in S, NEW h \in 0..Len(s)
  PROVE  /\ SubSeq(Append(s, x), 1, h) = SubSeq(s, 1, h)
         /\ Append(s, x) \in Seq(S) /\ Len(Append(s, x)) = Len(s) + 1
         /\ DOMAIN Append(s, x) = DOMAIN s \cup {Len(s) + 1}
         /\ \A v \in DOMAIN s : Append(s, x)[v] = s[v]
         /\ Append(s, x)[Len(s) + 1] = x
OBVIOUS

(* The length and the elements of a prefix. *)
LEMMA PrefixFacts ==
  ASSUME NEW S, NEW s \in Seq(S), NEW h \in 0..Len(s)
  PROVE  /\ SubSeq(s, 1, h) \in Seq(S) /\ Len(SubSeq(s, 1, h)) = h
         /\ DOMAIN SubSeq(s, 1, h) = 1..h
         /\ \A v \in 1..h : SubSeq(s, 1, h)[v] = s[v]
OBVIOUS

-----------------------------------------------------------------------------
(* The steps. *)

\* What a reader has, at each of its steps: until it is overtaken, the version it found to be
\* the latest still is.
Shows(r, t) ==
  /\ r.step # "idle" =>
       /\ r = [step |-> r.step, height |-> r.height, state |-> r.state, tree |-> r.tree,
               index |-> r.index, overtaken |-> r.overtaken]
       /\ r.height \in 1..Len(t) /\ r.index = 1..r.height /\ r.overtaken \in BOOLEAN
  /\ r.step = "hss" => r.overtaken = FALSE /\ r.state = t[r.height]
  /\ r.step = "latest" => IF r.overtaken THEN r.height < Len(t) ELSE r.height = Len(t)
  /\ r.step = "open" => IF r.overtaken THEN \E v \in (r.height + 1)..Len(t) : r.state = t[v]
                        ELSE r.state = t[r.height]

Inv == VersionsIntact /\ Shows(reader, truth)

\* A reader that shows what it should keeps doing so when a version is added.
LEMMA ShowsMore ==
  ASSUME NEW r, NEW t \in Seq(Contents), NEW x \in Contents, Shows(r, t),
         r.step \in {"idle", "hss", "latest", "open"}
  PROVE  /\ Shows(Overtake(r), Append(t, x))
         /\ Overtake(r).step = r.step /\ (r.step # "idle" => Overtake(r).height = r.height)
<1> DEFINE n == Len(t)
           u == Append(t, x)
<1>1. n \in Nat /\ Len(u) = n + 1 /\ \A v \in 1..n : u[v] = t[v]
  OBVIOUS
<1>2. u[n + 1] = x
  OBVIOUS
<1> HIDE DEF u
<1>3. CASE r.step = "latest"
  <2> DEFINE q == [step |-> r.step, height |-> r.height, state |-> r.state, tree |-> r.tree,
                   index |-> r.index, overtaken |-> TRUE]
  <2>1. Overtake(r) = q
    BY <1>3 DEF Shows, Overtake
  <2>2. q.step = "latest" /\ q.height \in 1..Len(u) /\ q.index = 1..q.height /\ q.overtaken = TRUE
        /\ q.height < Len(u) /\ q.height = r.height
    BY <1>1, <1>3 DEF Shows
  <2>3. q = [step |-> q.step, height |-> q.height, state |-> q.state, tree |-> q.tree,
             index |-> q.index, overtaken |-> q.overtaken]
    OBVIOUS
  <2> HIDE DEF q
  <2>4. Shows(q, u)
    BY <2>2, <2>3 DEF Shows
  <2> QED
    BY <1>3, <2>1, <2>2, <2>4 DEF u
<1>4. CASE r.step # "latest"
  <2>1. Overtake(r) = r
    BY <1>4 DEF Overtake
  <2>2. r.step # "idle" => r.height \in 1..n /\ r.height \in 1..Len(u)
    BY <1>1 DEF Shows
  <2>3. r.step \in {"hss", "open"} => u[r.height] = t[r.height]
    BY <1>1, <2>2
  <2>4. ASSUME r.step = "open", r.overtaken PROVE \E v \in (r.height + 1)..Len(u) : r.state = u[v]
    <3>1. PICK v \in (r.height + 1)..n : r.state = t[v]
      BY <2>4 DEF Shows
    <3>2. v \in 1..n /\ v \in (r.height + 1)..Len(u)
      BY <1>1, <2>2, <2>4
    <3> QED
      BY <1>1, <3>1, <3>2
  <2>5. Shows(r, u)
    BY <1>4, <2>2, <2>3, <2>4 DEF Shows
  <2> QED
    BY <2>1, <2>5 DEF u
<1> QED
  BY <1>3, <1>4

\* The last version of a store that is intact.
LEMMA IntactFacts ==
  ASSUME NEW d, NEW t \in Seq(Contents), Intact(d, t)
  PROVE  /\ Len(t) \in Nat /\ DOMAIN t = 1..Len(t)
         /\ d.last.height = Len(t) /\ DOMAIN d.ids = 1..Len(t) /\ d.index = 1..Len(t)
         /\ Versioned(d.hss, Len(t)) /\ d.lss = View(d.hss, Len(t))
         /\ \A v \in 1..Len(t) : View(d.hss, v) = t[v]
         /\ t # <<>> => d.last.root = d.ids[Len(t)]
<1>1. Len(t) \in Nat /\ DOMAIN t = 1..Len(t)
  OBVIOUS
<1>2. d.last.height = Len(t)
  BY DEF Intact, HistoryIntact
<1> QED
  BY <1>1, <1>2 DEF Intact, HistoryIntact, LatestIsHistoric, EntriesOnce, Versioned

(* What makes a database agree with the history of its commits. *)
LEMMA IsIntact ==
  ASSUME NEW d, NEW t \in Seq(Contents),
         d.last.height = Len(t), DOMAIN d.ids = 1..Len(t), d.index = 1..Len(t),
         Versioned(d.hss, Len(t)), d.lss = View(d.hss, Len(t)),
         \A v \in 1..Len(t) : View(d.hss, v) = t[v],
         t # <<>> => d.last.root = d.ids[Len(t)]
  PROVE  Intact(d, t)
<1>1. DOMAIN t = 1..Len(t)
  OBVIOUS
<1> QED
  BY <1>1 DEF Intact, HistoryIntact, LatestIsHistoric, EntriesOnce, Versioned

(* In a state of the invariant the open version is the last one committed,
   or the one the batch writes. *)
LEMMA Heights ==
  ASSUME Inv
  PROVE  /\ Len(truth) \in Nat /\ truth \in Seq(Contents) /\ DOMAIN truth = 1..Len(truth)
         /\ Intact(db, truth) /\ db.last.height = Len(truth) /\ version \in 0..MaxVersion
         /\ batch = NoBatch => version = Len(truth)
         /\ batch # NoBatch => version = Len(truth) + 1
<1>1. truth \in Seq(Contents) /\ Intact(db, truth)
  BY DEF Inv, VersionsIntact, TypeOK
<1>2. Len(truth) \in Nat /\ DOMAIN truth = 1..Len(truth) /\ db.last.height = Len(truth)
  BY <1>1, IntactFacts
<1>3. version \in 0..MaxVersion /\ version = db.last.height + IF batch = NoBatch THEN 0 ELSE 1
  BY DEF Inv, VersionsIntact, TypeOK
<1>4. batch = NoBatch => version = Len(truth)
  BY <1>2, <1>3
<1>5. batch # NoBatch => version = Len(truth) + 1
  BY <1>2, <1>3
<1> QED
  BY <1>1, <1>2, <1>3, <1>4, <1>5

(* Pending operations laid over pending operations are pending operations. *)
LEMMA OverrideOps ==
  ASSUME NEW f \in Ops, NEW g \in Ops
  PROVE  Override(f, g) \in Ops
<1> DEFINE d == DOMAIN f \cup DOMAIN g
<1>1. d \in SUBSET Keys
  BY OpsType
<1>2. Override(f, g) \in [d -> Stored \cup {Dead}]
  BY OpsType DEF Override
<1> QED
  BY <1>1, <1>2, IsOps

\* The operations of a block change under a store that is at rest.
LEMMA PendingInv ==
  ASSUME Inv, batch = NoBatch, UNCHANGED <<db, wal, version, batch, running, reader, truth>>,
         ops' \in Ops, txns' \in Seq(Ops), Len(txns') <= MaxDepth,
         sc' # <<>> => version < MaxVersion
  PROVE  Inv'
<1>1. TypeOK'
  BY DEF Inv, VersionsIntact, TypeOK
<1>2. Intact(db, truth)'
  <2>1. Intact(db, truth)
    BY DEF Inv, VersionsIntact
  <2> QED
    BY <2>1 DEF Intact, LatestIsHistoric, HistoryIntact, EntriesOnce
<1>3. \A i \in DOMAIN wal' : /\ wal'[i].last.height \in 0..Len(truth')
                             /\ Intact(wal'[i], SubSeq(truth', 1, wal'[i].last.height))
  BY DEF Inv, VersionsIntact
<1>4. (\A i \in DOMAIN wal : /\ wal[i].last.height \in 0..Len(truth)
                             /\ Intact(wal[i], SubSeq(truth, 1, wal[i].last.height)))'
  BY <1>3 DEF Intact, LatestIsHistoric, HistoryIntact, EntriesOnce
<1>5. Shows(reader, truth)'
  BY DEF Inv
<1> QED
  BY <1>1, <1>2, <1>4, <1>5 DEF Inv, VersionsIntact

(* In a state of the invariant the pending writes and nested transactions
   have their types, and a root computed leaves room for a version. *)
LEMMA PendingTypes ==
  ASSUME Inv
  PROVE  /\ ops \in Ops /\ txns \in Seq(Ops) /\ Len(txns) <= MaxDepth /\ Len(txns) \in Nat
         /\ sc # <<>> /\ batch = NoBatch => version < MaxVersion
         /\ NoOps \in Ops
<1>1. NoOps \in [{} -> Stored \cup {Dead}]
  BY DEF NoOps
<1>2. NoOps \in Ops
  BY <1>1, IsOps
<1> QED
  BY <1>2 DEF Inv, VersionsIntact, TypeOK

(* Txn.Set and Txn.Delete preserve the invariant. *)
LEMMA WriteInv ==
  ASSUME Inv, NEW k \in Keys, NEW v \in Stored \cup {Dead}, Write(k, v)
  PROVE  Inv'
<1> DEFINE one == [j \in {k} |-> v]
<1>1. one \in Ops
  <2>1. {k} \in SUBSET Keys /\ one \in [{k} -> Stored \cup {Dead}]
    OBVIOUS
  <2> QED
    BY <2>1, IsOps
<1>2. batch = NoBatch /\ sc = <<>> /\ sc' = sc
      /\ UNCHANGED <<db, wal, version, batch, running, reader, truth>>
  BY DEF Write, InBlock
<1>3. CASE txns = <<>>
  <2>1. ops' = Override(ops, one) /\ txns' = txns
    BY <1>3 DEF Write
  <2>2. ops' \in Ops
    BY <1>1, <2>1, PendingTypes, OverrideOps
  <2> QED
    BY <1>2, <2>1, <2>2, PendingTypes, PendingInv
<1>4. CASE txns # <<>>
  <2>1. ops' = ops /\ txns' = [txns EXCEPT ![Len(txns)] = Override(txns[Len(txns)], one)]
    BY <1>4 DEF Write
  <2>2. Len(txns) \in DOMAIN txns /\ txns[Len(txns)] \in Ops
    BY <1>4, PendingTypes
  <2>3. Override(txns[Len(txns)], one) \in Ops
    BY <1>1, <2>2, OverrideOps
  <2>4. txns' \in Seq(Ops) /\ Len(txns') = Len(txns)
    BY <2>1, <2>2, <2>3, PendingTypes
  <2> QED
    BY <1>2, <2>1, <2>4, PendingTypes, PendingInv
<1> QED
  BY <1>3, <1>4

(* NewTxn, Flush and Discard of a nested transaction preserve the
   invariant. *)
LEMMA TxnInv ==
  ASSUME Inv, NewTxn \/ FlushTxn \/ DiscardTxn
  PROVE  Inv'
<1>1. batch = NoBatch /\ sc = <<>> /\ sc' = sc
      /\ UNCHANGED <<db, wal, version, batch, running, reader, truth>>
  BY DEF NewTxn, FlushTxn, DiscardTxn, InBlock
<1>2. CASE NewTxn
  <2>1. ops' = ops /\ txns' = Append(txns, NoOps) /\ Len(txns) < MaxDepth
    BY <1>2 DEF NewTxn
  <2>2. txns' \in Seq(Ops) /\ Len(txns') <= MaxDepth
    BY <2>1, PendingTypes, BoundAssumption
  <2> QED
    BY <1>1, <2>1, <2>2, PendingTypes, PendingInv
<1>3. CASE FlushTxn
  <2>1. txns # <<>> /\ Len(txns) \in DOMAIN txns /\ txns[Len(txns)] \in Ops /\ Len(txns) >= 1
    BY <1>3, PendingTypes DEF FlushTxn
  <2>2. CASE Len(txns) = 1
    <3>1. ops' = Override(ops, txns[1]) /\ txns' = <<>>
      BY <1>3, <2>2 DEF FlushTxn
    <3>2. ops' \in Ops
      BY <2>1, <2>2, <3>1, PendingTypes, OverrideOps
    <3>3. txns' \in Seq(Ops) /\ Len(txns') <= MaxDepth
      BY <3>1, BoundAssumption
    <3> QED
      BY <1>1, <3>2, <3>3, PendingInv
  <2>3. CASE Len(txns) # 1
    <3> DEFINE n == Len(txns)
               front == SubSeq(txns, 1, n - 1)
    <3>1. ops' = ops /\ txns' = [front EXCEPT ![n - 1] = Override(front[n - 1], txns[n])]
      BY <1>3, <2>3 DEF FlushTxn, Front, Last
    <3>2. front \in Seq(Ops) /\ Len(front) = n - 1 /\ n - 1 \in DOMAIN front /\ n \in Nat /\ n <= MaxDepth
      <4>1. n \in Nat /\ n >= 2 /\ n <= MaxDepth /\ n - 1 \in 0..Len(txns)
        <5>1. n \in Nat /\ n <= MaxDepth /\ n = Len(txns)
          BY PendingTypes
        <5>2. n >= 1 /\ n # 1
          BY <2>1, <2>3
        <5> HIDE DEF n
        <5>3. n >= 2 /\ n - 1 \in 0..n
          BY <5>1, <5>2
        <5> QED
          BY <5>1, <5>3
      <4>2. front \in Seq(Ops) /\ Len(front) = n - 1 /\ DOMAIN front = 1..(n - 1)
        BY <4>1, PendingTypes, PrefixFacts
      <4> HIDE DEF n, front
      <4>3. n - 1 \in 1..(n - 1)
        BY <4>1
      <4> QED
        BY <4>1, <4>2, <4>3
    <3> HIDE DEF n, front
    <3>3. front[n - 1] \in Ops
      BY <3>2
    <3>4. Override(front[n - 1], txns[n]) \in Ops
      BY <2>1, <3>3, OverrideOps DEF n
    <3>5. txns' \in Seq(Ops) /\ Len(txns') = n - 1
      BY <3>1, <3>2, <3>4
    <3>6. Len(txns') <= MaxDepth
      BY <3>2, <3>5, BoundAssumption
    <3> QED
      BY <1>1, <3>1, <3>5, <3>6, PendingTypes, PendingInv
  <2> QED
    BY <2>2, <2>3
<1>4. CASE DiscardTxn
  <2>1. ops' = ops /\ txns' = SubSeq(txns, 1, Len(txns) - 1) /\ txns # <<>>
    BY <1>4 DEF DiscardTxn, Front
  <2>2. txns' \in Seq(Ops) /\ Len(txns') = Len(txns) - 1
    <3>1. Len(txns) - 1 \in 0..Len(txns)
      BY <2>1, PendingTypes
    <3> QED
      BY <2>1, <3>1, PendingTypes, PrefixFacts
  <2>3. Len(txns') <= MaxDepth
    BY <2>2, PendingTypes, BoundAssumption
  <2> QED
    BY <1>1, <2>1, <2>2, <2>3, PendingTypes, PendingInv
<1> QED
  BY <1>2, <1>3, <1>4

(* Store.Root preserves the invariant. *)
LEMMA RootInv == ASSUME Inv, Root PROVE Inv'
BY PendingTypes, PendingInv DEF Root, InBlock

(* Store.Reset preserves the invariant. *)
LEMMA ResetInv == ASSUME Inv, Reset PROVE Inv'
<1>1. <<>> \in Seq(Ops) /\ Len(<<>>) <= MaxDepth
  BY BoundAssumption
<1> QED
  BY <1>1, PendingTypes, PendingInv DEF Reset

\* The batch of a commit holds the versions so far and one more.
LEMMA BatchIntact ==
  ASSUME Inv, batch = NoBatch, CommitBatch
  PROVE  Intact(batch', Append(truth, Alive(Override(db.lss, ops))))
<1> DEFINE n == Len(truth)
           new == Alive(Override(db.lss, ops))
           t == Append(truth, new)
           F == db.hss \cup EntriesOf(ops, n + 1)
<1>1. /\ n \in Nat /\ truth \in Seq(Contents) /\ DOMAIN truth = 1..n /\ version = n
      /\ Intact(db, truth) /\ ops \in Ops
  BY Heights, PendingTypes
<1>2. /\ DOMAIN db.ids = 1..n /\ db.index = 1..n
      /\ Versioned(db.hss, n) /\ db.lss = View(db.hss, n)
      /\ \A v \in 1..n : View(db.hss, v) = truth[v]
  BY <1>1, IntactFacts
<1>3. /\ batch'.lss = new /\ batch'.hss = F /\ batch'.index = db.index \cup {n + 1}
      /\ batch'.ids = Override(db.ids, [v \in {n + 1} |-> RootOf(sc)])
      /\ batch'.last = [height |-> n + 1, root |-> RootOf(sc)]
  BY <1>1 DEF CommitBatch
<1>4. Versioned(F, n + 1)
  BY <1>1, <1>2, NextEntries
<1>5. /\ \A v \in 0..n : View(F, v) = View(db.hss, v)
      /\ View(F, n + 1) = new
  BY <1>1, <1>2, CommitView
<1>6. new \in Contents
  BY <1>1, <1>4, <1>5, ViewType
<1>7. /\ t \in Seq(Contents) /\ Len(t) = n + 1
      /\ \A v \in 1..n : t[v] = truth[v]
      /\ t[n + 1] = new
  BY <1>1, <1>6, PrefixOfAppend
<1>8. DOMAIN batch'.ids = 1..(n + 1) /\ batch'.ids[n + 1] = RootOf(sc)
  BY <1>1, <1>2, <1>3 DEF Override
<1>9. batch'.index = 1..(n + 1)
  BY <1>1, <1>2, <1>3
<1>10. batch'.last.height = n + 1 /\ batch'.last.root = RootOf(sc)
  BY <1>3
<1> HIDE DEF n, new, t, F
<1>11. \A v \in 1..(n + 1) : View(F, v) = t[v]
  <2> SUFFICES ASSUME NEW v \in 1..(n + 1) PROVE View(F, v) = t[v]
    OBVIOUS
  <2>1. CASE v = n + 1
    BY <1>5, <1>7, <2>1
  <2>2. CASE v # n + 1
    <3>1. v \in 1..n /\ v \in 0..n
      BY <1>1, <2>2
    <3> QED
      BY <1>2, <1>5, <1>7, <3>1
  <2> QED
    BY <2>1, <2>2
<1>12. Intact(batch', t)
  BY <1>1, <1>3, <1>4, <1>5, <1>7, <1>8, <1>9, <1>10, <1>11, IsIntact
<1> QED
  BY <1>12 DEF t, new

\* What a state that a crash may fall back to holds.
LEMMA WalFacts ==
  ASSUME Inv, NEW i \in DOMAIN wal
  PROVE  /\ wal[i].last.height \in 0..Len(truth)
         /\ Intact(wal[i], SubSeq(truth, 1, wal[i].last.height))
BY DEF Inv, VersionsIntact

(* The write of the batch to the database preserves the invariant: it adds
   one version, whole. *)
LEMMA CommitBatchInv == ASSUME Inv, CommitBatch PROVE Inv'
<1>1. /\ running /\ batch = NoBatch
      /\ UNCHANGED <<db, wal, ops, sc, txns, running, reader, truth>>
  BY DEF CommitBatch
<1>2. batch = NoBatch /\ running /\ version' = version + 1 /\ version < MaxVersion
  BY PendingTypes DEF CommitBatch
<1>3. batch' # NoBatch
  <2>1. "lss" \in DOMAIN batch'
    BY DEF CommitBatch
  <2>2. DOMAIN <<>> = {}
    OBVIOUS
  <2> QED
    BY <2>1, <2>2 DEF NoBatch
<1>4. version = Len(truth) /\ db.last.height = Len(truth) /\ Len(truth) \in Nat
  BY <1>2, Heights
<1>5. version' \in 0..MaxVersion /\ version' = db'.last.height + IF batch' = NoBatch THEN 0 ELSE 1
  BY <1>1, <1>2, <1>3, <1>4, BoundAssumption
<1>6. TypeOK'
  BY <1>1, <1>2, <1>3, <1>5 DEF Inv, VersionsIntact, TypeOK
<1>7. Intact(batch', Append(truth, Alive(Override(db.lss, ops))))
  BY <1>2, BatchIntact
<1>8. Intact(db, truth)'
  BY <1>1 DEF Inv, VersionsIntact, Intact, LatestIsHistoric, HistoryIntact, EntriesOnce
<1>9. (\A i \in DOMAIN wal : /\ wal[i].last.height \in 0..Len(truth)
                             /\ Intact(wal[i], SubSeq(truth, 1, wal[i].last.height)))'
  BY <1>1 DEF Inv, VersionsIntact
<1>10. Intact(batch, Append(truth, Alive(Override(db.lss, ops))))'
  BY <1>1, <1>7
<1>11. Shows(reader, truth)'
  BY <1>1 DEF Inv
<1> QED
  BY <1>6, <1>8, <1>9, <1>10, <1>11 DEF Inv, VersionsIntact

\* The commit is applied: the batch becomes the store, and its version a committed one.
LEMMA CommitApplyInv == ASSUME Inv, CommitApply PROVE Inv'
<1> DEFINE new == Alive(Override(db.lss, ops))
           n == Len(truth)
<1>1. /\ running /\ batch # NoBatch /\ db' = batch /\ wal' = Append(wal, batch) /\ batch' = NoBatch
      /\ ops' = NoOps /\ sc' = <<>> /\ truth' = Append(truth, new)
      /\ version' = version /\ txns' = txns /\ running' = running /\ reader' = Overtake(reader)
  BY DEF CommitApply
<1>2. /\ n \in Nat /\ truth \in Seq(Contents) /\ DOMAIN truth = 1..n /\ version = n + 1
      /\ Intact(db, truth) /\ ops \in Ops /\ version \in 0..MaxVersion
  BY <1>1, Heights, PendingTypes
<1>3. Intact(batch, Append(truth, new))
  BY <1>1 DEF Inv, VersionsIntact
<1>4. new \in Contents
  <2>1. Versioned(db.hss, n) /\ db.lss = View(db.hss, n)
    BY <1>2, IntactFacts
  <2>2. new = View(db.hss \cup EntriesOf(ops, n + 1), n + 1)
    BY <1>2, <2>1, CommitView
  <2>3. Versioned(db.hss \cup EntriesOf(ops, n + 1), n + 1) /\ n + 1 \in Nat
    BY <1>2, <2>1, NextEntries
  <2> HIDE DEF new, n
  <2> QED
    BY <2>2, <2>3, ViewType
<1>5. /\ truth' \in Seq(Contents) /\ Len(truth') = n + 1 /\ DOMAIN truth' = 1..(n + 1)
      /\ \A v \in 1..n : truth'[v] = truth[v]
      /\ \A h \in 0..n : SubSeq(truth', 1, h) = SubSeq(truth, 1, h)
  BY <1>1, <1>2, <1>4, PrefixOfAppend
<1> HIDE DEF new
<1>6. Intact(db', truth') /\ db'.last.height = n + 1
  BY <1>1, <1>3, <1>5, IntactFacts
<1>7. SubSeq(truth', 1, n + 1) = truth'
  BY <1>5, WholePrefix
<1>8. /\ wal \in Seq(ToSet(wal)) /\ wal # <<>>
      /\ reader.step \in {"idle", "hss", "latest", "open"} /\ (reader.step # "idle" => reader.height \in DOMAIN truth)
  BY DEF Inv, VersionsIntact, TypeOK
<1>9. /\ wal' # <<>> /\ wal' \in Seq(ToSet(wal'))
      /\ \A i \in DOMAIN wal' : (i \in DOMAIN wal /\ wal'[i] = wal[i]) \/ wal'[i] = batch
  <2> DEFINE S == ToSet(wal) \cup {batch}
  <2>1. wal \in Seq(S)
    BY <1>8
  <2> HIDE DEF S
  <2>2. batch \in S
    BY DEF S
  <2>3. /\ wal' \in Seq(S) /\ Len(wal') = Len(wal) + 1 /\ Len(wal) \in Nat
        /\ DOMAIN wal' = DOMAIN wal \cup {Len(wal) + 1}
        /\ \A i \in DOMAIN wal : wal'[i] = wal[i]
        /\ wal'[Len(wal) + 1] = batch
    BY <1>1, <2>1, <2>2, PrefixOfAppend
  <2>4. wal' # <<>>
    BY <2>3
  <2>5. wal' \in Seq(ToSet(wal'))
    BY <2>3 DEF ToSet
  <2> QED
    BY <2>3, <2>4, <2>5
<1>10. ASSUME NEW i \in DOMAIN wal'
       PROVE  /\ wal'[i].last.height \in 0..Len(truth')
              /\ Intact(wal'[i], SubSeq(truth', 1, wal'[i].last.height))
  <2>1. CASE wal'[i] = batch
    <3>1. wal'[i].last.height = n + 1 /\ n + 1 \in 0..Len(truth')
      BY <1>1, <1>2, <1>5, <1>6, <2>1
    <3> QED
      BY <1>1, <1>6, <1>7, <2>1, <3>1
  <2>2. CASE i \in DOMAIN wal /\ wal'[i] = wal[i]
    <3>1. wal[i].last.height \in 0..n /\ Intact(wal[i], SubSeq(truth, 1, wal[i].last.height))
      BY <2>2, WalFacts
    <3>2. wal[i].last.height \in 0..Len(truth')
      BY <1>2, <1>5, <3>1
    <3> QED
      BY <1>5, <2>2, <3>1, <3>2
  <2> QED
    BY <1>9, <2>1, <2>2
<1>11. /\ version' \in 0..MaxVersion
       /\ version' = db'.last.height + IF batch' = NoBatch THEN 0 ELSE 1
  BY <1>1, <1>2, <1>6
<1>12. /\ Shows(reader', truth') /\ reader'.step = reader.step
       /\ reader.step # "idle" => reader'.height \in DOMAIN truth'
  <2>1. Shows(reader, truth)
    BY DEF Inv
  <2> QED
    BY <1>1, <1>2, <1>4, <1>5, <1>8, <2>1, ShowsMore
<1>13. TypeOK'
  BY <1>1, <1>5, <1>8, <1>9, <1>11, <1>12, PendingTypes DEF Inv, VersionsIntact, TypeOK
<1>14. Shows(reader, truth)'
  BY <1>12
<1>15. batch' = NoBatch
  BY <1>1
<1>16. Intact(db, truth)'
  BY <1>6
<1>17. (\A i \in DOMAIN wal : /\ wal[i].last.height \in 0..Len(truth)
                              /\ Intact(wal[i], SubSeq(truth, 1, wal[i].last.height)))'
  BY <1>10
<1> QED
  BY <1>13, <1>14, <1>15, <1>16, <1>17 DEF Inv, VersionsIntact

\* The store becomes one that is intact, the only one that a crash may fall back to, and its
\* height is the version: the node was stopped.
LEMMA FallBackInv ==
  ASSUME Inv, NEW h \in 0..Len(truth), truth' = SubSeq(truth, 1, h), Intact(db', truth'),
         wal' = <<db'>>, version' = h, batch' = NoBatch, reader' = Idle, running' = FALSE,
         ops' \in Ops, txns' \in Seq(Ops), Len(txns') <= MaxDepth,
         sc' # <<>> => h < MaxVersion
  PROVE  Inv'
<1>1. truth' \in Seq(Contents) /\ Len(truth') = h /\ h \in Nat
  BY Heights, PrefixFacts
<1>2. db'.last.height = h
  BY <1>1, IntactFacts
<1>3. SubSeq(truth', 1, h) = truth'
  BY <1>1, WholePrefix
<1>4. DOMAIN wal' = {1} /\ wal'[1] = db' /\ wal' # <<>> /\ wal' \in Seq({db'}) /\ ToSet(wal') = {db'}
  BY DEF ToSet
<1>5. h \in 0..MaxVersion
  <2>1. Len(truth) \in Nat /\ version \in 0..MaxVersion
    BY Heights
  <2>2. version = Len(truth) \/ version = Len(truth) + 1
    BY Heights
  <2>3. Len(truth) <= MaxVersion
    BY <2>1, <2>2, BoundAssumption
  <2> QED
    BY <1>1, <2>1, <2>3, BoundAssumption
<1>6. version' = db'.last.height + IF batch' = NoBatch THEN 0 ELSE 1
  BY <1>1, <1>2
<1>7. Idle.step = "idle"
  BY DEF Idle
<1>8. wal' \in Seq(ToSet(wal')) /\ running' \in BOOLEAN
  BY <1>4
<1>9. TypeOK'
  BY <1>1, <1>4, <1>5, <1>6, <1>7, <1>8 DEF TypeOK
<1>10. Shows(reader, truth)'
  BY <1>7 DEF Shows
<1>11. \A i \in DOMAIN wal' : /\ wal'[i].last.height \in 0..Len(truth')
                              /\ Intact(wal'[i], SubSeq(truth', 1, wal'[i].last.height))
  <2>1. h \in 0..Len(truth')
    BY <1>1
  <2>2. Intact(db', SubSeq(truth', 1, h))
    BY <1>3
  <2> SUFFICES ASSUME NEW i \in DOMAIN wal'
               PROVE  /\ wal'[i].last.height \in 0..Len(truth')
                      /\ Intact(wal'[i], SubSeq(truth', 1, wal'[i].last.height))
    OBVIOUS
  <2>3. wal'[i] = db'
    BY <1>4
  <2> QED
    BY <1>2, <2>1, <2>2, <2>3
<1>12. Intact(db, truth)'
  OBVIOUS
<1>13. (\A i \in DOMAIN wal : /\ wal[i].last.height \in 0..Len(truth)
                              /\ Intact(wal[i], SubSeq(truth, 1, wal[i].last.height)))'
  BY <1>11
<1> QED
  BY <1>9, <1>10, <1>12, <1>13 DEF Inv, VersionsIntact

\* A crash falls back to a state that is intact for the versions it has.
LEMMA CrashInv == ASSUME Inv, Crash PROVE Inv'
<1>1. PICK i \in DOMAIN wal : db' = wal[i]
  BY DEF Crash
<1> DEFINE h == wal[i].last.height
<1>2. h \in 0..Len(truth) /\ Intact(wal[i], SubSeq(truth, 1, h))
  BY WalFacts
<1>3. truth' = SubSeq(truth, 1, h) /\ version' = h /\ wal' = <<db'>>
  BY <1>1 DEF Crash
<1>4. Intact(db', truth')
  BY <1>1, <1>2, <1>3
<1>5. ops' \in Ops /\ txns' \in Seq(Ops) /\ Len(txns') <= MaxDepth
  <2>1. ops' = NoOps /\ txns' = <<>>
    BY DEF Crash
  <2> QED
    BY <2>1, PendingTypes, BoundAssumption
<1> HIDE DEF h
<1> QED
  BY <1>2, <1>3, <1>4, <1>5, FallBackInv DEF Crash

\* A rollback gives the store that the target version left.
LEMMA RollbackInv == ASSUME Inv, NEW t \in 1..MaxVersion, Rollback(t) PROVE Inv'
<1> DEFINE n == Len(truth)
<1>1. /\ ~running /\ batch = NoBatch /\ reader = Idle /\ t < version
      /\ UNCHANGED <<ops, sc, txns, batch, running, reader>>
  BY DEF Rollback, Inv, VersionsIntact, TypeOK
<1>2. /\ n \in Nat /\ truth \in Seq(Contents) /\ version = n /\ Intact(db, truth) /\ t \in 0..n
  BY <1>1, Heights
<1>3. /\ DOMAIN db.ids = 1..n /\ db.index = 1..n
      /\ Versioned(db.hss, n) /\ db.lss = View(db.hss, n)
      /\ \A v \in 1..n : View(db.hss, v) = truth[v]
  BY <1>2, IntactFacts
<1>4. /\ db'.lss = Restored(t) /\ db'.hss = Prune(db.hss, t) /\ db'.index = {h \in db.index : h <= t}
      /\ db'.ids = [v \in {u \in DOMAIN db.ids : u <= t} |-> db.ids[v]]
      /\ db'.last = [height |-> t, root |-> db.ids[t]]
      /\ truth' = SubSeq(truth, 1, t) /\ version' = t /\ wal' = <<db'>>
  BY DEF Rollback, RolledBack
<1>5. /\ truth' \in Seq(Contents) /\ Len(truth') = t /\ \A v \in 1..t : truth'[v] = truth[v]
  BY <1>2, <1>4, PrefixFacts
<1>6. /\ Versioned(db'.hss, t)
      /\ \A v \in 0..t : View(db'.hss, v) = View(db.hss, v)
  <2>1. db'.hss = {e \in db.hss : ~(e.version > t /\ e.version <= n)}
    BY <1>2, <1>4 DEF Prune
  <2> QED
    BY <1>2, <1>3, <2>1, PrunedView
<1>7. db'.lss = View(db'.hss, t)
  <2>1. Restored(t) = View(db.hss, t)
    BY <1>2, <1>3, RestoredView
  <2> QED
    BY <1>2, <1>4, <1>6, <2>1
<1>8. \A v \in 1..t : View(db'.hss, v) = truth'[v]
  BY <1>2, <1>3, <1>5, <1>6
<1>9. DOMAIN db'.ids = 1..t /\ db'.index = 1..t /\ db'.ids[t] = db.ids[t]
  BY <1>2, <1>3, <1>4
<1>10. db'.last.height = t /\ db'.last.root = db.ids[t]
  BY <1>4
<1>11. Intact(db', truth')
  BY <1>5, <1>6, <1>7, <1>8, <1>9, <1>10, IsIntact
<1>12. running' = FALSE
  <2>1. running \in BOOLEAN
    BY DEF Inv, VersionsIntact, TypeOK
  <2> QED
    BY <1>1, <2>1
<1>13. t < MaxVersion
  BY <1>1, Heights, BoundAssumption
<1> QED
  BY <1>1, <1>2, <1>4, <1>11, <1>12, <1>13, PendingTypes, FallBackInv

\* The log reaches the disk: only the newest state is left to fall back to.
LEMMA WalSyncInv == ASSUME Inv, WalSync PROVE Inv'
<1>1. /\ wal' = <<wal[Len(wal)]>> /\ Len(wal) > 1
      /\ UNCHANGED <<db, version, ops, sc, txns, batch, running, reader, truth>>
  BY DEF WalSync, Last
<1>2. wal \in Seq(ToSet(wal))
  BY DEF Inv, VersionsIntact, TypeOK
<1>3. Len(wal) \in DOMAIN wal
  BY <1>1, <1>2
<1> DEFINE d == wal[Len(wal)]
<1>4. d.last.height \in 0..Len(truth) /\ Intact(d, SubSeq(truth, 1, d.last.height))
  BY <1>3, WalFacts
<1> HIDE DEF d
<1>5. wal' = <<d>>
  BY <1>1 DEF d
<1>6. DOMAIN wal' = {1} /\ wal'[1] = d /\ wal' # <<>> /\ wal' \in Seq({d}) /\ ToSet(wal') = {d}
  BY <1>5 DEF ToSet
<1>7. TypeOK'
  BY <1>1, <1>6 DEF Inv, VersionsIntact, TypeOK
<1>8. Intact(db, truth)'
  BY <1>1 DEF Inv, VersionsIntact, Intact, LatestIsHistoric, HistoryIntact, EntriesOnce
<1>9. \A i \in DOMAIN wal' : wal'[i] = d
  BY <1>6
<1>10. (\A i \in DOMAIN wal : /\ wal[i].last.height \in 0..Len(truth)
                              /\ Intact(wal[i], SubSeq(truth, 1, wal[i].last.height)))'
  BY <1>1, <1>4, <1>9
<1>11. batch' # NoBatch => Intact(batch, Append(truth, Alive(Override(db.lss, ops))))'
  <2>1. batch # NoBatch => Intact(batch, Append(truth, Alive(Override(db.lss, ops))))
    BY DEF Inv, VersionsIntact
  <2> QED
    BY <1>1, <2>1 DEF Intact, LatestIsHistoric, HistoryIntact, EntriesOnce
<1>12. Shows(reader, truth)'
  BY <1>1 DEF Inv
<1> QED
  BY <1>7, <1>8, <1>10, <1>11, <1>12 DEF Inv, VersionsIntact

\* Steps that leave the store, its log and its batch as they are: a start, and a reader's.
LEMMA SameStoreInv ==
  ASSUME Inv, UNCHANGED <<db, wal, version, ops, sc, txns, batch, truth>>,
         running' \in BOOLEAN, ~running' => batch = NoBatch /\ reader' = Idle,
         reader'.step \in {"idle", "hss", "latest", "open"}, Shows(reader', truth)
  PROVE  Inv'
<1>0. reader'.step # "idle" => reader'.height \in DOMAIN truth
  BY Heights DEF Shows
<1>1. TypeOK'
  BY <1>0 DEF Inv, VersionsIntact, TypeOK
<1>2. Intact(db, truth)'
  BY DEF Inv, VersionsIntact, Intact, LatestIsHistoric, HistoryIntact, EntriesOnce
<1>3. (\A i \in DOMAIN wal : /\ wal[i].last.height \in 0..Len(truth)
                             /\ Intact(wal[i], SubSeq(truth, 1, wal[i].last.height)))'
  BY DEF Inv, VersionsIntact
<1>4. batch' # NoBatch => Intact(batch, Append(truth, Alive(Override(db.lss, ops))))'
  <2>1. batch # NoBatch => Intact(batch, Append(truth, Alive(Override(db.lss, ops))))
    BY DEF Inv, VersionsIntact
  <2> QED
    BY <2>1 DEF Intact, LatestIsHistoric, HistoryIntact, EntriesOnce
<1>5. Shows(reader, truth)'
  OBVIOUS
<1> QED
  BY <1>1, <1>2, <1>3, <1>4, <1>5 DEF Inv, VersionsIntact

\* A start finds the version that the node stopped at.
LEMMA StartInv == ASSUME Inv, Start PROVE Inv'
<1>1. batch = NoBatch /\ reader = Idle /\ running' = TRUE
  BY DEF Start, Inv, VersionsIntact, TypeOK
<1>2. version' = version
  BY <1>1, Heights DEF Start, OpenVersion
<1>3. Idle.step = "idle"
  BY DEF Idle
<1>4. UNCHANGED <<db, wal, version, ops, sc, txns, batch, truth>> /\ reader' = Idle
  BY <1>1, <1>2 DEF Start
<1>5. Shows(reader', truth)
  BY <1>3, <1>4 DEF Shows
<1> QED
  BY <1>1, <1>3, <1>4, <1>5, SameStoreInv

\* What is known of a reader.
LEMMA ReaderFacts ==
  ASSUME Inv
  PROVE  /\ running \in BOOLEAN /\ (~running => batch = NoBatch /\ reader = Idle)
         /\ reader.step \in {"idle", "hss", "latest", "open"} /\ Shows(reader, truth)
BY DEF Inv, VersionsIntact, TypeOK

\* A reader takes its historic snapshot: the version asked for, and the blocks up to it.
LEMMA ReaderHssInv ==
  ASSUME Inv, NEW v \in 1..MaxVersion, ReadOnlyHss(v)
  PROVE  Inv'
<1> DEFINE r == [step |-> "hss", height |-> v, state |-> View(db.hss, v), tree |-> CommitmentTree,
                 index |-> {h \in db.index : h <= v}, overtaken |-> FALSE]
<1>1. UNCHANGED <<db, wal, version, ops, sc, txns, batch, running, truth>> /\ reader' = r
      /\ running /\ 1 <= v /\ v <= Len(truth)
  BY DEF ReadOnlyHss, FsmHeight
<1>2. /\ v \in 1..Len(truth) /\ db.index = 1..Len(truth) /\ Len(truth) \in Nat
      /\ \A u \in 1..Len(truth) : View(db.hss, u) = truth[u]
  BY <1>1, Heights, IntactFacts, BoundAssumption
<1>3. {h \in db.index : h <= v} = 1..v
  BY <1>2
<1>4. /\ r.step = "hss" /\ r.height = v /\ r.index = 1..v /\ r.overtaken = FALSE /\ r.state = truth[v]
      /\ r = [step |-> r.step, height |-> r.height, state |-> r.state, tree |-> r.tree,
              index |-> r.index, overtaken |-> r.overtaken]
  BY <1>2, <1>3
<1> HIDE DEF r
<1>5. Shows(r, truth)
  BY <1>2, <1>4 DEF Shows
<1> QED
  BY <1>1, <1>4, <1>5, ReaderFacts, SameStoreInv

\* It compares versions: when they agree no commit is under way, and the version asked for is
\* the last one.
LEMMA ReaderCompareInv == ASSUME Inv, ReadOnlyCompare PROVE Inv'
<1> DEFINE s == IF version = reader.height THEN "latest" ELSE "open"
           r == [step |-> s, height |-> reader.height, state |-> reader.state, tree |-> reader.tree,
                 index |-> reader.index, overtaken |-> reader.overtaken]
<1>1. UNCHANGED <<db, wal, version, ops, sc, txns, batch, running, truth>> /\ running
      /\ reader.step = "hss" /\ reader' = [reader EXCEPT !.step = s]
  BY DEF ReadOnlyCompare
<1>2. Shows(reader, truth)
  BY ReaderFacts
<1>3. reader' = r
  BY <1>1, <1>2 DEF Shows
<1>4. /\ reader.height \in 1..Len(truth) /\ reader.index = 1..reader.height /\ reader.overtaken = FALSE
      /\ reader.state = truth[reader.height]
  BY <1>1, <1>2 DEF Shows
<1>5. version = reader.height => reader.height = Len(truth)
  BY <1>4, Heights
<1>6. /\ r.step = s /\ r.height = reader.height /\ r.index = reader.index /\ r.overtaken = reader.overtaken
      /\ r.state = reader.state
      /\ r = [step |-> r.step, height |-> r.height, state |-> r.state, tree |-> r.tree,
              index |-> r.index, overtaken |-> r.overtaken]
  OBVIOUS
<1>7. s \in {"latest", "open"} /\ (s = "latest" => reader.height = Len(truth))
  BY <1>5
<1> HIDE DEF r, s
<1>8. Shows(r, truth)
  BY <1>4, <1>6, <1>7 DEF Shows
<1> QED
  BY <1>1, <1>3, <1>6, <1>7, <1>8, ReaderFacts, SameStoreInv

\* Its snapshot of the latest state is the last version: the one asked for, or a later one when
\* it has been overtaken.
LEMMA ReaderLssInv == ASSUME Inv, ReadOnlyLss PROVE Inv'
<1> DEFINE r == [step |-> "open", height |-> reader.height, state |-> db.lss, tree |-> reader.tree,
                 index |-> reader.index, overtaken |-> reader.overtaken]
<1>1. UNCHANGED <<db, wal, version, ops, sc, txns, batch, running, truth>> /\ running
      /\ reader.step = "latest" /\ reader' = [reader EXCEPT !.step = "open", !.state = db.lss]
  BY DEF ReadOnlyLss, LssReader
<1>2. Shows(reader, truth)
  BY ReaderFacts
<1>3. reader' = r
  BY <1>1, <1>2 DEF Shows
<1>4. /\ reader.height \in 1..Len(truth) /\ reader.index = 1..reader.height /\ reader.overtaken \in BOOLEAN
      /\ IF reader.overtaken THEN reader.height < Len(truth) ELSE reader.height = Len(truth)
  BY <1>1, <1>2 DEF Shows
<1>5. Len(truth) \in Nat /\ db.lss = View(db.hss, Len(truth)) /\ \A u \in 1..Len(truth) : View(db.hss, u) = truth[u]
  BY Heights, IntactFacts
<1>6. db.lss = truth[Len(truth)]
  BY <1>4, <1>5
<1>7. IF reader.overtaken THEN \E v \in (reader.height + 1)..Len(truth) : db.lss = truth[v]
      ELSE db.lss = truth[reader.height]
  BY <1>4, <1>5, <1>6
<1>8. /\ r.step = "open" /\ r.height = reader.height /\ r.index = reader.index
      /\ r.overtaken = reader.overtaken /\ r.state = db.lss
      /\ r = [step |-> r.step, height |-> r.height, state |-> r.state, tree |-> r.tree,
              index |-> r.index, overtaken |-> r.overtaken]
  OBVIOUS
<1> HIDE DEF r
<1>9. Shows(r, truth)
  BY <1>4, <1>7, <1>8 DEF Shows
<1> QED
  BY <1>1, <1>3, <1>8, <1>9, ReaderFacts, SameStoreInv

\* A reader's last step leaves none.
LEMMA ReaderCloseInv == ASSUME Inv, ReadOnlyClose PROVE Inv'
<1>1. UNCHANGED <<db, wal, version, ops, sc, txns, batch, running, truth>> /\ reader' = Idle
      /\ Idle.step = "idle"
  BY DEF ReadOnlyClose, Idle
<1>2. Shows(reader', truth)
  BY <1>1 DEF Shows
<1> QED
  BY <1>1, <1>2, ReaderFacts, SameStoreInv

\* The empty store has no version, and every view of it is empty.
LEMMA InitInv == ASSUME Init PROVE Inv
<1>1. View({}, 0) = <<>>
  <2>1. View({}, 0) = [k \in {} |-> (CHOOSE e \in {} : e.key = k).value]
    BY DEF View, Visible
  <2> QED
    BY <2>1
<1>2. <<>> \in Seq(Contents) /\ Len(<<>>) = 0 /\ DOMAIN <<>> = {}
  OBVIOUS
<1>3. /\ EmptyDb.lss = <<>> /\ EmptyDb.hss = {} /\ EmptyDb.index = {} /\ EmptyDb.ids = <<>>
      /\ EmptyDb.last.height = 0
  BY DEF EmptyDb, NoOps
<1>4. Intact(EmptyDb, <<>>)
  BY <1>1, <1>2, <1>3 DEF Intact, LatestIsHistoric, HistoryIntact, EntriesOnce
<1>5. SubSeq(<<>>, 1, 0) = <<>>
  OBVIOUS
<1>6. /\ db = EmptyDb /\ wal = <<EmptyDb>> /\ version = 0 /\ ops = NoOps /\ sc = <<>> /\ txns = <<>>
      /\ batch = NoBatch /\ running = TRUE /\ reader = Idle /\ truth = <<>>
  BY DEF Init
<1>7. DOMAIN wal = {1} /\ wal[1] = EmptyDb /\ wal # <<>> /\ wal \in Seq({EmptyDb}) /\ ToSet(wal) = {EmptyDb}
  BY <1>6 DEF ToSet
<1>8. NoOps \in Ops
  <2>1. NoOps \in [{} -> Stored \cup {Dead}]
    BY DEF NoOps
  <2> QED
    BY <2>1, IsOps
<1>9. Idle.step = "idle"
  BY DEF Idle
<1>10. <<>> \in Seq(Ops) /\ Len(txns) <= MaxDepth /\ 0 \in 0..MaxVersion
  BY <1>2, <1>6, BoundAssumption
<1>11. TypeOK
  BY <1>2, <1>3, <1>6, <1>7, <1>8, <1>9, <1>10 DEF TypeOK
<1>12. \A i \in DOMAIN wal : /\ wal[i].last.height \in 0..Len(truth)
                             /\ Intact(wal[i], SubSeq(truth, 1, wal[i].last.height))
  <2> SUFFICES ASSUME NEW i \in DOMAIN wal
               PROVE  /\ wal[i].last.height \in 0..Len(truth)
                      /\ Intact(wal[i], SubSeq(truth, 1, wal[i].last.height))
    OBVIOUS
  <2>1. wal[i] = EmptyDb
    BY <1>7
  <2>2. wal[i].last.height = 0 /\ Len(truth) = 0 /\ 0 \in 0..0
    BY <1>2, <1>3, <1>6, <2>1
  <2>3. SubSeq(truth, 1, 0) = <<>>
    BY <1>5, <1>6
  <2> QED
    BY <1>4, <2>1, <2>2, <2>3
<1>13. Shows(reader, truth)
  BY <1>6, <1>9 DEF Shows
<1> QED
  BY <1>4, <1>6, <1>11, <1>12, <1>13 DEF Inv, VersionsIntact

\* Every step keeps the versions and what readers see.
LEMMA NextInv == ASSUME Inv, [Next]_vars PROVE Inv'
<1>1. CASE \E k \in Keys, v \in Stored \cup {Dead} : Write(k, v)
  BY <1>1, WriteInv
<1>2. CASE NewTxn \/ FlushTxn \/ DiscardTxn
  BY <1>2, TxnInv
<1>3. CASE Root
  BY <1>3, RootInv
<1>4. CASE CommitBatch
  BY <1>4, CommitBatchInv
<1>5. CASE CommitApply
  BY <1>5, CommitApplyInv
<1>6. CASE Reset
  BY <1>6, ResetInv
<1>7. CASE WalSync
  BY <1>7, WalSyncInv
<1>8. CASE Crash
  BY <1>8, CrashInv
<1>9. CASE Start
  BY <1>9, StartInv
<1>10. CASE \E t \in 1..MaxVersion : Rollback(t)
  BY <1>10, RollbackInv
<1>11. CASE (\E v \in 1..MaxVersion : ReadOnlyHss(v)) \/ ReadOnlyCompare \/ ReadOnlyLss \/ ReadOnlyClose
  BY <1>11, ReaderHssInv, ReaderCompareInv, ReaderLssInv, ReaderCloseInv
<1>12. CASE UNCHANGED vars
  <2>1. UNCHANGED <<db, wal, version, ops, sc, txns, batch, truth, running, reader>>
    BY <1>12 DEF vars
  <2> QED
    BY <2>1, ReaderFacts, SameStoreInv
<1> QED
  BY <1>1, <1>2, <1>3, <1>4, <1>5, <1>6, <1>7, <1>8, <1>9, <1>10, <1>11, <1>12 DEF Next

\* The versions of the store stay whole: in every reachable state the latest state is the
\* newest view of the history, every committed version reads as it was committed, and so
\* do the states a crash may fall back to and the batch under way (store.go Commit, Reset,
\* Rollback, NewStoreWithDB).
THEOREM VersionsIntactHolds == Spec => []VersionsIntact
<1>1. Init => Inv
  BY InitInv
<1>2. Inv /\ [Next]_vars => Inv'
  BY NextInv
<1>3. Inv => VersionsIntact
  BY DEF Inv
<1> QED
  BY <1>1, <1>2, <1>3, PTL DEF Spec

\* A read-only store shows the blocks up to the version asked for, and its state is exactly
\* that version, however its steps interleave with commits, crashes and restarts; only when a
\* commit overtakes it between the comparison of versions and the second snapshot is the state
\* a later version, and then a whole one (store.go NewReadOnly).
THEOREM ReadsAskedHolds == Spec => []ReadsAsked
<1>1. Init => Inv
  BY InitInv
<1>2. Inv /\ [Next]_vars => Inv'
  BY NextInv
<1>3. Inv => ReadsAsked
  BY DEF Inv, Shows, ReadsAsked
<1> QED
  BY <1>1, <1>2, <1>3, PTL DEF Spec
=============================================================================
