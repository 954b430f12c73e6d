----------------------------- MODULE P2PProofs -----------------------------
(***************************************************************************)
(* The peer sets account for every session, for any number of nodes,       *)
(* connections and faults, and two nodes settle on one of theirs.          *)
(***************************************************************************)
EXTENDS P2P, FiniteSetTheorems, WellFoundedInduction, TLAPS

-----------------------------------------------------------------------------
(* Names and records. *)

\* The lowest free name.
LEMMA MinOfNames ==
  ASSUME NEW S, S \subseteq Nat, S # {}
  PROVE  Min(S) \in S
<1>0. S \subseteq Nat /\ S # {}
  OBVIOUS
<1>1. \E x \in S : \A y \in S : ~(<<y, x>> \in OpToRel(<, Nat))
  BY <1>0, NatLessThanWellFounded, WFMin
<1>2. PICK x \in S : \A y \in S : ~(<<y, x>> \in OpToRel(<, Nat))
  BY <1>1
<1>3. \A y \in S : ~(y < x)
  BY <1>0, <1>2 DEF OpToRel
<1>4. \A y \in S : x <= y
  BY <1>0, <1>3
<1> QED
  BY <1>4 DEF Min

\* The fields of a connection.
LEMMA ConnectionFields ==
  ASSUME NEW x \in Connection
  PROVE  /\ <<x.dialer, x.acceptor>> \in Pairs
         /\ x.dialer \in Nodes /\ x.acceptor \in Nodes /\ x.dialer # x.acceptor
         /\ x.via \in {"backoff", "failed", "probe", None} /\ x.broken \in BOOLEAN
         /\ x.end \in [{x.dialer, x.acceptor} -> EndState]
         /\ x = [dialer |-> x.dialer, acceptor |-> x.acceptor, via |-> x.via,
                 broken |-> x.broken, end |-> x.end]
<1>1. PICK p \in Pairs :
        x \in [dialer : {p[1]}, acceptor : {p[2]}, via : {"backoff", "failed", "probe", None},
               broken : BOOLEAN, end : [{p[1], p[2]} -> EndState]]
  BY DEF Connection
<1>2. x.dialer = p[1] /\ x.acceptor = p[2] /\ p = <<p[1], p[2]>> /\ p[1] # p[2]
      /\ p[1] \in Nodes /\ p[2] \in Nodes
  BY <1>1 DEF Pairs
<1> QED
  BY <1>1, <1>2

\* Records with such fields are connections.
LEMMA IsConnection ==
  ASSUME NEW n \in Nodes, NEW m \in Nodes, n # m,
         NEW via \in {"backoff", "failed", "probe", None}, NEW broken \in BOOLEAN,
         NEW end \in [{n, m} -> EndState]
  PROVE  [dialer |-> n, acceptor |-> m, via |-> via, broken |-> broken, end |-> end] \in Connection
<1>1. <<n, m>> \in Pairs /\ <<n, m>>[1] = n /\ <<n, m>>[2] = m
  BY DEF Pairs
<1>2. [dialer |-> n, acceptor |-> m, via |-> via, broken |-> broken, end |-> end]
        \in [dialer : {n}, acceptor : {m}, via : {"backoff", "failed", "probe", None},
             broken : BOOLEAN, end : [{n, m} -> EndState]]
  OBVIOUS
<1> QED
  BY <1>1, <1>2 DEF Connection

\* The fields of an end, and an end with other ones.
LEMMA EndFields ==
  ASSUME NEW e \in EndState, NEW s \in {"handshake", "made", "done"}, NEW o \in BOOLEAN,
         NEW r \in {"no", "marked", "over"}
  PROVE  /\ e.stage \in {"handshake", "made", "done"} /\ e.open \in BOOLEAN
         /\ e.error \in {"no", "marked", "over"}
         /\ [e EXCEPT !.stage = s] = [stage |-> s, open |-> e.open, error |-> e.error]
         /\ [e EXCEPT !.error = r] = [stage |-> e.stage, open |-> e.open, error |-> r]
         /\ [e EXCEPT !.open = o] = [stage |-> e.stage, open |-> o, error |-> e.error]
         /\ [e EXCEPT !.open = o, !.error = r] = [stage |-> e.stage, open |-> o, error |-> r]
         /\ [e EXCEPT !.error = r, !.open = o] = [stage |-> e.stage, open |-> o, error |-> r]
<1>1. /\ e.stage \in {"handshake", "made", "done"} /\ e.open \in BOOLEAN
      /\ e.error \in {"no", "marked", "over"}
      /\ e = [stage |-> e.stage, open |-> e.open, error |-> e.error]
  BY DEF EndState
<1>2. [e EXCEPT !.stage = s] = [stage |-> s, open |-> e.open, error |-> e.error]
  BY <1>1
<1>3. [e EXCEPT !.error = r] = [stage |-> e.stage, open |-> e.open, error |-> r]
  BY <1>1
<1>4. [e EXCEPT !.open = o] = [stage |-> e.stage, open |-> o, error |-> e.error]
  BY <1>1
<1>5. [e EXCEPT !.open = o, !.error = r] = [stage |-> e.stage, open |-> o, error |-> r]
  <2>1. [e EXCEPT !.open = o, !.error = r] = [[e EXCEPT !.open = o] EXCEPT !.error = r]
    OBVIOUS
  <2> DEFINE d == [e EXCEPT !.open = o]
  <2>2. d.stage = e.stage /\ d.open = o /\ d.error = e.error /\ d = [stage |-> d.stage, open |-> d.open, error |-> d.error]
    BY <1>4
  <2> HIDE DEF d
  <2>3. [d EXCEPT !.error = r] = [stage |-> e.stage, open |-> o, error |-> r]
    BY <2>2
  <2> QED
    BY <2>1, <2>3 DEF d
<1>6. [e EXCEPT !.error = r, !.open = o] = [stage |-> e.stage, open |-> o, error |-> r]
  <2>1. [e EXCEPT !.error = r, !.open = o] = [[e EXCEPT !.error = r] EXCEPT !.open = o]
    OBVIOUS
  <2> DEFINE d == [e EXCEPT !.error = r]
  <2>2. d.stage = e.stage /\ d.error = r /\ d.open = e.open /\ d = [stage |-> d.stage, open |-> d.open, error |-> d.error]
    BY <1>3
  <2> HIDE DEF d
  <2>3. [d EXCEPT !.open = o] = [stage |-> e.stage, open |-> o, error |-> r]
    BY <2>2
  <2> QED
    BY <2>1, <2>3 DEF d
<1> QED
  BY <1>1, <1>2, <1>3, <1>4, <1>5, <1>6

\* A connection that is in use.
LEMMA UsedFields ==
  ASSUME TypeOK, NEW c \in Used
  PROVE  /\ c \in ConnIds /\ conns[c] \in Connection
         /\ Ends(c) \subseteq Nodes /\ DOMAIN conns[c].end = Ends(c)
         /\ \A n \in Ends(c) : /\ End(c, n) \in EndState
                               /\ Remote(c, n) \in Ends(c) \ {n}
                               /\ Ends(c) = {n, Remote(c, n)}
                               /\ \A m \in Ends(c) : m # n => m = Remote(c, n)
<1>1. c \in ConnIds /\ conns[c] \in Connection
  BY DEF TypeOK, Used
<1>2. /\ conns[c].dialer \in Nodes /\ conns[c].acceptor \in Nodes
      /\ conns[c].dialer # conns[c].acceptor
      /\ conns[c].end \in [{conns[c].dialer, conns[c].acceptor} -> EndState]
  BY <1>1, ConnectionFields
<1>3. ASSUME NEW n \in Ends(c)
      PROVE  Remote(c, n) \in Ends(c) \ {n}
  <2>1. \E m \in Ends(c) : m # n
    BY <1>2 DEF Ends
  <2> QED
    BY <2>1 DEF Remote
<1> QED
  BY <1>1, <1>2, <1>3 DEF Ends, End

-----------------------------------------------------------------------------
(* How a step changes the connections: some ends first, then what Settle drops. *)

\* f has the connections of conns, with other ends.
SameConnections(f) ==
  /\ f \in [ConnIds -> Connection \union {None}]
  /\ \A c \in ConnIds : f[c] = None <=> conns[c] = None
  /\ \A c \in Used : /\ f[c].dialer = conns[c].dialer /\ f[c].acceptor = conns[c].acceptor
                     /\ f[c].via = conns[c].via

\* The new connections are those of f that are not over at both ends.
Follows(f) ==
  /\ conns' \in [ConnIds -> Connection \union {None}]
  /\ \A c \in ConnIds : conns'[c] # None =>
       /\ c \in Used
       /\ conns'[c].dialer = conns[c].dialer /\ conns'[c].acceptor = conns[c].acceptor
       /\ conns'[c].end = f[c].end
       /\ conns'[c].via = conns[c].via \/ f[c].end[conns[c].dialer].stage = "done"
  /\ \A c \in Used : conns'[c] = None => \A n \in Ends(c) : f[c].end[n] = GoneEnd

(* When no connection changes, its new record follows from its old one. *)
LEMMA PlainFollows ==
  ASSUME TypeOK, SameConnections(conns') PROVE Follows(conns')
BY DEF SameConnections, Follows, Used, Ends

\* A connection with another end.
LEMMA RecordEnd ==
  ASSUME NEW y \in Connection, NEW n \in {y.dialer, y.acceptor}, NEW e \in EndState
  PROVE  LET z == [y EXCEPT !.end[n] = e]
         IN  /\ z \in Connection /\ z # None
             /\ z.dialer = y.dialer /\ z.acceptor = y.acceptor /\ z.via = y.via
             /\ z.end = [y.end EXCEPT ![n] = e] /\ DOMAIN y.end = {y.dialer, y.acceptor}
             /\ z.broken = y.broken
<1> DEFINE z == [y EXCEPT !.end[n] = e]
<1>2. /\ y.dialer \in Nodes /\ y.acceptor \in Nodes /\ y.dialer # y.acceptor
      /\ y.via \in {"backoff", "failed", "probe", None} /\ y.broken \in BOOLEAN
      /\ y.end \in [{y.dialer, y.acceptor} -> EndState]
      /\ y = [dialer |-> y.dialer, acceptor |-> y.acceptor, via |-> y.via,
              broken |-> y.broken, end |-> y.end]
  BY ConnectionFields
<1>3. z = [dialer |-> y.dialer, acceptor |-> y.acceptor, via |-> y.via,
           broken |-> y.broken, end |-> [y.end EXCEPT ![n] = e]]
  BY <1>2
<1>4. [y.end EXCEPT ![n] = e] \in [{y.dialer, y.acceptor} -> EndState]
  BY <1>2
<1> HIDE DEF z
<1>5. z \in Connection
  BY <1>2, <1>3, <1>4, IsConnection
<1>6. /\ z.dialer = y.dialer /\ z.acceptor = y.acceptor /\ z.via = y.via
      /\ z.end = [y.end EXCEPT ![n] = e] /\ z.broken = y.broken
  BY <1>3
<1>7. z # None /\ DOMAIN y.end = {y.dialer, y.acceptor}
  BY <1>2, <1>5, NameAssumption
<1> QED
  BY <1>5, <1>6, <1>7 DEF z

\* Another end of one connection.
LEMMA WithEnd ==
  ASSUME TypeOK, NEW f, SameConnections(f), NEW c \in Used, NEW n \in Ends(c), NEW e \in EndState
  PROVE  LET g == [f EXCEPT ![c].end[n] = e]
         IN  /\ SameConnections(g)
             /\ \A d \in Used : \A x \in Ends(d) :
                  g[d].end[x] = IF d = c /\ x = n THEN e ELSE f[d].end[x]
             /\ \A d \in Used : g[d].broken = f[d].broken
<1> DEFINE g == [f EXCEPT ![c].end[n] = e]
           y == f[c]
           z == [y EXCEPT !.end[n] = e]
<1>1. /\ c \in ConnIds /\ y \in Connection /\ y.dialer = conns[c].dialer
      /\ y.acceptor = conns[c].acceptor /\ y.via = conns[c].via
      /\ Ends(c) = {y.dialer, y.acceptor} /\ n \in {y.dialer, y.acceptor}
  BY DEF SameConnections, Used, Ends
<1>2. g = [f EXCEPT ![c] = z]
  BY <1>1 DEF SameConnections
<1> HIDE DEF y
<1>3. /\ z \in Connection /\ z # None
      /\ z.dialer = y.dialer /\ z.acceptor = y.acceptor /\ z.via = y.via
      /\ z.end = [y.end EXCEPT ![n] = e] /\ DOMAIN y.end = {y.dialer, y.acceptor}
      /\ z.broken = y.broken
  BY <1>1, RecordEnd
<1> HIDE DEF z
<1>4. SameConnections(g)
  BY <1>1, <1>2, <1>3 DEF SameConnections, Used
<1>5. ASSUME NEW d \in Used, NEW x \in Ends(d)
       PROVE  g[d].end[x] = IF d = c /\ x = n THEN e ELSE f[d].end[x]
  <2>1. d \in ConnIds /\ DOMAIN f = ConnIds
    BY DEF Used, SameConnections
  <2> QED
    BY <1>1, <1>2, <1>3, <2>1 DEF y
<1>6. ASSUME NEW d \in Used PROVE g[d].broken = f[d].broken
  <2>1. d \in ConnIds /\ DOMAIN f = ConnIds
    BY DEF Used, SameConnections
  <2> QED
    BY <1>2, <1>3, <2>1 DEF y
<1> QED
  BY <1>4, <1>5, <1>6

\* Dropping what is over at both ends.
LEMMA SettleFollows ==
  ASSUME TypeOK, NEW f, SameConnections(f), conns' = Settle(f)
  PROVE  Follows(f)
<1> DEFINE over == {c \in ConnIds : f[c] # None /\ \A n \in DOMAIN f[c].end : f[c].end[n] = GoneEnd}
<1>1. conns' = [c \in ConnIds |->
                  IF f[c] = None \/ c \in over THEN None
                  ELSE IF f[c].end[f[c].dialer].stage = "done" THEN [f[c] EXCEPT !.via = None]
                  ELSE f[c]]
  BY DEF Settle
<1>2. ASSUME NEW c \in Used
      PROVE  /\ c \in ConnIds /\ f[c] \in Connection /\ f[c] # None
             /\ f[c].dialer = conns[c].dialer /\ f[c].acceptor = conns[c].acceptor
             /\ f[c].via = conns[c].via /\ DOMAIN f[c].end = Ends(c)
             /\ [f[c] EXCEPT !.via = None] \in Connection
             /\ [f[c] EXCEPT !.via = None].dialer = f[c].dialer
             /\ [f[c] EXCEPT !.via = None].acceptor = f[c].acceptor
             /\ [f[c] EXCEPT !.via = None].end = f[c].end
  <2> DEFINE y == f[c]
             z == [y EXCEPT !.via = None]
  <2>1. /\ c \in ConnIds /\ f[c] \in Connection /\ f[c] # None
        /\ f[c].dialer = conns[c].dialer /\ f[c].acceptor = conns[c].acceptor
        /\ f[c].via = conns[c].via
    BY DEF SameConnections, Used
  <2>2. /\ y.dialer \in Nodes /\ y.acceptor \in Nodes /\ y.dialer # y.acceptor
        /\ y.via \in {"backoff", "failed", "probe", None} /\ y.broken \in BOOLEAN
        /\ y.end \in [{y.dialer, y.acceptor} -> EndState]
        /\ y = [dialer |-> y.dialer, acceptor |-> y.acceptor, via |-> y.via,
                broken |-> y.broken, end |-> y.end]
    BY <2>1, ConnectionFields
  <2>3. z = [dialer |-> y.dialer, acceptor |-> y.acceptor, via |-> None,
             broken |-> y.broken, end |-> y.end]
    BY <2>2
  <2>4. DOMAIN f[c].end = Ends(c)
    BY <2>1, <2>2 DEF Ends
  <2> HIDE DEF y, z
  <2>5. z \in Connection
    BY <2>2, <2>3, IsConnection
  <2>6. z.dialer = y.dialer /\ z.acceptor = y.acceptor /\ z.end = y.end
    BY <2>3
  <2> QED
    BY <2>1, <2>4, <2>5, <2>6 DEF y, z
<1>3. \A c \in ConnIds : c \notin Used => f[c] = None
  BY DEF SameConnections, Used
<1> HIDE DEF over
<1>4. conns' \in [ConnIds -> Connection \union {None}]
  BY <1>1, <1>2, <1>3
<1>5. ASSUME NEW c \in ConnIds, conns'[c] # None
      PROVE  /\ c \in Used
             /\ conns'[c].dialer = conns[c].dialer /\ conns'[c].acceptor = conns[c].acceptor
             /\ conns'[c].end = f[c].end
             /\ conns'[c].via = conns[c].via \/ f[c].end[conns[c].dialer].stage = "done"
  <2>1. c \in Used
    BY <1>1, <1>3, <1>5
  <2>2. \/ conns'[c] = f[c]
        \/ conns'[c] = [f[c] EXCEPT !.via = None] /\ f[c].end[f[c].dialer].stage = "done"
    BY <1>1, <1>5
  <2> QED
    BY <1>2, <2>1, <2>2
<1>6. ASSUME NEW c \in Used, conns'[c] = None, NEW n \in Ends(c)
      PROVE  f[c].end[n] = GoneEnd
  <2>1. c \in ConnIds /\ f[c] # None /\ f[c] \in Connection /\ [f[c] EXCEPT !.via = None] \in Connection
    BY <1>2
  <2>2. c \notin over => conns'[c] = f[c] \/ conns'[c] = [f[c] EXCEPT !.via = None]
    BY <1>1, <2>1
  <2>3. c \in over
    BY <1>6, <2>1, <2>2, NameAssumption
  <2> QED
    BY <1>2, <2>3 DEF over
<1> QED
  BY <1>4, <1>5, <1>6 DEF Follows

\* A step that changes ends as f does, and peer sets, keeps count of the sessions.
Tracks(f) ==
  /\ DOMAIN peers' = Nodes
  /\ \A n \in Nodes : peers'[n] \in [Nodes \ {n} -> ConnIds \union {None}]
  /\ \A p \in Pairs : peers'[p[1]][p[2]] # None =>
       /\ peers'[p[1]][p[2]] \in Used
       /\ Ends(peers'[p[1]][p[2]]) = {p[1], p[2]}
       /\ f[peers'[p[1]][p[2]]].end[p[1]].stage = "done"
       /\ f[peers'[p[1]][p[2]]].end[p[1]].open
       /\ f[peers'[p[1]][p[2]]].end[p[1]].error \in {"no", "marked"}
  /\ \A c \in Used : \A n \in Ends(c) :
       /\ f[c].end[n].stage = "done" /\ f[c].end[n].open /\ f[c].end[n].error = "no"
            => peers'[n][Remote(c, n)] = c
       /\ f[c].end[n].stage # "done" => f[c].end[n].open \/ f[c].end[n].error = "over"

(* What Tracks says of the new connections is what SessionsTracked says of
   them and of the peer set. *)
LEMMA TracksSessions ==
  ASSUME TypeOK, NEW f, SameConnections(f), Follows(f), Tracks(f)
  PROVE  /\ conns' \in [ConnIds -> Connection \union {None}]
         /\ DOMAIN peers' = Nodes
         /\ \A n \in Nodes : peers'[n] \in [Nodes \ {n} -> ConnIds \union {None}]
         /\ \A p \in Pairs : Has(p[1], p[2])' => /\ peers'[p[1]][p[2]] \in Used'
                                                /\ Ends(peers[p[1]][p[2]])' = {p[1], p[2]}
         /\ OpenUntilAdded' /\ PeersAlive' /\ NoneLeaked'
<1>1. ASSUME NEW c \in ConnIds, conns'[c] # None
      PROVE  c \in Used /\ Ends(c)' = Ends(c) /\ conns'[c].end = f[c].end
  BY <1>1 DEF Follows, Ends
<1>2. Used' \subseteq Used /\ \A c \in Used' : c \in ConnIds /\ conns'[c] # None
  BY <1>1 DEF Used
<1>3. \A c \in Used' : \A n \in Ends(c)' : n \in Ends(c) /\ End(c, n)' = f[c].end[n]
  BY <1>1, <1>2 DEF End
<1>4. \A c \in Used' : \A n \in Ends(c)' : Remote(c, n)' = Remote(c, n)
  BY <1>1, <1>2 DEF Remote
<1>5. ASSUME NEW p \in Pairs, NEW c, c = peers'[p[1]][p[2]], c # None
      PROVE  c \in Used' /\ Ends(c)' = {p[1], p[2]} /\ End(c, p[1])' = f[c].end[p[1]]
  <2>1. /\ c \in Used /\ Ends(c) = {p[1], p[2]}
        /\ f[c].end[p[1]].error \in {"no", "marked"}
    BY <1>5 DEF Tracks
  <2>2. f[c].end[p[1]] # GoneEnd
    BY <2>1 DEF GoneEnd
  <2>3. conns'[c] # None
    BY <2>1, <2>2 DEF Follows
  <2>4. c \in ConnIds
    BY <2>1 DEF Used
  <2>5. c \in Used' /\ Ends(c)' = Ends(c)
    BY <1>1, <2>3, <2>4 DEF Used
  <2> QED
    BY <1>3, <2>1, <2>5
<1>6. \A p \in Pairs : Has(p[1], p[2])' => /\ peers'[p[1]][p[2]] \in Used'
                                          /\ Ends(peers[p[1]][p[2]])' = {p[1], p[2]}
  BY <1>5 DEF Has, Ends
<1>7. PeersAlive'
  <2> SUFFICES ASSUME NEW p \in Pairs, NEW c, c = peers'[p[1]][p[2]], c # None
               PROVE  /\ End(c, p[1])'.stage = "done" /\ End(c, p[1])'.open
                      /\ End(c, p[1])'.error \in {"no", "marked"}
    BY DEF PeersAlive, End
  <2> QED
    BY <1>5 DEF Tracks
<1>8. NoneLeaked'
  BY <1>2, <1>3, <1>4 DEF NoneLeaked, Tracks
<1>9. OpenUntilAdded'
  BY <1>2, <1>3 DEF OpenUntilAdded, Tracks
<1> QED
  BY <1>6, <1>7, <1>8, <1>9 DEF Follows, Tracks

-----------------------------------------------------------------------------
(* The count of DialWithBackoff goroutines. *)

\* What AddPeer is through with, it is through with.
StagesKept(f) ==
  \A c \in Used : \A n \in Ends(c) : End(c, n).stage = "done" => f[c].end[n].stage = "done"

\* The types of what dialing and forgetting hold.
DialsTypeOK ==
  /\ DOMAIN dialing = Nodes /\ DOMAIN forgetting = Nodes /\ DOMAIN failedPeers = Nodes
  /\ \A n \in Nodes : /\ dialing[n] \in [Nodes \ {n} -> 0 .. MaxBackoffs]
                      /\ failedPeers[n] \union forgetting[n] \subseteq Nodes \ {n}

(* The back-offs of one dial are finitely many, so they can be counted. *)
LEMMA BackoffsFinite ==
  ASSUME NEW n, NEW m
  PROVE  IsFiniteSet(Backoffs(n, m)) /\ Cardinality(Backoffs(n, m)) \in Nat
<1>1. Backoffs(n, m) \subseteq ConnIds
  BY DEF Backoffs, Underway, Used
<1> QED
  BY <1>1, NameAssumption, FS_Subset, FS_CardinalityType

(* The same of the next state. *)
LEMMA BackoffsFiniteNext ==
  ASSUME NEW n, NEW m
  PROVE  IsFiniteSet(Backoffs(n, m)') /\ Cardinality(Backoffs(n, m)') \in Nat
<1>1. Backoffs(n, m)' \subseteq ConnIds
  BY DEF Backoffs, Underway, Used
<1> QED
  BY <1>1, NameAssumption, FS_Subset, FS_CardinalityType

\* No dial begins when ends only move on.
LEMMA BackoffsShrink ==
  ASSUME TypeOK, NEW f, SameConnections(f), Follows(f), StagesKept(f), NEW n \in Nodes, NEW m
  PROVE  \A c \in Backoffs(n, m)' : c \in Backoffs(n, m) /\ f[c].end[n].stage # "done"
<1> SUFFICES ASSUME NEW c \in Backoffs(n, m)'
             PROVE  c \in Backoffs(n, m) /\ f[c].end[n].stage # "done"
  OBVIOUS
<1>1. /\ c \in ConnIds /\ conns'[c] # None /\ conns'[c].dialer = n
      /\ conns'[c].end[n].stage # "done" /\ conns'[c].acceptor = m /\ conns'[c].via = "backoff"
  BY DEF Backoffs, Underway, Used, End
<1>2. /\ c \in Used /\ conns[c].dialer = n /\ conns[c].acceptor = m
      /\ conns'[c].end = f[c].end
      /\ conns'[c].via = conns[c].via \/ f[c].end[n].stage = "done"
  BY <1>1 DEF Follows
<1>3. f[c].end[n].stage # "done" /\ conns[c].via = "backoff"
  BY <1>1, <1>2
<1>4. End(c, n).stage # "done"
  BY <1>2, <1>3 DEF StagesKept, Ends
<1> QED
  BY <1>2, <1>3, <1>4 DEF Backoffs, Underway

(* A pair is two different nodes. *)
LEMMA PairOfNodes ==
  ASSUME NEW p \in Pairs
  PROVE  p[1] \in Nodes /\ p[2] \in Nodes \ {p[1]} /\ p[1] # p[2]
BY DEF Pairs

(* The dial loops one node runs for another are counted by a natural
   number. *)
LEMMA DialingType ==
  ASSUME TypeOK, NEW p \in Pairs
  PROVE  dialing[p[1]][p[2]] \in Nat
<1>1. dialing[p[1]] \in [Nodes \ {p[1]} -> 0 .. MaxBackoffs]
  BY PairOfNodes DEF TypeOK
<1> QED
  BY <1>1, PairOfNodes, BoundAssumption

\* The bound holds when no goroutine begins to wait.
LEMMA BoundKept ==
  ASSUME TypeOK, BackoffsBounded, NEW f, SameConnections(f), Follows(f), StagesKept(f),
         \A p \in Pairs : /\ dialing'[p[1]][p[2]] \in Nat
                          /\ dialing'[p[1]][p[2]] <= dialing[p[1]][p[2]]
  PROVE  BackoffsBounded'
<1> SUFFICES ASSUME NEW p \in Pairs
             PROVE  dialing'[p[1]][p[2]] + Cardinality(Backoffs(p[1], p[2])') <= MaxBackoffs
  BY DEF BackoffsBounded
<1> DEFINE B == Backoffs(p[1], p[2])
<1>1. B' \in SUBSET B
  BY PairOfNodes, BackoffsShrink
<1>2. Cardinality(B') <= Cardinality(B) /\ Cardinality(B) \in Nat /\ Cardinality(B') \in Nat
  BY <1>1, BackoffsFinite, BackoffsFiniteNext, FS_Subset
<1>3. dialing[p[1]][p[2]] + Cardinality(B) <= MaxBackoffs
  BY DEF BackoffsBounded
<1> HIDE DEF B
<1>4. dialing'[p[1]][p[2]] + Cardinality(B') <= MaxBackoffs
  BY <1>2, <1>3, DialingType, BoundAssumption
<1> QED
  BY <1>4 DEF B

\* A dial that returns frees its place before the goroutine waits again.
LEMMA DialReturnsInv ==
  ASSUME TypeOK, BackoffsBounded, NEW f, SameConnections(f), Follows(f), StagesKept(f),
         NEW c \in Used, NEW n \in Ends(c), End(c, n).stage # "done",
         f[c].end[n].stage = "done", NEW err \in BOOLEAN, DialReturns(c, n, err),
         UNCHANGED failedPeers
  PROVE  DialsTypeOK' /\ BackoffsBounded'
<1> DEFINE m == Remote(c, n)
<1>1. n \in Nodes /\ m \in Nodes \ {n} /\ Ends(c) = {n, m} /\ m \in Ends(c)
  BY UsedFields
<1>2. DialsTypeOK
  BY DEF TypeOK, DialsTypeOK
<1>3. forgetting' = forgetting \/ forgetting' = [forgetting EXCEPT ![n] = @ \union {m}]
  BY DEF DialReturns
<1> HIDE DEF m
<1>4. DOMAIN forgetting' = Nodes /\ \A x \in Nodes : failedPeers'[x] \union forgetting'[x] \subseteq Nodes \ {x}
  <2>1. CASE forgetting' = forgetting
    BY <1>2, <2>1 DEF DialsTypeOK
  <2>2. CASE forgetting' = [forgetting EXCEPT ![n] = @ \union {m}]
    <3>1. DOMAIN forgetting = Nodes /\ DOMAIN forgetting' = Nodes
      BY <1>2, <2>2 DEF DialsTypeOK
    <3>2. ASSUME NEW x \in Nodes
          PROVE  failedPeers'[x] \union forgetting'[x] \subseteq Nodes \ {x}
      <4>1. forgetting'[x] = IF x = n THEN forgetting[n] \union {m} ELSE forgetting[x]
        BY <2>2, <3>1
      <4>2. failedPeers[x] \union forgetting[x] \subseteq Nodes \ {x}
        BY <1>2 DEF DialsTypeOK
      <4>3. failedPeers'[x] = failedPeers[x]
        OBVIOUS
      <4> QED
        BY <1>1, <4>1, <4>2, <4>3
    <3> QED
      BY <3>1, <3>2
  <2> QED
    BY <1>3, <2>1, <2>2
<1>5. CASE UNCHANGED dialing
  <2>1. \A p \in Pairs : /\ dialing'[p[1]][p[2]] \in Nat
                         /\ dialing'[p[1]][p[2]] <= dialing[p[1]][p[2]]
    BY <1>5, DialingType
  <2>2. BackoffsBounded'
    BY <2>1, BoundKept
  <2> QED
    BY <1>2, <1>4, <1>5, <2>2 DEF DialsTypeOK
<1>6. CASE ~UNCHANGED dialing
  <2>1. conns[c].dialer = n /\ conns[c].via = "backoff"
    BY <1>6 DEF DialReturns
  <2>2. PICK retry \in {0, 1} : dialing' = [dialing EXCEPT ![n][m] = @ + retry]
    BY <1>6 DEF DialReturns, m
  <2>3. conns[c].acceptor = m
    BY <1>1, <2>1, UsedFields, ConnectionFields DEF Ends
  <2>4. c \in Backoffs(n, m)
    BY <2>1, <2>3 DEF Backoffs, Underway
  <2>5. ASSUME NEW p \in Pairs
        PROVE  /\ dialing'[p[1]][p[2]] \in Nat
               /\ dialing'[p[1]][p[2]] + Cardinality(Backoffs(p[1], p[2])') <= MaxBackoffs
    <3> DEFINE B == Backoffs(p[1], p[2])
               old == dialing[p[1]][p[2]]
               new == dialing'[p[1]][p[2]]
    <3>1. p[1] \in Nodes /\ p[2] \in Nodes \ {p[1]} /\ old \in Nat
      BY PairOfNodes, DialingType
    <3>2. old + Cardinality(B) <= MaxBackoffs
      BY DEF BackoffsBounded
    <3>3. B' \in SUBSET B /\ IsFiniteSet(B) /\ Cardinality(B) \in Nat /\ Cardinality(B') \in Nat
      BY <3>1, BackoffsShrink, BackoffsFinite, BackoffsFiniteNext
    <3>4. CASE p[1] = n /\ p[2] = m
      <4>1. new = old + retry
        BY <1>1, <1>2, <2>2, <3>4 DEF DialsTypeOK
      <4>2. c \in B /\ c \notin B'
        BY <1>1, <2>4, <3>4, BackoffsShrink
      <4>3. B' \in SUBSET (B \ {c}) /\ IsFiniteSet(B \ {c}) /\ Cardinality(B \ {c}) = Cardinality(B) - 1
        BY <3>3, <4>2, FS_RemoveElement
      <4>4. Cardinality(B') <= Cardinality(B) - 1
        BY <4>3, FS_Subset
      <4> HIDE DEF B, old, new
      <4>5. new \in Nat /\ new + Cardinality(B') <= MaxBackoffs
        BY <2>2, <3>1, <3>2, <3>3, <4>1, <4>4, BoundAssumption
      <4> QED
        BY <4>5 DEF B, new
    <3>5. CASE ~(p[1] = n /\ p[2] = m)
      <4>1. new = old
        BY <1>1, <1>2, <2>2, <3>1, <3>5 DEF DialsTypeOK
      <4>2. Cardinality(B') <= Cardinality(B)
        BY <3>3, FS_Subset
      <4> HIDE DEF B, old, new
      <4>3. new \in Nat /\ new + Cardinality(B') <= MaxBackoffs
        BY <3>1, <3>2, <3>3, <4>1, <4>2, BoundAssumption
      <4> QED
        BY <4>3 DEF B, new
    <3> QED
      BY <3>4, <3>5
  <2>6. BackoffsBounded'
    BY <2>5 DEF BackoffsBounded
  <2>7. ASSUME NEW x \in Nodes, NEW y \in Nodes \ {x}
        PROVE  dialing'[x][y] \in 0 .. MaxBackoffs
    <3>1. <<x, y>> \in Pairs /\ <<x, y>>[1] = x /\ <<x, y>>[2] = y
      BY DEF Pairs
    <3>2. dialing'[x][y] \in Nat /\ dialing'[x][y] + Cardinality(Backoffs(x, y)') <= MaxBackoffs
      BY <2>5, <3>1
    <3> QED
      BY <3>2, BackoffsFiniteNext, BoundAssumption
  <2>8. DOMAIN dialing' = Nodes /\ \A x \in Nodes : dialing'[x] \in [Nodes \ {x} -> 0 .. MaxBackoffs]
    <3>1. DOMAIN dialing' = Nodes
      BY <1>2, <2>2 DEF DialsTypeOK
    <3>2. ASSUME NEW x \in Nodes
          PROVE  dialing'[x] = [y \in Nodes \ {x} |-> dialing'[x][y]]
      BY <1>1, <1>2, <2>2 DEF DialsTypeOK
    <3> QED
      BY <2>7, <3>1, <3>2
  <2> QED
    BY <1>2, <1>4, <2>6, <2>8 DEF DialsTypeOK
<1> QED
  BY <1>5, <1>6

\* Everything together.
LEMMA Assemble ==
  ASSUME TypeOK, NEW f, SameConnections(f), Follows(f), Tracks(f), DialsTypeOK', BackoffsBounded',
         faults' \in 0 .. MaxFaults
  PROVE  SessionsTracked'
<1>1. /\ conns' \in [ConnIds -> Connection \union {None}]
      /\ DOMAIN peers' = Nodes
      /\ \A n \in Nodes : peers'[n] \in [Nodes \ {n} -> ConnIds \union {None}]
      /\ \A p \in Pairs : Has(p[1], p[2])' => /\ peers'[p[1]][p[2]] \in Used'
                                             /\ Ends(peers[p[1]][p[2]])' = {p[1], p[2]}
      /\ OpenUntilAdded' /\ PeersAlive' /\ NoneLeaked'
  BY TracksSessions
<1>2. TypeOK'
  BY <1>1 DEF TypeOK, DialsTypeOK
<1> QED
  BY <1>1, <1>2 DEF SessionsTracked
-----------------------------------------------------------------------------
(* The steps of one end of a connection. *)

\* The parts of the invariant.
LEMMA Parts ==
  ASSUME SessionsTracked
  PROVE  /\ TypeOK /\ OpenUntilAdded /\ BackoffsBounded /\ PeersAlive /\ NoneLeaked
         /\ SameConnections(conns) /\ DialsTypeOK /\ faults \in 0 .. MaxFaults
BY DEF SessionsTracked, TypeOK, SameConnections, DialsTypeOK

\* What the peer set of n holds for m joins the two, was added and is not stopped.
LEMMA HeldPeer ==
  ASSUME SessionsTracked, NEW p \in Pairs, NEW c, c = peers[p[1]][p[2]], c # None
  PROVE  /\ c \in Used /\ Ends(c) = {p[1], p[2]} /\ p[1] \in Ends(c) /\ Remote(c, p[1]) = p[2]
         /\ End(c, p[1]).stage = "done" /\ End(c, p[1]).open
         /\ End(c, p[1]).error \in {"no", "marked"}
<1>1. c \in Used /\ Ends(c) = {p[1], p[2]}
  BY Parts DEF TypeOK, Has
<1>2. Remote(c, p[1]) = p[2]
  BY <1>1, Parts, UsedFields, PairOfNodes
<1> QED
  BY <1>1, <1>2, Parts DEF PeersAlive

\* The end at n of c changes as in f, and with it what n holds for the other side: k is c,
\* nothing, or what it was; if n held something else, that may be stopped.
Moves(f, c, n, k) ==
  LET m == Remote(c, n)
      old == peers[n][m]
  IN  /\ k \in {c, None, old}
      /\ peers' = [peers EXCEPT ![n][m] = k] \/ (peers' = peers /\ k = old)
      /\ \A d \in Used : \A x \in Ends(d) : ~(x = n /\ d \in {c, old}) => f[d].end[x] = End(d, x)
      /\ k # None => /\ f[k].end[n].stage = "done" /\ f[k].end[n].open
                     /\ f[k].end[n].error \in {"no", "marked"}
      /\ \A d \in {c, old} : d \in Used =>
           /\ f[d].end[n].stage = "done" /\ f[d].end[n].open /\ f[d].end[n].error = "no" => k = d
           /\ f[d].end[n].stage # "done" => f[d].end[n].open \/ f[d].end[n].error = "over"

(* Moving one end of a connection along its handshake keeps every session
   tracked. *)
LEMMA TracksEnd ==
  ASSUME SessionsTracked, NEW f, SameConnections(f), NEW c \in Used, NEW n \in Ends(c),
         NEW k, Moves(f, c, n, k)
  PROVE  Tracks(f)
<1>a. PICK old : old = peers[n][Remote(c, n)]
  OBVIOUS
<1>b. /\ k \in {c, None, old}
      /\ \/ peers' = [peers EXCEPT ![n][Remote(c, n)] = k]
         \/ peers' = peers /\ k = old
      /\ \A d \in Used : \A x \in Ends(d) : ~(x = n /\ d \in {c, old}) => f[d].end[x] = End(d, x)
      /\ k # None => /\ f[k].end[n].stage = "done" /\ f[k].end[n].open
                     /\ f[k].end[n].error \in {"no", "marked"}
      /\ \A d \in {c, old} : d \in Used =>
           /\ f[d].end[n].stage = "done" /\ f[d].end[n].open /\ f[d].end[n].error = "no" => k = d
           /\ f[d].end[n].stage # "done" => f[d].end[n].open \/ f[d].end[n].error = "over"
  BY <1>a DEF Moves
<1> USE <1>a, <1>b
<1> DEFINE m == Remote(c, n)
<1>1. /\ n \in Nodes /\ m \in Nodes \ {n} /\ Ends(c) = {n, m} /\ c \in ConnIds
      /\ <<n, m>> \in Pairs /\ <<n, m>>[1] = n /\ <<n, m>>[2] = m
  BY Parts, UsedFields DEF Pairs
<1>2. DOMAIN peers = Nodes /\ \A x \in Nodes : peers[x] \in [Nodes \ {x} -> ConnIds \union {None}]
  BY Parts DEF TypeOK
<1> HIDE DEF m
<1>4. old \in ConnIds \union {None} /\ k \in ConnIds \union {None} /\ old = peers[n][m]
  <2>1. old = peers[n][m]
    BY DEF m
  <2>2. peers[n] \in [Nodes \ {n} -> ConnIds \union {None}] /\ m \in Nodes \ {n}
    BY <1>1, <1>2
  <2>3. peers[n][m] \in ConnIds \union {None}
    BY <2>2
  <2> QED
    BY <1>1, <2>1, <2>3
<1>3. /\ DOMAIN peers' = Nodes
      /\ \A x \in Nodes : peers'[x] \in [Nodes \ {x} -> ConnIds \union {None}]
      /\ \A x \in Nodes : \A y \in Nodes \ {x} :
           peers'[x][y] = IF x = n /\ y = m THEN k ELSE peers[x][y]
  <2>1. CASE peers' = peers /\ k = old
    BY <1>2, <1>4, <2>1
  <2>2. CASE peers' = [peers EXCEPT ![n][m] = k]
    <3> DEFINE h == [peers[n] EXCEPT ![m] = k]
    <3>1. peers' = [peers EXCEPT ![n] = h]
      BY <2>2
    <3>2. /\ h \in [Nodes \ {n} -> ConnIds \union {None}]
          /\ \A y \in Nodes \ {n} : h[y] = IF y = m THEN k ELSE peers[n][y]
      BY <1>1, <1>2, <1>4
    <3> HIDE DEF h
    <3>3. DOMAIN peers' = Nodes /\ \A x \in Nodes : peers'[x] = IF x = n THEN h ELSE peers[x]
      BY <1>1, <1>2, <3>1
    <3> QED
      BY <1>2, <3>2, <3>3
  <2> QED
    BY <2>1, <2>2 DEF m
<1>6. old # None => /\ old \in Used /\ Ends(old) = {n, m} /\ Remote(old, n) = m
                    /\ End(old, n).stage = "done"
  BY <1>1, <1>4, HeldPeer
<1>7. None \notin Used
  BY NameAssumption DEF Used
<1>8. ASSUME NEW p \in Pairs, NEW d, d = peers'[p[1]][p[2]], d # None
      PROVE  /\ d \in Used /\ Ends(d) = {p[1], p[2]}
             /\ f[d].end[p[1]].stage = "done" /\ f[d].end[p[1]].open
             /\ f[d].end[p[1]].error \in {"no", "marked"}
  <2>1. CASE p[1] = n /\ p[2] = m
    <3>1. d = k
      BY <1>3, <1>8, <2>1, PairOfNodes
    <3> QED
      BY <1>1, <1>6, <1>8, <2>1, <3>1
  <2>2. CASE ~(p[1] = n /\ p[2] = m)
    <3>1. d = peers[p[1]][p[2]]
      BY <1>3, <1>8, <2>2, PairOfNodes
    <3>2. /\ d \in Used /\ Ends(d) = {p[1], p[2]} /\ p[1] \in Ends(d) /\ Remote(d, p[1]) = p[2]
          /\ End(d, p[1]).stage = "done" /\ End(d, p[1]).open
          /\ End(d, p[1]).error \in {"no", "marked"}
      BY <1>8, <3>1, HeldPeer
    <3>3. p[1] = n => d # c /\ d # old
      BY <1>6, <1>8, <2>2, <3>2 DEF m
    <3> QED
      BY <3>2, <3>3
  <2> QED
    BY <2>1, <2>2
<1>9. ASSUME NEW d \in Used, NEW x \in Ends(d)
      PROVE  /\ f[d].end[x].stage = "done" /\ f[d].end[x].open /\ f[d].end[x].error = "no"
                  => peers'[x][Remote(d, x)] = d
             /\ f[d].end[x].stage # "done" => f[d].end[x].open \/ f[d].end[x].error = "over"
  <2>1. x \in Nodes /\ Remote(d, x) \in Nodes \ {x} /\ d # None
    BY <1>7, Parts, UsedFields
  <2>2. CASE x = n /\ d \in {c, old}
    <3>1. Remote(d, x) = m
      BY <1>6, <1>7, <2>2 DEF m
    <3>2. peers'[x][Remote(d, x)] = k
      BY <1>3, <2>1, <2>2, <3>1
    <3> QED
      BY <2>2, <3>2
  <2>3. CASE ~(x = n /\ d \in {c, old})
    <3>1. f[d].end[x] = End(d, x)
      BY <2>3
    <3>2. End(d, x).stage # "done" => End(d, x).open \/ End(d, x).error = "over"
      BY Parts DEF OpenUntilAdded
    <3>3. ASSUME End(d, x).stage = "done", End(d, x).open, End(d, x).error = "no"
          PROVE  peers'[x][Remote(d, x)] = d
      <4>1. peers[x][Remote(d, x)] = d
        BY <3>3, Parts DEF NoneLeaked
      <4>2. ~(x = n /\ Remote(d, x) = m)
        BY <1>4, <2>3, <4>1
      <4> QED
        BY <1>3, <2>1, <4>1, <4>2
    <3> QED
      BY <3>1, <3>2, <3>3
  <2> QED
    BY <2>2, <2>3
<1>10. \A p \in Pairs : peers'[p[1]][p[2]] # None =>
         /\ peers'[p[1]][p[2]] \in Used
         /\ Ends(peers'[p[1]][p[2]]) = {p[1], p[2]}
         /\ f[peers'[p[1]][p[2]]].end[p[1]].stage = "done"
         /\ f[peers'[p[1]][p[2]]].end[p[1]].open
         /\ f[peers'[p[1]][p[2]]].end[p[1]].error \in {"no", "marked"}
  BY <1>8
<1> QED
  BY <1>3, <1>9, <1>10 DEF Tracks

\* The ends that a crash leaves.
LEMMA GoneEndType == GoneEnd \in EndState
BY DEF GoneEnd, EndState

\* What n holds for the other side of c.
LEMMA HeldFor ==
  ASSUME SessionsTracked, NEW c \in Used, NEW n \in Ends(c), NEW old, old = peers[n][Remote(c, n)],
         old # None
  PROVE  /\ old \in Used /\ n \in Ends(old) /\ Remote(old, n) = Remote(c, n)
         /\ End(old, n) \in EndState /\ End(old, n).stage = "done" /\ End(old, n).open
         /\ End(old, n).error \in {"no", "marked"}
<1> DEFINE m == Remote(c, n)
<1>1. <<n, m>> \in Pairs /\ <<n, m>>[1] = n /\ <<n, m>>[2] = m
  BY Parts, UsedFields DEF Pairs
<1>2. /\ old \in Used /\ n \in Ends(old) /\ Remote(old, n) = m
      /\ End(old, n).stage = "done" /\ End(old, n).open
      /\ End(old, n).error \in {"no", "marked"}
  BY <1>1, HeldPeer
<1> QED
  BY <1>2, Parts, UsedFields

\* The count of faults.
LEMMA FaultType ==
  ASSUME faults \in 0 .. MaxFaults, Fault \/ UNCHANGED faults
  PROVE  faults' \in 0 .. MaxFaults
BY BoundAssumption DEF Fault

\* A step of the ends that leaves the goroutines that dial alone.
LEMMA QuietInv ==
  ASSUME SessionsTracked, NEW f, SameConnections(f), Follows(f), Tracks(f), StagesKept(f),
         UNCHANGED dialing, DialsTypeOK', Fault \/ UNCHANGED faults
  PROVE  SessionsTracked'
<1>1. \A p \in Pairs : /\ dialing'[p[1]][p[2]] \in Nat
                       /\ dialing'[p[1]][p[2]] <= dialing[p[1]][p[2]]
  BY Parts, DialingType
<1>2. BackoffsBounded'
  BY <1>1, Parts, BoundKept
<1>3. faults' \in 0 .. MaxFaults
  BY Parts, FaultType
<1> QED
  BY <1>2, <1>3, Parts, Assemble

\* The end at n of c becomes e, and n holds for the other side what it held.
LEMMA HoldSame ==
  ASSUME SessionsTracked, NEW f, SameConnections(f), NEW c \in Used, NEW n \in Ends(c),
         NEW e \in EndState, UNCHANGED peers,
         \A d \in Used : \A x \in Ends(d) :
            f[d].end[x] = IF d = c /\ x = n THEN e ELSE conns[d].end[x],
         peers[n][Remote(c, n)] = c => e.stage = "done" /\ e.open /\ e.error \in {"no", "marked"},
         e.stage = "done" /\ e.open /\ e.error = "no" => peers[n][Remote(c, n)] = c,
         e.stage # "done" => e.open \/ e.error = "over"
  PROVE  Tracks(f)
<1> DEFINE old == peers[n][Remote(c, n)]
<1>1. old # None => /\ old \in Used /\ n \in Ends(old)
                    /\ End(old, n).stage = "done" /\ End(old, n).open
                    /\ End(old, n).error \in {"no", "marked"}
  BY HeldFor
<1>2. \A d \in Used : \A x \in Ends(d) : f[d].end[x] = IF d = c /\ x = n THEN e ELSE End(d, x)
  BY DEF End
<1>3. f[c].end[n] = e
  BY <1>2
<1>4. None \notin Used
  BY NameAssumption DEF Used
<1>5. ASSUME old # None
      PROVE  /\ f[old].end[n].stage = "done" /\ f[old].end[n].open
             /\ f[old].end[n].error \in {"no", "marked"}
  <2>1. CASE old = c
    BY <1>3, <2>1
  <2>2. CASE old # c
    <3>1. f[old].end[n] = End(old, n)
      BY <1>1, <1>2, <1>5, <2>2
    <3> QED
      BY <1>1, <1>5, <3>1
  <2> QED
    BY <2>1, <2>2
<1>6. ASSUME NEW d \in {c, old}, d \in Used
      PROVE  /\ f[d].end[n].stage = "done" /\ f[d].end[n].open /\ f[d].end[n].error = "no" => old = d
             /\ f[d].end[n].stage # "done" => f[d].end[n].open \/ f[d].end[n].error = "over"
  BY <1>3, <1>4, <1>5, <1>6
<1>7. \A d \in Used : \A x \in Ends(d) : ~(x = n /\ d \in {c, old}) => f[d].end[x] = End(d, x)
  BY <1>2
<1>8. Moves(f, c, n, old)
  BY <1>5, <1>6, <1>7 DEF Moves
<1> QED
  BY <1>8, TracksEnd

\* A stage that was made is not unmade.
LEMMA StageMoves ==
  ASSUME TypeOK, NEW f, NEW c \in Used, NEW n \in Ends(c), NEW e \in EndState,
         \A d \in Used : \A x \in Ends(d) :
            f[d].end[x] = IF d = c /\ x = n THEN e ELSE conns[d].end[x],
         End(c, n).stage = "done" => e.stage = "done"
  PROVE  StagesKept(f)
BY DEF StagesKept, End

(* A step of the handshake (NewConnection, the encrypted handshake and
   AddPeer's checks) preserves the invariant. *)
LEMMA HandshakeInv ==
  ASSUME SessionsTracked, NEW c \in Used, NEW n \in Ends(c), Handshake(c, n)
  PROVE  SessionsTracked'
<1> DEFINE old == peers[n][Remote(c, n)]
<1>1. TypeOK /\ SameConnections(conns) /\ End(c, n) \in EndState /\ End(c, n).stage = "handshake"
  BY Parts, UsedFields DEF Handshake
<1>2. old # c
  <2>1. c # None
    BY NameAssumption DEF Used
  <2> QED
    BY <1>1, <2>1, HeldFor
<1>3. End(c, n).open \/ End(c, n).error = "over"
  BY <1>1, Parts DEF OpenUntilAdded
<1>4. CASE /\ conns' = [conns EXCEPT ![c].end[n].stage = "made"]
           /\ UNCHANGED <<dialing, forgetting, faults>>
  <2> DEFINE e == [End(c, n) EXCEPT !.stage = "made"]
             f == [conns EXCEPT ![c].end[n] = e]
  <2>1. e = [stage |-> "made", open |-> End(c, n).open, error |-> End(c, n).error]
    BY <1>1, EndFields
  <2>2. e \in EndState /\ e.stage = "made" /\ (e.open \/ e.error = "over")
    BY <1>1, <1>3, <2>1, EndFields DEF EndState
  <2>3. conns' = f
    BY <1>4 DEF End
  <2> HIDE DEF e
  <2>4. /\ SameConnections(f)
        /\ \A d \in Used : \A x \in Ends(d) :
             f[d].end[x] = IF d = c /\ x = n THEN e ELSE conns[d].end[x]
    BY <1>1, <2>2, WithEnd
  <2> HIDE DEF f
  <2>5. Follows(f)
    BY <1>1, <2>3, <2>4, PlainFollows
  <2>6. Tracks(f)
    BY <1>2, <2>2, <2>4, HoldSame DEF Handshake
  <2>7. StagesKept(f)
    BY <1>1, <2>2, <2>4, StageMoves
  <2>8. DialsTypeOK'
    BY <1>4, Parts DEF DialsTypeOK, Handshake
  <2> QED
    BY <1>4, <2>4, <2>5, <2>6, <2>7, <2>8, QuietInv
<1>5. CASE /\ Fault \/ UNCHANGED faults
           /\ conns' = Settle([conns EXCEPT ![c].end[n] = GoneEnd])
           /\ DialReturns(c, n, TRUE)
  <2> DEFINE f == [conns EXCEPT ![c].end[n] = GoneEnd]
  <2>2. GoneEnd.stage = "done" /\ ~GoneEnd.open /\ GoneEnd.error = "over"
    BY DEF GoneEnd
  <2>4. /\ SameConnections(f)
        /\ \A d \in Used : \A x \in Ends(d) :
             f[d].end[x] = IF d = c /\ x = n THEN GoneEnd ELSE conns[d].end[x]
    BY <1>1, GoneEndType, WithEnd
  <2>3. conns' = Settle(f)
    BY <1>5
  <2> HIDE DEF f
  <2>5. Follows(f)
    BY <1>1, <2>3, <2>4, SettleFollows
  <2>6. Tracks(f)
    BY <1>2, <2>2, <2>4, GoneEndType, HoldSame DEF Handshake
  <2>7. StagesKept(f)
    BY <1>1, <2>2, <2>4, GoneEndType, StageMoves
  <2>8. f[c].end[n].stage = "done"
    BY <2>2, <2>4
  <2>9. DialsTypeOK' /\ BackoffsBounded'
    BY <1>1, <1>5, <2>4, <2>5, <2>7, <2>8, Parts, DialReturnsInv DEF Handshake
  <2>10. faults' \in 0 .. MaxFaults
    BY <1>5, Parts, FaultType
  <2> QED
    BY <1>1, <2>4, <2>5, <2>6, <2>9, <2>10, Assemble
<1> QED
  BY <1>4, <1>5 DEF Handshake

(* Connection.Error, which removes the peer once, preserves the invariant. *)
LEMMA ErrorInv ==
  ASSUME SessionsTracked, NEW c \in Used, NEW n \in Ends(c), Error(c, n)
  PROVE  SessionsTracked'
<1> DEFINE old == peers[n][Remote(c, n)]
           e == [End(c, n) EXCEPT !.error = "marked"]
           f == [conns EXCEPT ![c].end[n] = e]
<1>1. TypeOK /\ SameConnections(conns) /\ End(c, n) \in EndState /\ End(c, n).error = "no"
  BY Parts, UsedFields DEF Error
<1>2. e = [stage |-> End(c, n).stage, open |-> End(c, n).open, error |-> "marked"]
  BY <1>1, EndFields
<1>3. e \in EndState /\ e.stage = End(c, n).stage /\ (e.open <=> End(c, n).open) /\ e.error = "marked"
  BY <1>1, <1>2, EndFields DEF EndState
<1>4. conns' = f
  BY DEF Error, End
<1> HIDE DEF e
<1>5. /\ SameConnections(f)
      /\ \A d \in Used : \A x \in Ends(d) :
           f[d].end[x] = IF d = c /\ x = n THEN e ELSE conns[d].end[x]
  BY <1>1, <1>3, WithEnd
<1> HIDE DEF f
<1>6. Follows(f)
  BY <1>1, <1>4, <1>5, PlainFollows
<1>7. old = c => End(c, n).stage = "done" /\ End(c, n).open
  <2>1. c # None
    BY NameAssumption DEF Used
  <2> QED
    BY <2>1, HeldFor
<1>8. e.stage # "done" => e.open \/ e.error = "over"
  BY <1>1, <1>3, Parts DEF OpenUntilAdded
<1>9. Tracks(f)
  BY <1>3, <1>5, <1>7, <1>8, HoldSame DEF Error
<1>10. StagesKept(f)
  BY <1>1, <1>3, <1>5, StageMoves
<1>11. DialsTypeOK'
  BY Parts DEF DialsTypeOK, Error
<1> QED
  BY <1>5, <1>6, <1>9, <1>10, <1>11, QuietInv DEF Error

\* OnPeerError removes the session from the peer set in the step that closes it.
LEMMA OnPeerErrorInv ==
  ASSUME SessionsTracked, NEW c \in Used, NEW n \in Ends(c), OnPeerError(c, n)
  PROVE  SessionsTracked'
<1> DEFINE m == Remote(c, n)
           old == peers[n][m]
           k == IF old = c THEN None ELSE old
           e == [End(c, n) EXCEPT !.error = "over", !.open = FALSE]
           f == [conns EXCEPT ![c].end[n] = e]
<1>1. /\ TypeOK /\ SameConnections(conns) /\ End(c, n) \in EndState
      /\ n \in Nodes /\ m \in Nodes \ {n}
  BY Parts, UsedFields
<1>2. e = [stage |-> End(c, n).stage, open |-> FALSE, error |-> "over"]
  BY <1>1, EndFields
<1>3. e \in EndState /\ e.stage = End(c, n).stage /\ ~e.open /\ e.error = "over"
  BY <1>1, <1>2, EndFields DEF EndState
<1>4. conns' = Settle(f)
  <2>1. [conns EXCEPT ![c].end[n].error = "over", ![c].end[n].open = FALSE] = f
    <3> DEFINE g == [conns EXCEPT ![c].end[n].error = "over"]
    <3>1. c \in ConnIds /\ DOMAIN conns = ConnIds /\ conns[c] \in Connection /\ DOMAIN conns[c].end = Ends(c)
      BY <1>1, UsedFields DEF SameConnections
    <3>2. conns[c] = [dialer |-> conns[c].dialer, acceptor |-> conns[c].acceptor,
                      via |-> conns[c].via, broken |-> conns[c].broken, end |-> conns[c].end]
      BY <3>1, ConnectionFields
    <3> QED
      BY <3>1, <3>2 DEF End
  <2> QED
    BY <2>1 DEF OnPeerError
<1> HIDE DEF e
<1>5. /\ SameConnections(f)
      /\ \A d \in Used : \A x \in Ends(d) :
           f[d].end[x] = IF d = c /\ x = n THEN e ELSE conns[d].end[x]
  BY <1>1, <1>3, WithEnd
<1> HIDE DEF f
<1>6. Follows(f)
  BY <1>1, <1>4, <1>5, SettleFollows
<1>7. \/ peers' = [peers EXCEPT ![n][Remote(c, n)] = k]
      \/ peers' = peers /\ k = old
  BY DEF OnPeerError, Remove
<1>8. \A d \in Used : \A x \in Ends(d) : f[d].end[x] = IF d = c /\ x = n THEN e ELSE End(d, x)
  BY <1>5 DEF End
<1>9. old # None => /\ old \in Used /\ n \in Ends(old)
                    /\ End(old, n).stage = "done" /\ End(old, n).open
                    /\ End(old, n).error \in {"no", "marked"}
  BY HeldFor
<1>10. f[c].end[n] = e
  BY <1>8
<1>11. k # None => /\ f[k].end[n].stage = "done" /\ f[k].end[n].open
                   /\ f[k].end[n].error \in {"no", "marked"}
  BY <1>8, <1>9
<1>12. ASSUME NEW d \in {c, old}, d \in Used
       PROVE  /\ f[d].end[n].stage = "done" /\ f[d].end[n].open /\ f[d].end[n].error = "no" => k = d
              /\ f[d].end[n].stage # "done" => f[d].end[n].open \/ f[d].end[n].error = "over"
  <2>1. old \in Used => old # None
    BY NameAssumption DEF Used
  <2> QED
    BY <1>3, <1>8, <1>9, <1>10, <1>12, <2>1
<1>13. /\ k \in {c, None, old}
       /\ \A d \in Used : \A x \in Ends(d) : ~(x = n /\ d \in {c, old}) => f[d].end[x] = End(d, x)
  BY <1>8
<1> HIDE DEF k
<1>14. Tracks(f)
  <2>1. Moves(f, c, n, k)
    BY <1>7, <1>11, <1>12, <1>13 DEF Moves
  <2> QED
    BY <1>5, <2>1, TracksEnd
<1>15. StagesKept(f)
  BY <1>1, <1>3, <1>5, StageMoves
<1>16. DialsTypeOK'
  <2>1. /\ DOMAIN failedPeers = Nodes /\ DOMAIN failedPeers' = Nodes
        /\ dialing' = dialing /\ forgetting' = forgetting
    BY Parts DEF DialsTypeOK, OnPeerError
  <2>2. ASSUME NEW x \in Nodes
        PROVE  failedPeers'[x] \union forgetting'[x] \subseteq Nodes \ {x}
    <3>1. failedPeers'[x] = IF x = n THEN failedPeers[n] \union {m} ELSE failedPeers[x]
      BY <2>1 DEF OnPeerError
    <3>2. failedPeers[x] \union forgetting[x] \subseteq Nodes \ {x}
      BY Parts DEF DialsTypeOK
    <3> HIDE DEF m
    <3> QED
      BY <1>1, <2>1, <3>1, <3>2
  <2> QED
    BY <2>1, <2>2, Parts DEF DialsTypeOK
<1> QED
  BY <1>5, <1>6, <1>14, <1>15, <1>16, QuietInv DEF OnPeerError

\* The ends as they are.
LEMMA TracksSame ==
  ASSUME SessionsTracked, NEW f, UNCHANGED peers,
         \A d \in Used : \A x \in Ends(d) : f[d].end[x] = End(d, x)
  PROVE  Tracks(f) /\ StagesKept(f)
<1>1. ASSUME NEW p \in Pairs, NEW d, d = peers[p[1]][p[2]], d # None
      PROVE  /\ d \in Used /\ Ends(d) = {p[1], p[2]}
             /\ f[d].end[p[1]].stage = "done" /\ f[d].end[p[1]].open
             /\ f[d].end[p[1]].error \in {"no", "marked"}
  <2>1. /\ d \in Used /\ Ends(d) = {p[1], p[2]} /\ p[1] \in Ends(d)
        /\ End(d, p[1]).stage = "done" /\ End(d, p[1]).open
        /\ End(d, p[1]).error \in {"no", "marked"}
    BY <1>1, HeldPeer
  <2>2. f[d].end[p[1]] = End(d, p[1])
    BY <2>1
  <2> QED
    BY <2>1, <2>2
<1>2. \A p \in Pairs : peers'[p[1]][p[2]] # None =>
         /\ peers'[p[1]][p[2]] \in Used
         /\ Ends(peers'[p[1]][p[2]]) = {p[1], p[2]}
         /\ f[peers'[p[1]][p[2]]].end[p[1]].stage = "done"
         /\ f[peers'[p[1]][p[2]]].end[p[1]].open
         /\ f[peers'[p[1]][p[2]]].end[p[1]].error \in {"no", "marked"}
  BY <1>1
<1>3. DOMAIN peers' = Nodes /\ \A n \in Nodes : peers'[n] \in [Nodes \ {n} -> ConnIds \union {None}]
  BY Parts DEF TypeOK
<1>4. \A c \in Used : \A n \in Ends(c) :
        /\ f[c].end[n].stage = "done" /\ f[c].end[n].open /\ f[c].end[n].error = "no"
             => peers'[n][Remote(c, n)] = c
        /\ f[c].end[n].stage # "done" => f[c].end[n].open \/ f[c].end[n].error = "over"
  BY Parts DEF NoneLeaked, OpenUntilAdded
<1> QED
  BY <1>2, <1>3, <1>4 DEF Tracks, StagesKept

\* A connection over a link in another state.
LEMMA RecordBroken ==
  ASSUME NEW y \in Connection, NEW b \in BOOLEAN
  PROVE  LET z == [y EXCEPT !.broken = b]
         IN  /\ z \in Connection /\ z # None
             /\ z.dialer = y.dialer /\ z.acceptor = y.acceptor /\ z.via = y.via /\ z.end = y.end
<1> DEFINE z == [y EXCEPT !.broken = b]
<1>2. /\ y.dialer \in Nodes /\ y.acceptor \in Nodes /\ y.dialer # y.acceptor
      /\ y.via \in {"backoff", "failed", "probe", None}
      /\ y.end \in [{y.dialer, y.acceptor} -> EndState]
      /\ y = [dialer |-> y.dialer, acceptor |-> y.acceptor, via |-> y.via,
              broken |-> y.broken, end |-> y.end]
  BY ConnectionFields
<1>4. z = [dialer |-> y.dialer, acceptor |-> y.acceptor, via |-> y.via, broken |-> b, end |-> y.end]
  BY <1>2
<1> HIDE DEF z
<1>3. [dialer |-> y.dialer, acceptor |-> y.acceptor, via |-> y.via, broken |-> b, end |-> y.end]
        \in Connection
  <2> DEFINE n == y.dialer
             m == y.acceptor
             v == y.via
             t == y.end
  <2>1. n \in Nodes /\ m \in Nodes /\ n # m /\ t \in [{n, m} -> EndState]
        /\ v \in {"backoff", "failed", "probe", None}
    BY <1>2
  <2> HIDE DEF n, m, v, t
  <2>2. [dialer |-> n, acceptor |-> m, via |-> v, broken |-> b, end |-> t] \in Connection
    BY <2>1, IsConnection
  <2> QED
    BY <2>2 DEF n, m, v, t
<1>5. z \in Connection /\ z # None
  BY <1>3, <1>4, NameAssumption
<1>6. z.dialer = y.dialer /\ z.acceptor = y.acceptor /\ z.via = y.via /\ z.end = y.end
  BY <1>4
<1> QED
  BY <1>5, <1>6 DEF z

(* A link that breaks under both ends preserves the invariant. *)
LEMMA BreakLinkInv ==
  ASSUME SessionsTracked, NEW c \in Used, BreakLink(c)
  PROVE  SessionsTracked'
<1> DEFINE y == conns[c]
           z == [y EXCEPT !.broken = TRUE]
<1>1. TypeOK /\ c \in ConnIds /\ y \in Connection /\ DOMAIN conns = ConnIds
  BY Parts, UsedFields DEF SameConnections
<1>3. conns' = [conns EXCEPT ![c] = z]
  BY DEF BreakLink
<1> HIDE DEF y
<1>5. z \in Connection /\ z # None
  BY <1>1, RecordBroken
<1>6. z.dialer = y.dialer /\ z.acceptor = y.acceptor /\ z.via = y.via /\ z.end = y.end
  BY <1>1, RecordBroken
<1> HIDE DEF z
<1>7. SameConnections(conns')
  BY <1>1, <1>3, <1>5, <1>6, Parts DEF SameConnections, Used, y
<1>8. \A d \in Used : \A x \in Ends(d) : conns'[d].end[x] = End(d, x)
  BY <1>1, <1>3, <1>6 DEF End, Used, y
<1>9. Tracks(conns') /\ StagesKept(conns')
  BY <1>8, TracksSame DEF BreakLink
<1>10. Follows(conns')
  BY <1>1, <1>7, PlainFollows
<1>11. DialsTypeOK'
  BY Parts DEF DialsTypeOK, BreakLink
<1> QED
  BY <1>7, <1>9, <1>10, <1>11, QuietInv DEF BreakLink

\* An end that is stopped.
LEMMA StoppedFields ==
  ASSUME NEW e0 \in EndState, NEW e \in Stopped(e0)
  PROVE  e \in EndState /\ e.stage = e0.stage /\ ~e.open
<1> DEFINE r == IF e0.error = "no" THEN "over" ELSE e0.error
<1>1. e0.stage \in {"handshake", "made", "done"} /\ e0.error \in {"no", "marked", "over"}
  BY DEF EndState
<1>2. r \in {"no", "marked", "over"}
  BY <1>1
<1>3. e = [e0 EXCEPT !.open = FALSE] \/ e = [e0 EXCEPT !.open = FALSE, !.error = r]
  BY DEF Stopped
<1> HIDE DEF r
<1>4. \/ e = [stage |-> e0.stage, open |-> FALSE, error |-> e0.error]
      \/ e = [stage |-> e0.stage, open |-> FALSE, error |-> r]
  BY <1>2, <1>3, EndFields
<1>5. CASE e = [stage |-> e0.stage, open |-> FALSE, error |-> e0.error]
  BY <1>1, <1>5 DEF EndState
<1>6. CASE e = [stage |-> e0.stage, open |-> FALSE, error |-> r]
  BY <1>1, <1>2, <1>6 DEF EndState
<1> QED
  BY <1>4, <1>5, <1>6

\* AddPeer returns at one end of c: its stage is done, and so is the dial.
LEMMA AddedInv ==
  ASSUME SessionsTracked, NEW f, SameConnections(f), conns' = Settle(f), Tracks(f), StagesKept(f),
         NEW c \in Used, NEW n \in Ends(c), End(c, n).stage = "made",
         f[c].end[n].stage = "done", NEW err \in BOOLEAN, DialReturns(c, n, err),
         UNCHANGED <<failedPeers, faults>>
  PROVE  SessionsTracked'
<1>1. Follows(f)
  BY Parts, SettleFollows
<1>2. DialsTypeOK' /\ BackoffsBounded'
  BY <1>1, Parts, DialReturnsInv
<1>3. faults' \in 0 .. MaxFaults
  BY Parts
<1> QED
  BY <1>1, <1>2, <1>3, Parts, Assemble

\* n holds c from now on; what it held is stopped.
Holds(f, c, n) ==
  LET old == peers[n][Remote(c, n)]
  IN  /\ peers' = [peers EXCEPT ![n][Remote(c, n)] = c]
      /\ \A d \in Used : \A x \in Ends(d) : ~(x = n /\ d \in {c, old}) => f[d].end[x] = End(d, x)
      /\ f[c].end[n].stage = "done" /\ f[c].end[n].open /\ f[c].end[n].error = "no"
      /\ old # None => f[old].end[n].stage = "done" /\ ~f[old].end[n].open

(* PeerSet.Add, which puts a connection in the place of the one it
   replaces, keeps every session tracked. *)
LEMMA HoldNew ==
  ASSUME SessionsTracked, NEW f, SameConnections(f), NEW c \in Used, NEW n \in Ends(c),
         Holds(f, c, n)
  PROVE  Tracks(f)
<1> DEFINE old == peers[n][Remote(c, n)]
<1>1. \A d \in {c, old} : d \in Used =>
        /\ f[d].end[n].stage = "done" /\ f[d].end[n].open /\ f[d].end[n].error = "no" => c = d
        /\ f[d].end[n].stage # "done" => f[d].end[n].open \/ f[d].end[n].error = "over"
  <2>1. None \notin Used
    BY NameAssumption DEF Used
  <2> QED
    BY <2>1 DEF Holds
<1>2. Moves(f, c, n, c)
  BY <1>1 DEF Moves, Holds
<1> QED
  BY <1>2, TracksEnd

\* AddPeer keeps, replaces or refuses a session and leaves no other one behind.
LEMMA AddPeerInv ==
  ASSUME SessionsTracked, NEW c \in Used, NEW n \in Ends(c), AddPeer(c, n)
  PROVE  SessionsTracked'
<1> DEFINE m == Remote(c, n)
           old == peers[n][m]
           e0 == [End(c, n) EXCEPT !.stage = "done"]
           added == [conns EXCEPT ![c].end[n] = e0]
<1>1. TypeOK /\ SameConnections(conns) /\ End(c, n) \in EndState /\ End(c, n).stage = "made"
  BY Parts, UsedFields DEF AddPeer
<1>2. c # None
  BY NameAssumption DEF Used
<1>3. old # None => /\ old \in Used /\ n \in Ends(old)
                    /\ End(old, n) \in EndState /\ End(old, n).stage = "done" /\ End(old, n).open
                    /\ End(old, n).error \in {"no", "marked"}
  BY HeldFor
<1>4. old # c
  BY <1>1, <1>2, <1>3
<1>5. End(c, n).open \/ End(c, n).error = "over"
  BY <1>1, Parts DEF OpenUntilAdded
<1>6. e0 = [stage |-> "done", open |-> End(c, n).open, error |-> End(c, n).error]
  BY <1>1, EndFields
<1>7. /\ e0 \in EndState /\ e0.stage = "done" /\ (e0.open <=> End(c, n).open)
      /\ e0.error = End(c, n).error
  BY <1>1, <1>6, EndFields DEF EndState
<1>8. [conns EXCEPT ![c].end[n].stage = "done"] = added
  BY DEF End
<1> HIDE DEF e0
<1>9. /\ SameConnections(added)
      /\ \A d \in Used : \A x \in Ends(d) :
           added[d].end[x] = IF d = c /\ x = n THEN e0 ELSE conns[d].end[x]
  BY <1>1, <1>7, WithEnd
<1>10. added[c].end[n] = e0
  BY <1>9
<1>11. UNCHANGED <<failedPeers, faults>>
  BY DEF AddPeer
<1> HIDE DEF added
\* A session that is not kept.
<1>12. ASSUME conns' \in StopEnd(added, c, n), NEW err \in BOOLEAN, DialReturns(c, n, err),
              UNCHANGED peers
       PROVE  SessionsTracked'
  <2>1. PICK e \in Stopped(e0) : conns' = Settle([added EXCEPT ![c].end[n] = e])
    BY <1>10, <1>12 DEF StopEnd
  <2> DEFINE f == [added EXCEPT ![c].end[n] = e]
  <2>2. e \in EndState /\ e.stage = "done" /\ ~e.open
    BY <1>7, StoppedFields
  <2>3. /\ SameConnections(f)
        /\ \A d \in Used : \A x \in Ends(d) :
             f[d].end[x] = IF d = c /\ x = n THEN e ELSE added[d].end[x]
    BY <1>1, <1>9, <2>2, WithEnd
  <2>4. conns' = Settle(f)
    BY <2>1
  <2> HIDE DEF f
  <2>5. \A d \in Used : \A x \in Ends(d) :
          f[d].end[x] = IF d = c /\ x = n THEN e ELSE conns[d].end[x]
    BY <1>9, <2>3
  <2>6. Tracks(f)
    BY <1>4, <1>12, <2>2, <2>3, <2>5, HoldSame
  <2>7. StagesKept(f)
    BY <1>1, <2>2, <2>5, StageMoves
  <2>8. f[c].end[n].stage = "done"
    BY <2>2, <2>5
  <2> QED
    BY <1>1, <1>11, <1>12, <2>3, <2>4, <2>6, <2>7, <2>8, AddedInv
\* A session that had an error.
<1>13. ASSUME hasError(c, n), conns' = Settle(added), DialReturns(c, n, FALSE), UNCHANGED peers
       PROVE  SessionsTracked'
  <2>1. e0.error # "no"
    BY <1>7, <1>13 DEF hasError
  <2>2. Tracks(added)
    BY <1>4, <1>7, <1>9, <1>13, <2>1, HoldSame
  <2>3. StagesKept(added)
    BY <1>1, <1>7, <1>9, StageMoves
  <2> QED
    BY <1>1, <1>7, <1>9, <1>10, <1>11, <1>13, <2>2, <2>3, AddedInv
\* A session that is kept.
<1>14. ASSUME ~hasError(c, n), old = None, conns' = Settle(added), peers' = Add(n, m, c),
              DialReturns(c, n, FALSE)
       PROVE  SessionsTracked'
  <2>1. e0.error = "no" /\ e0.open
    BY <1>5, <1>7, <1>14 DEF hasError
  <2>2. \A d \in Used : \A x \in Ends(d) : ~(x = n /\ d \in {c, old}) => added[d].end[x] = End(d, x)
    BY <1>9 DEF End
  <2>3. peers' = [peers EXCEPT ![n][Remote(c, n)] = c]
    BY <1>14 DEF Add
  <2>4. Holds(added, c, n)
    BY <1>7, <1>10, <1>14, <2>1, <2>2, <2>3 DEF Holds
  <2>5. Tracks(added)
    BY <1>9, <2>4, HoldNew
  <2>6. StagesKept(added)
    BY <1>1, <1>7, <1>9, StageMoves
  <2> QED
    BY <1>1, <1>7, <1>9, <1>10, <1>11, <1>14, <2>5, <2>6, AddedInv
\* A session that replaces another one, which is stopped.
<1>15. ASSUME ~hasError(c, n), old # None, conns' \in StopEnd(added, old, n), peers' = Add(n, m, c),
              DialReturns(c, n, FALSE)
       PROVE  SessionsTracked'
  <2>1. e0.error = "no" /\ e0.open
    BY <1>5, <1>7, <1>15 DEF hasError
  <2>2. added[old].end[n] = End(old, n)
    BY <1>3, <1>4, <1>9, <1>15 DEF End
  <2>3. PICK e \in Stopped(End(old, n)) : conns' = Settle([added EXCEPT ![old].end[n] = e])
    BY <1>15, <2>2 DEF StopEnd
  <2> DEFINE f == [added EXCEPT ![old].end[n] = e]
  <2>4. e \in EndState /\ e.stage = "done" /\ ~e.open
    BY <1>3, <1>15, StoppedFields
  <2>5. /\ SameConnections(f)
        /\ \A d \in Used : \A x \in Ends(d) :
             f[d].end[x] = IF d = old /\ x = n THEN e ELSE added[d].end[x]
    <3>1. old \in Used /\ n \in Ends(old) /\ TypeOK /\ SameConnections(added)
      BY <1>1, <1>3, <1>9, <1>15
    <3> HIDE DEF old
    <3> QED
      BY <2>4, <3>1, WithEnd
  <2>6. conns' = Settle(f)
    BY <2>3
  <2> HIDE DEF f
  <2>7. \A d \in Used : \A x \in Ends(d) : ~(x = n /\ d \in {c, old}) => f[d].end[x] = End(d, x)
    BY <1>9, <2>5 DEF End
  <2>8. f[c].end[n] = e0 /\ f[old].end[n] = e
    BY <1>3, <1>4, <1>10, <1>15, <2>5
  <2>9. peers' = [peers EXCEPT ![n][Remote(c, n)] = c]
    BY <1>15 DEF Add
  <2>10. Tracks(f)
    <3>1. Holds(f, c, n)
      BY <1>7, <2>1, <2>4, <2>7, <2>8, <2>9 DEF Holds
    <3> QED
      BY <2>5, <3>1, HoldNew
  <2>11. StagesKept(f)
    BY <1>7, <2>4, <2>7, <2>8 DEF StagesKept
  <2> QED
    BY <1>1, <1>7, <1>11, <1>15, <2>5, <2>6, <2>8, <2>10, <2>11, AddedInv
<1> QED
  BY <1>8, <1>12, <1>13, <1>14, <1>15 DEF AddPeer

-----------------------------------------------------------------------------
(* Dialing. *)

\* The bound and the types of a new table of waiting goroutines.
LEMMA DialsFromBound ==
  ASSUME DOMAIN dialing' = Nodes,
         \A x \in Nodes : dialing'[x] = [y \in Nodes \ {x} |-> dialing'[x][y]],
         \A p \in Pairs : /\ dialing'[p[1]][p[2]] \in Nat
                          /\ dialing'[p[1]][p[2]] + Cardinality(Backoffs(p[1], p[2])') <= MaxBackoffs
  PROVE  BackoffsBounded' /\ \A x \in Nodes : dialing'[x] \in [Nodes \ {x} -> 0 .. MaxBackoffs]
<1>1. ASSUME NEW x \in Nodes, NEW y \in Nodes \ {x}
      PROVE  dialing'[x][y] \in 0 .. MaxBackoffs
  <2>1. <<x, y>> \in Pairs /\ <<x, y>>[1] = x /\ <<x, y>>[2] = y
    BY DEF Pairs
  <2>2. dialing'[x][y] \in Nat /\ dialing'[x][y] + Cardinality(Backoffs(x, y)') <= MaxBackoffs
    BY <2>1
  <2> QED
    BY <2>2, BackoffsFiniteNext, BoundAssumption
<1>2. \A x \in Nodes : dialing'[x] \in [Nodes \ {x} -> 0 .. MaxBackoffs]
  BY <1>1
<1> QED
  BY <1>2 DEF BackoffsBounded

\* A step that leaves the connections and the peer sets alone.
LEMMA StillInv ==
  ASSUME SessionsTracked, UNCHANGED <<conns, peers, faults>>, DialsTypeOK', BackoffsBounded'
  PROVE  SessionsTracked'
<1>1. TypeOK'
  BY DEF SessionsTracked, TypeOK, DialsTypeOK, Has, Used, Ends
<1>2. OpenUntilAdded'
  BY DEF SessionsTracked, OpenUntilAdded, Used, Ends, End
<1>3. PeersAlive'
  BY DEF SessionsTracked, PeersAlive, End
<1>4. NoneLeaked'
  <2>1. Used' = Used /\ \A c : Ends(c)' = Ends(c)
    BY DEF Used, Ends
  <2>2. \A c, n : End(c, n)' = End(c, n) /\ Remote(c, n)' = Remote(c, n)
    BY <2>1 DEF End, Remote
  <2> QED
    BY <2>1, <2>2 DEF SessionsTracked, NoneLeaked
<1> QED
  BY <1>1, <1>2, <1>3, <1>4 DEF SessionsTracked

(* A step that changes no connection changes no back-off. *)
LEMMA SameBackoffs ==
  ASSUME UNCHANGED conns, NEW n, NEW m
  PROVE  Backoffs(n, m)' = Backoffs(n, m)
BY DEF Backoffs, Underway, Used, End

\* A failed peer is forgotten.
LEMMA ForgetFailedInv ==
  ASSUME SessionsTracked, NEW n \in Nodes, NEW m \in Nodes \ {n}, ForgetFailed(n, m)
  PROVE  SessionsTracked'
<1>1. /\ DOMAIN failedPeers = Nodes /\ DOMAIN forgetting = Nodes /\ dialing' = dialing
      /\ DOMAIN failedPeers' = Nodes /\ DOMAIN forgetting' = Nodes
  BY Parts DEF DialsTypeOK, ForgetFailed
<1>2. ASSUME NEW x \in Nodes
      PROVE  failedPeers'[x] \union forgetting'[x] \subseteq Nodes \ {x}
  <2>1. /\ failedPeers'[x] = IF x = n THEN failedPeers[n] \ {m} ELSE failedPeers[x]
        /\ forgetting'[x] = IF x = n THEN forgetting[n] \ {m} ELSE forgetting[x]
    BY <1>1 DEF ForgetFailed
  <2>2. failedPeers[x] \union forgetting[x] \subseteq Nodes \ {x}
    BY Parts DEF DialsTypeOK
  <2> QED
    BY <2>1, <2>2
<1>3. DialsTypeOK'
  BY <1>1, <1>2, Parts DEF DialsTypeOK
<1>4. BackoffsBounded'
  BY <1>1, Parts, SameBackoffs DEF BackoffsBounded, ForgetFailed
<1> QED
  BY <1>3, <1>4, StillInv DEF ForgetFailed

\* The controller's list starts a goroutine only below the bound.
LEMMA UpdateMustConnectsInv ==
  ASSUME SessionsTracked, NEW n \in Nodes, UpdateMustConnects(n)
  PROVE  SessionsTracked'
<1> DEFINE toDial == {m \in Nodes \ {n} : /\ ~Has(n, m)
                                          /\ dialing[n][m] + Cardinality(Backoffs(n, m)) < MaxBackoffs}
           h == [m \in DOMAIN dialing[n] |-> dialing[n][m] + IF m \in toDial THEN 1 ELSE 0]
<1>1. dialing' = [dialing EXCEPT ![n] = h]
  BY DEF UpdateMustConnects
<1>2. DOMAIN dialing = Nodes /\ \A x \in Nodes : dialing[x] \in [Nodes \ {x} -> 0 .. MaxBackoffs]
  BY Parts DEF DialsTypeOK
<1>3. h = [m \in Nodes \ {n} |-> dialing[n][m] + IF m \in toDial THEN 1 ELSE 0]
  BY <1>2
<1> HIDE DEF h
<1>4. DOMAIN dialing' = Nodes /\ \A x \in Nodes : dialing'[x] = IF x = n THEN h ELSE dialing[x]
  BY <1>1, <1>2
<1>5. \A x \in Nodes : dialing'[x] = [y \in Nodes \ {x} |-> dialing'[x][y]]
  BY <1>2, <1>3, <1>4
<1>6. ASSUME NEW p \in Pairs
      PROVE  /\ dialing'[p[1]][p[2]] \in Nat
             /\ dialing'[p[1]][p[2]] + Cardinality(Backoffs(p[1], p[2])') <= MaxBackoffs
  <2> DEFINE B == Cardinality(Backoffs(p[1], p[2]))
             old == dialing[p[1]][p[2]]
             new == dialing'[p[1]][p[2]]
  <2>1. p[1] \in Nodes /\ p[2] \in Nodes \ {p[1]} /\ old \in Nat /\ B \in Nat
    BY PairOfNodes, Parts, DialingType, BackoffsFinite
  <2>2. old + B <= MaxBackoffs
    BY Parts DEF BackoffsBounded
  <2>3. Cardinality(Backoffs(p[1], p[2])') = B
    BY SameBackoffs DEF UpdateMustConnects
  <2>4. new = old \/ (new = old + 1 /\ old + B < MaxBackoffs)
    <3>1. CASE p[1] = n
      <4>1. new = old + IF p[2] \in toDial THEN 1 ELSE 0
        BY <1>3, <1>4, <2>1, <3>1
      <4>2. p[2] \in toDial => old + B < MaxBackoffs
        BY <3>1
      <4> HIDE DEF toDial, old, new, B
      <4> QED
        BY <2>1, <4>1, <4>2
    <3>2. CASE p[1] # n
      BY <1>4, <2>1, <3>2
    <3> QED
      BY <3>1, <3>2
  <2> HIDE DEF B, old, new
  <2>5. new \in Nat /\ new + B <= MaxBackoffs
    BY <2>1, <2>2, <2>4, BoundAssumption
  <2> QED
    BY <2>3, <2>5 DEF new
<1>7. BackoffsBounded' /\ \A x \in Nodes : dialing'[x] \in [Nodes \ {x} -> 0 .. MaxBackoffs]
  BY <1>4, <1>5, <1>6, DialsFromBound
<1>8. DialsTypeOK'
  BY <1>4, <1>7, Parts DEF DialsTypeOK, UpdateMustConnects
<1> QED
  BY <1>7, <1>8, StillInv DEF UpdateMustConnects

\* A dial takes a free name; its two ends begin their handshakes.
LEMMA DialStep ==
  ASSUME SessionsTracked, NEW n \in Nodes, NEW m \in Nodes \ {n},
         NEW via \in {"backoff", "failed", "probe"}, Dial(n, m, via), UNCHANGED peers
  PROVE  /\ \E c \in ConnIds \ Used : \A x, y :
              Backoffs(x, y)' = IF via = "backoff" /\ x = n /\ y = m
                                THEN Backoffs(x, y) \union {c} ELSE Backoffs(x, y)
         /\ DialsTypeOK' => TypeOK'
         /\ OpenUntilAdded' /\ PeersAlive' /\ NoneLeaked'
<1> DEFINE ends == [x \in {n, m} |-> NewEnd]
           z == [dialer |-> n, acceptor |-> m, via |-> via, broken |-> FALSE, end |-> ends]
<1>0. Min(ConnIds \ Used) \in ConnIds \ Used
  <2>1. ConnIds \ Used # {} /\ ConnIds \ Used \subseteq Nat
    BY NameAssumption DEF Dial, Used
  <2> QED
    BY <2>1, MinOfNames
<1>1. PICK c \in ConnIds : c \notin Used /\ c = Min(ConnIds \ Used)
  BY <1>0
<1>2. conns' = [conns EXCEPT ![c] = z]
  BY <1>1 DEF Dial
<1>3. conns \in [ConnIds -> Connection \union {None}] /\ TypeOK
  BY Parts DEF TypeOK
<1>4. NewEnd \in EndState /\ NewEnd.stage = "handshake" /\ NewEnd.open
  BY DEF NewEnd, EndState
<1>5. ends \in [{n, m} -> EndState] /\ ends[n] = NewEnd /\ ends[m] = NewEnd
  BY <1>4
<1> HIDE DEF ends
<1>6. z.dialer = n /\ z.acceptor = m /\ z.via = via /\ z.end = ends
  OBVIOUS
<1>7. z \in Connection
  <2> DEFINE b == FALSE
  <2>1. b \in BOOLEAN
    OBVIOUS
  <2>2. z = [dialer |-> n, acceptor |-> m, via |-> via, broken |-> b, end |-> ends]
    OBVIOUS
  <2> HIDE DEF b
  <2>3. [dialer |-> n, acceptor |-> m, via |-> via, broken |-> b, end |-> ends] \in Connection
    BY <1>5, <2>1, IsConnection
  <2> QED
    BY <2>2, <2>3
<1> HIDE DEF z
<1>8. z # None
  BY <1>7, NameAssumption
<1>9. conns' \in [ConnIds -> Connection \union {None}]
      /\ \A d \in ConnIds : conns'[d] = IF d = c THEN z ELSE conns[d]
  BY <1>1, <1>2, <1>3, <1>7
<1>10. Used' = Used \union {c}
  BY <1>1, <1>8, <1>9 DEF Used
<1>11. \A d \in Used : d \in ConnIds /\ d # c /\ conns'[d] = conns[d]
  BY <1>1, <1>9 DEF Used
<1>12. ASSUME NEW d \in Used
       PROVE  Ends(d)' = Ends(d) /\ \A x : End(d, x)' = End(d, x) /\ Remote(d, x)' = Remote(d, x)
  <2>1. Ends(d)' = Ends(d)
    BY <1>11 DEF Ends
  <2> QED
    BY <1>11, <2>1 DEF End, Remote
<1>13. Ends(c)' = {n, m} /\ \A x \in {n, m} : End(c, x)' = NewEnd
  BY <1>1, <1>5, <1>6, <1>9 DEF Ends, End
<1>14. ASSUME NEW x, NEW y
       PROVE  Backoffs(x, y)' = IF via = "backoff" /\ x = n /\ y = m
                                THEN Backoffs(x, y) \union {c} ELSE Backoffs(x, y)
  <2>1. \A d \in Used : d \in Backoffs(x, y)' <=> d \in Backoffs(x, y)
    BY <1>10, <1>11, <1>12 DEF Backoffs, Underway
  <2>2. c \in Backoffs(x, y)' <=> via = "backoff" /\ x = n /\ y = m
    <3>1. c \in Used' /\ conns'[c].dialer = n /\ conns'[c].acceptor = m /\ conns'[c].via = via
      BY <1>1, <1>6, <1>9, <1>10
    <3>2. End(c, n)'.stage # "done"
      BY <1>4, <1>13
    <3> QED
      BY <3>1, <3>2 DEF Backoffs, Underway
  <2>3. Backoffs(x, y)' \subseteq Used \union {c} /\ Backoffs(x, y) \subseteq Used
    BY <1>10 DEF Backoffs, Underway
  <2> QED
    BY <1>1, <2>1, <2>2, <2>3
<1>15. ASSUME NEW p \in Pairs, NEW d, d = peers'[p[1]][p[2]], d # None
       PROVE  /\ d \in Used' /\ Ends(d)' = {p[1], p[2]}
              /\ End(d, p[1])'.stage = "done" /\ End(d, p[1])'.open
              /\ End(d, p[1])'.error \in {"no", "marked"}
  <2>1. /\ d \in Used /\ Ends(d) = {p[1], p[2]}
        /\ End(d, p[1]).stage = "done" /\ End(d, p[1]).open
        /\ End(d, p[1]).error \in {"no", "marked"}
    BY <1>15, HeldPeer
  <2> QED
    BY <1>10, <1>12, <2>1
<1>16. PeersAlive'
  <2> SUFFICES ASSUME NEW p \in Pairs, NEW d, d = peers'[p[1]][p[2]], d # None
               PROVE  /\ End(d, p[1])'.stage = "done" /\ End(d, p[1])'.open
                      /\ End(d, p[1])'.error \in {"no", "marked"}
    BY DEF PeersAlive, End
  <2> QED
    BY <1>15
<1>17. NoneLeaked'
  <2> SUFFICES ASSUME NEW d \in Used', NEW x \in Ends(d)', End(d, x)'.stage = "done",
                      End(d, x)'.open, End(d, x)'.error = "no"
               PROVE  peers'[x][Remote(d, x)'] = d
    BY DEF NoneLeaked
  <2>1. d \in Used
    BY <1>4, <1>10, <1>13
  <2> QED
    BY <1>12, <2>1, Parts DEF NoneLeaked
<1>18. OpenUntilAdded'
  <2> SUFFICES ASSUME NEW d \in Used', NEW x \in Ends(d)', End(d, x)'.stage # "done"
               PROVE  End(d, x)'.open \/ End(d, x)'.error = "over"
    BY DEF OpenUntilAdded
  <2>1. CASE d = c
    BY <1>4, <1>13, <2>1
  <2>2. CASE d \in Used
    BY <1>12, <2>2, Parts DEF OpenUntilAdded
  <2> QED
    BY <1>10, <2>1, <2>2
<1>19. ASSUME DialsTypeOK' PROVE TypeOK'
  <2>1. \A p \in Pairs : Has(p[1], p[2])' => /\ peers'[p[1]][p[2]] \in Used'
                                             /\ Ends(peers[p[1]][p[2]])' = {p[1], p[2]}
    BY <1>15 DEF Has, Ends
  <2>2. faults' \in 0 .. MaxFaults
    BY Parts, FaultType DEF Dial
  <2>3. DOMAIN peers' = Nodes /\ \A x \in Nodes : peers'[x] \in [Nodes \ {x} -> ConnIds \union {None}]
    BY <1>3 DEF TypeOK
  <2> QED
    BY <1>9, <1>19, <2>1, <2>2, <2>3 DEF TypeOK, DialsTypeOK
<1> QED
  BY <1>1, <1>14, <1>16, <1>17, <1>18, <1>19

\* A dial outside of DialWithBackoff.
LEMMA OtherDialInv ==
  ASSUME SessionsTracked, NEW n \in Nodes, NEW m \in Nodes \ {n},
         NEW via \in {"failed", "probe"}, Dial(n, m, via),
         UNCHANGED <<peers, failedPeers, forgetting, dialing>>
  PROVE  SessionsTracked'
<1>1. /\ \E c \in ConnIds \ Used : \A x, y :
           Backoffs(x, y)' = IF via = "backoff" /\ x = n /\ y = m
                             THEN Backoffs(x, y) \union {c} ELSE Backoffs(x, y)
      /\ DialsTypeOK' => TypeOK'
      /\ OpenUntilAdded' /\ PeersAlive' /\ NoneLeaked'
  BY DialStep
<1>2. \A x, y : Backoffs(x, y)' = Backoffs(x, y)
  BY <1>1
<1>3. DialsTypeOK'
  BY Parts DEF DialsTypeOK
<1>4. BackoffsBounded'
  BY <1>2, Parts DEF BackoffsBounded
<1> QED
  BY <1>1, <1>3, <1>4 DEF SessionsTracked

\* An attempt of DialWithBackoff: what waited dials, or has ended.
LEMMA DialWithBackoffInv ==
  ASSUME SessionsTracked, NEW n \in Nodes, NEW m \in Nodes \ {n}, DialWithBackoff(n, m)
  PROVE  SessionsTracked'
<1>1. DOMAIN dialing = Nodes /\ \A x \in Nodes : dialing[x] \in [Nodes \ {x} -> 0 .. MaxBackoffs]
  BY Parts DEF DialsTypeOK
<1> DEFINE h == [dialing[n] EXCEPT ![m] = dialing[n][m] - 1]
<1>2. dialing' = [dialing EXCEPT ![n] = h] /\ dialing[n][m] > 0
  BY DEF DialWithBackoff
<1>3. h = [y \in Nodes \ {n} |-> IF y = m THEN dialing[n][m] - 1 ELSE dialing[n][y]]
  BY <1>1
<1> HIDE DEF h
<1>4. DOMAIN dialing' = Nodes /\ \A x \in Nodes : dialing'[x] = IF x = n THEN h ELSE dialing[x]
  BY <1>1, <1>2
<1>5. \A x \in Nodes : dialing'[x] = [y \in Nodes \ {x} |-> dialing'[x][y]]
  BY <1>1, <1>3, <1>4
<1>6. ASSUME NEW p \in Pairs
      PROVE  /\ p[1] \in Nodes /\ p[2] \in Nodes \ {p[1]} /\ dialing[p[1]][p[2]] \in Nat
             /\ dialing'[p[1]][p[2]] = IF p[1] = n /\ p[2] = m THEN dialing[p[1]][p[2]] - 1
                                       ELSE dialing[p[1]][p[2]]
             /\ p[1] = n /\ p[2] = m => dialing[p[1]][p[2]] > 0
             /\ dialing[p[1]][p[2]] + Cardinality(Backoffs(p[1], p[2])) <= MaxBackoffs
  <2>1. p[1] \in Nodes /\ p[2] \in Nodes \ {p[1]} /\ dialing[p[1]][p[2]] \in Nat
    BY PairOfNodes, Parts, DialingType
  <2>2. dialing[p[1]][p[2]] + Cardinality(Backoffs(p[1], p[2])) <= MaxBackoffs
    BY Parts DEF BackoffsBounded
  <2> QED
    BY <1>2, <1>3, <1>4, <2>1, <2>2
<1>7. CASE Has(n, m)
  <2>1. conns' = conns /\ peers' = peers /\ faults' = faults
    BY <1>7 DEF DialWithBackoff
  <2>2. ASSUME NEW p \in Pairs
        PROVE  /\ dialing'[p[1]][p[2]] \in Nat
               /\ dialing'[p[1]][p[2]] + Cardinality(Backoffs(p[1], p[2])') <= MaxBackoffs
    <3> DEFINE B == Cardinality(Backoffs(p[1], p[2]))
    <3>1. Cardinality(Backoffs(p[1], p[2])') = B /\ B \in Nat
      BY <2>1, SameBackoffs, BackoffsFinite
    <3>2. dialing[p[1]][p[2]] + B <= MaxBackoffs
      BY <1>6
    <3> HIDE DEF B
    <3> QED
      BY <1>6, <3>1, <3>2, BoundAssumption
  <2>3. BackoffsBounded' /\ \A x \in Nodes : dialing'[x] \in [Nodes \ {x} -> 0 .. MaxBackoffs]
    BY <1>4, <1>5, <2>2, DialsFromBound
  <2>4. DialsTypeOK'
    BY <1>4, <2>3, Parts DEF DialsTypeOK, DialWithBackoff
  <2> QED
    BY <2>1, <2>3, <2>4, StillInv
<1>8. CASE ~Has(n, m)
  <2> DEFINE via == "backoff"
  <2>1. Dial(n, m, "backoff") /\ UNCHANGED peers
    BY <1>8 DEF DialWithBackoff
  <2>2. /\ \E c \in ConnIds \ Used : \A x, y :
             Backoffs(x, y)' = IF x = n /\ y = m THEN Backoffs(x, y) \union {c} ELSE Backoffs(x, y)
        /\ DialsTypeOK' => TypeOK'
        /\ OpenUntilAdded' /\ PeersAlive' /\ NoneLeaked'
    BY <2>1, DialStep
  <2>3. PICK c \in ConnIds \ Used : \A x, y :
          Backoffs(x, y)' = IF x = n /\ y = m THEN Backoffs(x, y) \union {c} ELSE Backoffs(x, y)
    BY <2>2
  <2>4. ASSUME NEW p \in Pairs
        PROVE  /\ dialing'[p[1]][p[2]] \in Nat
               /\ dialing'[p[1]][p[2]] + Cardinality(Backoffs(p[1], p[2])') <= MaxBackoffs
    <3> DEFINE B == Backoffs(p[1], p[2])
               old == dialing[p[1]][p[2]]
               new == dialing'[p[1]][p[2]]
    <3>1. IsFiniteSet(B) /\ Cardinality(B) \in Nat /\ c \notin B
      <4>1. c \notin B
        BY DEF Backoffs, Underway
      <4> QED
        BY <4>1, BackoffsFinite
    <3>2. old \in Nat /\ old + Cardinality(B) <= MaxBackoffs
      BY <1>6
    <3>3. CASE p[1] = n /\ p[2] = m
      <4>1. B' = B \union {c}
        BY <2>3, <3>3
      <4>2. Cardinality(B') = Cardinality(B) + 1
        BY <3>1, <4>1, FS_AddElement
      <4>3. new = old - 1 /\ old > 0
        BY <1>6, <3>3
      <4> HIDE DEF B, old, new
      <4>4. new \in Nat /\ new + Cardinality(B') <= MaxBackoffs
        BY <3>1, <3>2, <4>2, <4>3, BoundAssumption
      <4> QED
        BY <4>4 DEF B, new
    <3>4. CASE ~(p[1] = n /\ p[2] = m)
      <4>1. B' = B
        BY <2>3, <3>4
      <4>2. new = old
        BY <1>6, <3>4
      <4> HIDE DEF B, old, new
      <4>3. new \in Nat /\ new + Cardinality(B') <= MaxBackoffs
        BY <3>1, <3>2, <4>1, <4>2
      <4> QED
        BY <4>3 DEF B, new
    <3> QED
      BY <3>3, <3>4
  <2>5. BackoffsBounded' /\ \A x \in Nodes : dialing'[x] \in [Nodes \ {x} -> 0 .. MaxBackoffs]
    BY <1>4, <1>5, <2>4, DialsFromBound
  <2>6. DialsTypeOK'
    BY <1>4, <2>5, Parts DEF DialsTypeOK, DialWithBackoff
  <2> QED
    BY <2>2, <2>5, <2>6 DEF SessionsTracked
<1> QED
  BY <1>7, <1>8

\* A tick of DialFailedPeers.
LEMMA DialFailedPeersInv ==
  ASSUME SessionsTracked, NEW n \in Nodes, NEW m \in Nodes \ {n}, DialFailedPeers(n, m)
  PROVE  SessionsTracked'
<1>1. CASE Has(n, m)
  <2>1. /\ DOMAIN failedPeers = Nodes /\ DOMAIN forgetting = Nodes /\ dialing' = dialing
        /\ failedPeers' = failedPeers /\ DOMAIN forgetting' = Nodes
        /\ UNCHANGED <<conns, peers, faults>>
    BY <1>1, Parts DEF DialsTypeOK, DialFailedPeers
  <2>2. ASSUME NEW x \in Nodes
        PROVE  failedPeers'[x] \union forgetting'[x] \subseteq Nodes \ {x}
    <3>1. forgetting'[x] = IF x = n THEN forgetting[n] \union {m} ELSE forgetting[x]
      BY <1>1, <2>1 DEF DialFailedPeers
    <3>2. failedPeers[x] \union forgetting[x] \subseteq Nodes \ {x}
      BY Parts DEF DialsTypeOK
    <3> QED
      BY <2>1, <3>1, <3>2
  <2>3. DialsTypeOK'
    BY <2>1, <2>2, Parts DEF DialsTypeOK
  <2>4. BackoffsBounded'
    BY <2>1, Parts, SameBackoffs DEF BackoffsBounded
  <2> QED
    BY <2>1, <2>3, <2>4, StillInv
<1>2. CASE ~Has(n, m)
  BY <1>2, OtherDialInv DEF DialFailedPeers
<1> QED
  BY <1>1, <1>2

(* DialAndDisconnect preserves the invariant. *)
LEMMA DialAndDisconnectInv ==
  ASSUME SessionsTracked, NEW n \in Nodes, NEW m \in Nodes \ {n}, DialAndDisconnect(n, m)
  PROVE  SessionsTracked'
BY OtherDialInv DEF DialAndDisconnect

\* A crash closes every end of the node and empties its tables.
LEMMA RestartInv ==
  ASSUME SessionsTracked, NEW n \in Nodes, Restart(n)
  PROVE  SessionsTracked'
<1> DEFINE f == [c \in ConnIds |-> IF c \in Used /\ n \in Ends(c)
                                   THEN [conns[c] EXCEPT !.end[n] = GoneEnd] ELSE conns[c]]
<1>1. TypeOK /\ SameConnections(conns)
  BY Parts
<1>2. conns' = Settle(f)
  BY DEF Restart
<1>3. ASSUME NEW c \in Used
      PROVE  /\ f[c] \in Connection /\ f[c] # None /\ f[c].dialer = conns[c].dialer
             /\ f[c].acceptor = conns[c].acceptor /\ f[c].via = conns[c].via
             /\ \A x \in Ends(c) : f[c].end[x] = IF x = n THEN GoneEnd ELSE End(c, x)
  <2>1. c \in ConnIds /\ conns[c] \in Connection /\ conns[c] # None
    BY <1>1, UsedFields DEF Used
  <2>2. CASE n \in Ends(c)
    <3> DEFINE y == conns[c]
               z == [y EXCEPT !.end[n] = GoneEnd]
    <3>1. f[c] = z
      BY <2>1, <2>2
    <3>2. y \in Connection /\ n \in {y.dialer, y.acceptor} /\ Ends(c) = {y.dialer, y.acceptor}
      BY <2>1, <2>2 DEF Ends
    <3> HIDE DEF y
    <3>3. /\ z \in Connection /\ z # None
          /\ z.dialer = y.dialer /\ z.acceptor = y.acceptor /\ z.via = y.via
          /\ z.end = [y.end EXCEPT ![n] = GoneEnd] /\ DOMAIN y.end = {y.dialer, y.acceptor}
      BY <3>2, GoneEndType, RecordEnd
    <3> HIDE DEF z, f
    <3> QED
      BY <3>1, <3>2, <3>3 DEF y, End
  <2>3. CASE n \notin Ends(c)
    <3>1. f[c] = conns[c]
      BY <2>1, <2>3
    <3> HIDE DEF f
    <3> QED
      BY <2>1, <2>3, <3>1 DEF End
  <2> QED
    BY <2>2, <2>3
<1>4. \A c \in ConnIds : c \notin Used => f[c] = None
  BY DEF Used
<1>5. f = [c \in ConnIds |-> f[c]]
  OBVIOUS
<1> HIDE DEF f
<1>6. SameConnections(f)
  BY <1>3, <1>4, <1>5 DEF SameConnections, Used
<1>7. Follows(f)
  BY <1>1, <1>2, <1>6, SettleFollows
<1>8. GoneEnd.stage = "done" /\ ~GoneEnd.open /\ GoneEnd.error = "over"
  BY DEF GoneEnd
<1>9. StagesKept(f)
  BY <1>3, <1>8 DEF StagesKept
<1>10. DOMAIN peers = Nodes /\ \A x \in Nodes : peers[x] \in [Nodes \ {x} -> ConnIds \union {None}]
  BY <1>1 DEF TypeOK
<1>11. /\ DOMAIN peers' = Nodes
       /\ \A x \in Nodes : peers'[x] = IF x = n THEN [m \in Nodes \ {n} |-> None] ELSE peers[x]
  BY <1>10 DEF Restart
<1>12. \A x \in Nodes : peers'[x] \in [Nodes \ {x} -> ConnIds \union {None}]
  BY <1>10, <1>11
<1>13. ASSUME NEW p \in Pairs, NEW d, d = peers'[p[1]][p[2]], d # None
       PROVE  /\ d \in Used /\ Ends(d) = {p[1], p[2]}
              /\ f[d].end[p[1]].stage = "done" /\ f[d].end[p[1]].open
              /\ f[d].end[p[1]].error \in {"no", "marked"}
  <2>1. p[1] # n /\ d = peers[p[1]][p[2]]
    BY <1>11, <1>13, PairOfNodes
  <2>2. /\ d \in Used /\ Ends(d) = {p[1], p[2]} /\ p[1] \in Ends(d)
        /\ End(d, p[1]).stage = "done" /\ End(d, p[1]).open
        /\ End(d, p[1]).error \in {"no", "marked"}
    BY <1>13, <2>1, HeldPeer
  <2>3. f[d].end[p[1]] = End(d, p[1])
    BY <1>3, <2>1, <2>2
  <2> QED
    BY <2>2, <2>3
<1>14. ASSUME NEW c \in Used, NEW x \in Ends(c)
       PROVE  /\ f[c].end[x].stage = "done" /\ f[c].end[x].open /\ f[c].end[x].error = "no"
                   => peers'[x][Remote(c, x)] = c
              /\ f[c].end[x].stage # "done" => f[c].end[x].open \/ f[c].end[x].error = "over"
  <2>1. CASE x = n
    BY <1>3, <1>8, <2>1
  <2>2. CASE x # n
    <3>1. f[c].end[x] = End(c, x) /\ x \in Nodes
      BY <1>1, <1>3, <2>2, UsedFields
    <3>2. peers'[x] = peers[x]
      BY <1>11, <2>2, <3>1
    <3> QED
      BY <3>1, <3>2, Parts DEF NoneLeaked, OpenUntilAdded
  <2> QED
    BY <2>1, <2>2
<1>15. \A p \in Pairs : peers'[p[1]][p[2]] # None =>
         /\ peers'[p[1]][p[2]] \in Used
         /\ Ends(peers'[p[1]][p[2]]) = {p[1], p[2]}
         /\ f[peers'[p[1]][p[2]]].end[p[1]].stage = "done"
         /\ f[peers'[p[1]][p[2]]].end[p[1]].open
         /\ f[peers'[p[1]][p[2]]].end[p[1]].error \in {"no", "marked"}
  BY <1>13
<1>16. Tracks(f)
  BY <1>11, <1>12, <1>14, <1>15 DEF Tracks
<1>17. DOMAIN dialing = Nodes /\ \A x \in Nodes : dialing[x] \in [Nodes \ {x} -> 0 .. MaxBackoffs]
  BY Parts DEF DialsTypeOK
<1>18. /\ DOMAIN dialing' = Nodes
       /\ \A x \in Nodes : dialing'[x] = IF x = n THEN [m \in Nodes \ {n} |-> 0] ELSE dialing[x]
  BY <1>17 DEF Restart
<1>19. \A x \in Nodes : dialing'[x] \in [Nodes \ {x} -> 0 .. MaxBackoffs]
  <2>1. 0 \in 0 .. MaxBackoffs
    BY BoundAssumption
  <2> QED
    BY <1>17, <1>18, <2>1
<1>20. \A p \in Pairs : /\ dialing'[p[1]][p[2]] \in Nat
                        /\ dialing'[p[1]][p[2]] <= dialing[p[1]][p[2]]
  BY <1>1, <1>18, PairOfNodes, DialingType
<1>21. BackoffsBounded'
  BY <1>6, <1>7, <1>9, <1>20, Parts, BoundKept
<1>22. DialsTypeOK'
  <2>1. /\ DOMAIN failedPeers = Nodes /\ DOMAIN forgetting = Nodes
        /\ DOMAIN failedPeers' = Nodes /\ DOMAIN forgetting' = Nodes
    BY Parts DEF DialsTypeOK, Restart
  <2>2. ASSUME NEW x \in Nodes
        PROVE  failedPeers'[x] \union forgetting'[x] \subseteq Nodes \ {x}
    <3>1. /\ failedPeers'[x] = IF x = n THEN {} ELSE failedPeers[x]
          /\ forgetting'[x] = IF x = n THEN {} ELSE forgetting[x]
      BY <2>1 DEF Restart
    <3>2. failedPeers[x] \union forgetting[x] \subseteq Nodes \ {x}
      BY Parts DEF DialsTypeOK
    <3> QED
      BY <3>1, <3>2
  <2> QED
    BY <1>18, <1>19, <2>1, <2>2 DEF DialsTypeOK
<1>23. faults' \in 0 .. MaxFaults
  BY Parts, FaultType DEF Restart
<1> QED
  BY <1>1, <1>6, <1>7, <1>16, <1>21, <1>22, <1>23, Assemble

-----------------------------------------------------------------------------
(* The invariant. *)

(* The invariant holds of the nodes before they dial. *)
LEMMA InitTracked == Init => SessionsTracked
<1> SUFFICES ASSUME Init PROVE SessionsTracked
  OBVIOUS
<1>1. Used = {} /\ \A x, y : Backoffs(x, y) = {}
  BY DEF Init, Used, Backoffs, Underway
<1>2. \A p \in Pairs : peers[p[1]][p[2]] = None /\ dialing[p[1]][p[2]] = 0
  BY PairOfNodes DEF Init
<1>3. TypeOK
  <2>1. 0 \in 0 .. MaxBackoffs /\ faults \in 0 .. MaxFaults
    BY BoundAssumption DEF Init
  <2>2. conns \in [ConnIds -> Connection \union {None}]
    BY DEF Init
  <2>3. \A d \in {DOMAIN peers, DOMAIN dialing, DOMAIN failedPeers, DOMAIN forgetting} : d = Nodes
    BY DEF Init
  <2>4. \A n \in Nodes : /\ peers[n] \in [Nodes \ {n} -> ConnIds \union {None}]
                         /\ dialing[n] \in [Nodes \ {n} -> 0 .. MaxBackoffs]
    BY <2>1 DEF Init
  <2>5. \A n \in Nodes : failedPeers[n] \union forgetting[n] \subseteq Nodes \ {n}
    BY DEF Init
  <2> QED
    BY <1>2, <2>1, <2>2, <2>3, <2>4, <2>5 DEF TypeOK, Has
<1>4. BackoffsBounded
  <2>1. Cardinality({}) = 0
    BY FS_EmptySet
  <2>2. \A p \in Pairs : Cardinality(Backoffs(p[1], p[2])) = 0
    BY <1>1, <2>1
  <2>3. \A p \in Pairs : dialing[p[1]][p[2]] + Cardinality(Backoffs(p[1], p[2])) = 0
    BY <1>2, <2>2
  <2> QED
    BY <2>3, BoundAssumption DEF BackoffsBounded
<1> QED
  BY <1>1, <1>2, <1>3, <1>4 DEF SessionsTracked, OpenUntilAdded, PeersAlive, NoneLeaked

(* Every step of the peers preserves the invariant. *)
LEMMA NextTracked == SessionsTracked /\ [Next]_vars => SessionsTracked'
<1> SUFFICES ASSUME SessionsTracked, [Next]_vars PROVE SessionsTracked'
  OBVIOUS
<1>1. ASSUME NEW p \in Pairs,
             \/ DialWithBackoff(p[1], p[2]) \/ DialFailedPeers(p[1], p[2])
             \/ ForgetFailed(p[1], p[2]) \/ DialAndDisconnect(p[1], p[2])
      PROVE  SessionsTracked'
  BY <1>1, PairOfNodes, DialWithBackoffInv, DialFailedPeersInv, ForgetFailedInv, DialAndDisconnectInv
<1>2. ASSUME NEW n \in Nodes, UpdateMustConnects(n) \/ Restart(n)
      PROVE  SessionsTracked'
  BY <1>2, UpdateMustConnectsInv, RestartInv
<1>3. ASSUME NEW c \in Used, BreakLink(c)
      PROVE  SessionsTracked'
  BY <1>3, BreakLinkInv
<1>4. ASSUME NEW c \in Used, NEW n \in Ends(c), ConnStep(c, n)
      PROVE  SessionsTracked'
  BY <1>4, HandshakeInv, AddPeerInv, ErrorInv, OnPeerErrorInv DEF ConnStep
<1>5. CASE UNCHANGED vars
  <2>1. DialsTypeOK' /\ BackoffsBounded'
    BY <1>5, Parts, SameBackoffs DEF vars, DialsTypeOK, BackoffsBounded
  <2> QED
    BY <1>5, <2>1, StillInv DEF vars
<1> QED
  BY <1>1, <1>2, <1>3, <1>4, <1>5 DEF Next

\* For any nodes, connections, bounds and faults: every session is accounted for at each end,
\* whatever duplicates, errors, late callbacks and crashes came.  A peer set holds sessions
\* that AddPeer added, that are open and whose error, if any, still has its OnPeerError to
\* come; a session that is in no peer set is being added, is stopped or has failed.
THEOREM SessionsTrackedHolds == Spec => []SessionsTracked
<1>1. Init => SessionsTracked
  BY InitTracked
<1>2. SessionsTracked /\ [Next]_vars => SessionsTracked'
  BY NextTracked
<1> QED
  BY <1>1, <1>2, PTL DEF Spec
-----------------------------------------------------------------------------
(***************************************************************************)
(* Simultaneous dials.  Of two sessions between the same nodes the one     *)
(* that the lower key dialed wins at both ends, whichever end is first.    *)
(* The ends decide at different times, so the argument needs what has      *)
(* become of each session since.                                           *)
(***************************************************************************)

\* The session that both ends prefer: the lower key dialed it.
Preferred(c) == conns[c].dialer < conns[c].acceptor

\* No end of c was stopped or had an error.
Untouched(c) == \A x \in Ends(c) : End(c, x).open /\ End(c, x).error = "no"

\* c and d were dialed by the same node to the same node.
SameDial(c, d) == conns[c].dialer = conns[d].dialer /\ conns[c].acceptor = conns[d].acceptor

\* Between the ends of c there is a preferred session, and one end has added it.
Outranked(c) ==
  \E a \in Used : /\ Preferred(a) /\ Ends(a) = Ends(c)
                  /\ \E x \in Ends(a) : End(a, x).stage = "done"

\* While nothing fails: a preferred session is never stopped and has no double, and another
\* one is stopped or dialed again only when the preferred one is there.
Converging ==
  faults = 0 =>
    \A c \in Used :
      /\ ~conns[c].broken
      /\ conns[c].via = "probe" => End(c, conns[c].dialer).stage = "done"
      /\ ~Untouched(c) => ~Preferred(c) /\ Outranked(c)
      /\ \A d \in Used : d # c /\ SameDial(c, d) => ~Preferred(c) /\ Outranked(c)

\* Who dialed whom, seen from an end.
LEMMA Directions ==
  ASSUME TypeOK, NEW c \in Used, NEW n \in Ends(c)
  PROVE  /\ n \in Nat /\ Remote(c, n) \in Nat /\ n # Remote(c, n)
         /\ IsOutbound(c, n) => conns[c].dialer = n /\ conns[c].acceptor = Remote(c, n)
         /\ ~IsOutbound(c, n) => conns[c].dialer = Remote(c, n) /\ conns[c].acceptor = n
<1>1. /\ conns[c] \in Connection /\ Ends(c) \subseteq Nodes /\ Remote(c, n) \in Ends(c) \ {n}
      /\ Ends(c) = {n, Remote(c, n)}
  BY UsedFields
<1>2. conns[c].dialer # conns[c].acceptor
  BY <1>1, ConnectionFields
<1>3. n \in Nat /\ Remote(c, n) \in Nat /\ n # Remote(c, n)
  BY <1>1, NameAssumption
<1>4. {conns[c].dialer, conns[c].acceptor} = {n, Remote(c, n)}
  BY <1>1 DEF Ends
<1> QED
  BY <1>2, <1>3, <1>4 DEF IsOutbound

\* Settle breaks no link.
LEMMA SettleLinks ==
  ASSUME TypeOK, NEW f, SameConnections(f), \A c \in Used : ~f[c].broken, conns' = Settle(f)
  PROVE  \A c \in Used' : ~conns'[c].broken
<1> DEFINE over == {c \in ConnIds : f[c] # None /\ \A n \in DOMAIN f[c].end : f[c].end[n] = GoneEnd}
<1>1. conns' = [c \in ConnIds |->
                  IF f[c] = None \/ c \in over THEN None
                  ELSE IF f[c].end[f[c].dialer].stage = "done" THEN [f[c] EXCEPT !.via = None]
                  ELSE f[c]]
  BY DEF Settle
<1> HIDE DEF over
<1> SUFFICES ASSUME NEW c \in Used' PROVE ~conns'[c].broken
  OBVIOUS
<1>2. c \in ConnIds /\ conns'[c] # None
  BY DEF Used
<1>3. f[c] # None /\ (conns'[c] = f[c] \/ conns'[c] = [f[c] EXCEPT !.via = None])
  BY <1>1, <1>2
<1>4. c \in Used /\ f[c] \in Connection
  BY <1>2, <1>3 DEF SameConnections, Used
<1> DEFINE y == f[c]
<1>5. y = [dialer |-> y.dialer, acceptor |-> y.acceptor, via |-> y.via,
           broken |-> y.broken, end |-> y.end]
  BY <1>4, ConnectionFields
<1>6. ~y.broken
  BY <1>4
<1>7. conns'[c] = y \/ conns'[c] = [y EXCEPT !.via = None]
  BY <1>3
<1> HIDE DEF y
<1> QED
  BY <1>5, <1>6, <1>7

\* An end that f leaves closed or with an error belongs to a session that is outranked then.
Yields(f) ==
  \A c \in Used : \A x \in Ends(c) :
    \/ f[c].end[x].open /\ f[c].end[x].error = "no"
    \/ /\ ~Preferred(c)
       /\ \E a \in Used : /\ Preferred(a) /\ Ends(a) = Ends(c)
                          /\ \E y \in Ends(a) : f[a].end[y].stage = "done"

\* A step of ends that only stops sessions that are outranked.
LEMMA YieldsConverging ==
  ASSUME TypeOK, Converging, faults = 0, NEW f, SameConnections(f), Follows(f), StagesKept(f),
         Yields(f), \A c \in Used' : ~conns'[c].broken
  PROVE  Converging'
<1>1. ASSUME NEW c \in Used'
      PROVE  /\ c \in Used /\ Ends(c)' = Ends(c) /\ (Preferred(c)' <=> Preferred(c))
             /\ conns'[c].dialer = conns[c].dialer /\ conns'[c].acceptor = conns[c].acceptor
             /\ \A x : End(c, x)' = f[c].end[x]
             /\ conns'[c].via = conns[c].via \/ f[c].end[conns[c].dialer].stage = "done"
  <2>1. c \in ConnIds /\ conns'[c] # None
    BY DEF Used
  <2>2. /\ c \in Used /\ conns'[c].dialer = conns[c].dialer /\ conns'[c].acceptor = conns[c].acceptor
        /\ conns'[c].end = f[c].end
        /\ conns'[c].via = conns[c].via \/ f[c].end[conns[c].dialer].stage = "done"
    BY <2>1 DEF Follows
  <2> QED
    BY <2>2 DEF Ends, Preferred, End
<1>2. ASSUME NEW a \in Used, Preferred(a)
      PROVE  a \in Used'
  <2>1. conns[a].dialer \in Ends(a)
    BY DEF Ends
  <2>2. f[a].end[conns[a].dialer].open
    BY <1>2, <2>1 DEF Yields
  <2>3. f[a].end[conns[a].dialer] # GoneEnd
    BY <2>2 DEF GoneEnd
  <2> QED
    BY <2>1, <2>3 DEF Follows, Used
<1>3. ASSUME NEW c \in Used', NEW a \in Used, Preferred(a), Ends(a) = Ends(c),
             NEW y \in Ends(a), f[a].end[y].stage = "done"
      PROVE  Outranked(c)'
  <2>1. a \in Used'
    BY <1>2, <1>3
  <2>2. Preferred(a)' /\ Ends(a)' = Ends(c)' /\ y \in Ends(a)' /\ End(a, y)'.stage = "done"
    BY <1>1, <1>3, <2>1
  <2> QED
    BY <2>1, <2>2 DEF Outranked
<1>4. ASSUME NEW c \in Used', Outranked(c)
      PROVE  Outranked(c)'
  <2>1. PICK a \in Used : /\ Preferred(a) /\ Ends(a) = Ends(c)
                          /\ \E x \in Ends(a) : End(a, x).stage = "done"
    BY <1>4 DEF Outranked
  <2>2. PICK x \in Ends(a) : End(a, x).stage = "done"
    BY <2>1
  <2>3. f[a].end[x].stage = "done"
    BY <2>2 DEF StagesKept
  <2> QED
    BY <1>3, <2>1, <2>3
<1>5. ASSUME NEW c \in Used', ~Untouched(c)'
      PROVE  ~Preferred(c)' /\ Outranked(c)'
  <2>1. PICK x \in Ends(c)' : ~(End(c, x)'.open /\ End(c, x)'.error = "no")
    BY <1>5 DEF Untouched
  <2>2. c \in Used /\ x \in Ends(c) /\ ~(f[c].end[x].open /\ f[c].end[x].error = "no")
    BY <1>1, <2>1
  <2>3. /\ ~Preferred(c)
        /\ \E a \in Used : /\ Preferred(a) /\ Ends(a) = Ends(c)
                           /\ \E y \in Ends(a) : f[a].end[y].stage = "done"
    BY <2>2 DEF Yields
  <2> QED
    BY <1>1, <1>3, <2>3
<1>6. ASSUME NEW c \in Used', NEW d \in Used', d # c, SameDial(c, d)'
      PROVE  ~Preferred(c)' /\ Outranked(c)'
  <2>1. c \in Used /\ d \in Used /\ SameDial(c, d)
    BY <1>1, <1>6 DEF SameDial
  <2>2. ~Preferred(c) /\ Outranked(c)
    BY <1>6, <2>1 DEF Converging
  <2> QED
    BY <1>1, <1>4, <2>2
<1>7. ASSUME NEW c \in Used', conns'[c].via = "probe"
      PROVE  End(c, conns[c].dialer)'.stage = "done"
  <2>1. c \in Used /\ conns'[c].dialer = conns[c].dialer
        /\ End(c, conns[c].dialer)' = f[c].end[conns[c].dialer] /\ conns[c].dialer \in Ends(c)
    BY <1>1 DEF Ends, End
  <2>2. conns[c].via = "probe" => End(c, conns[c].dialer).stage = "done"
    BY <2>1 DEF Converging
  <2>3. f[c].end[conns[c].dialer].stage = "done"
    BY <1>1, <1>7, <2>1, <2>2 DEF StagesKept
  <2> QED
    BY <2>1, <2>3
<1> QED
  BY <1>5, <1>6, <1>7 DEF Converging

\* The end at n of c becomes e: it stays as sound as it was, or c is outranked.
LEMMA OneEndConverging ==
  ASSUME TypeOK, Converging, faults = 0, NEW f, SameConnections(f), NEW c \in Used,
         NEW n \in Ends(c), NEW e \in EndState,
         \A d \in Used : \A x \in Ends(d) :
            f[d].end[x] = IF d = c /\ x = n THEN e ELSE conns[d].end[x],
         \A d \in Used : f[d].broken = conns[d].broken,
         End(c, n).stage = "done" => e.stage = "done",
         conns' = f \/ conns' = Settle(f),
         \/ e.open /\ e.error = "no"
         \/ ~Untouched(c)
         \/ ~Preferred(c) /\ Outranked(c)
  PROVE  Converging'
<1>1. Follows(f)
  BY PlainFollows, SettleFollows
<1>2. StagesKept(f)
  BY StageMoves
<1>3. \A d \in Used : ~f[d].broken
  BY DEF Converging
<1>4. \A d \in Used' : ~conns'[d].broken
  <2>1. CASE conns' = f
    BY <1>1, <1>3, <2>1 DEF Used, Follows
  <2>2. CASE conns' = Settle(f)
    BY <1>3, <2>2, SettleLinks
  <2> QED
    BY <2>1, <2>2
<1>5. ASSUME NEW d \in Used, ~Preferred(d), Outranked(d)
      PROVE  \E a \in Used : /\ Preferred(a) /\ Ends(a) = Ends(d)
                             /\ \E y \in Ends(a) : f[a].end[y].stage = "done"
  BY <1>2, <1>5 DEF Outranked, StagesKept
<1>6. ASSUME NEW d \in Used, NEW x \in Ends(d), ~(f[d].end[x].open /\ f[d].end[x].error = "no")
      PROVE  ~Preferred(d) /\ Outranked(d)
  <2>1. CASE d = c /\ x = n
    <3>1. f[d].end[x] = e
      BY <2>1
    <3> QED
      BY <1>6, <2>1, <3>1 DEF Converging
  <2>2. CASE ~(d = c /\ x = n)
    <3>1. f[d].end[x] = End(d, x)
      BY <2>2 DEF End
    <3>2. ~Untouched(d)
      BY <1>6, <3>1 DEF Untouched
    <3> QED
      BY <3>2 DEF Converging
  <2> QED
    BY <2>1, <2>2
<1>7. Yields(f)
  BY <1>5, <1>6 DEF Yields
<1> QED
  BY <1>1, <1>2, <1>4, <1>7, YieldsConverging

\* Nothing happens to the connections.
LEMMA SameConverging ==
  ASSUME Converging, conns' = conns, faults' = 0 => faults = 0
  PROVE  Converging'
<1>1. Used' = Used /\ \A c : Ends(c)' = Ends(c) /\ \A x : End(c, x)' = End(c, x)
  BY DEF Used, Ends, End
<1>2. \A c, d : /\ Preferred(c)' <=> Preferred(c)
                /\ SameDial(c, d)' <=> SameDial(c, d)
  BY DEF Preferred, SameDial
<1>3. ASSUME NEW c PROVE (Untouched(c)' <=> Untouched(c)) /\ (Outranked(c)' <=> Outranked(c))
  BY <1>1, <1>2 DEF Untouched, Outranked
<1>4. \A c : End(c, conns[c].dialer)' = End(c, conns[c].dialer)
  BY DEF End
<1> QED
  BY <1>1, <1>2, <1>3, <1>4 DEF Converging

\* No fault is taken back.
LEMMA FaultsStay ==
  ASSUME TypeOK, Fault \/ UNCHANGED faults
  PROVE  /\ faults' = 0 => faults = 0
         /\ Fault => faults' # 0
<1>1. faults \in Nat
  BY BoundAssumption DEF TypeOK
<1> QED
  BY <1>1 DEF Fault

(* A handshake fails only where the link or the other end did. *)
LEMMA HandshakeConverging ==
  ASSUME SessionsTracked, Converging, NEW c \in Used, NEW n \in Ends(c), Handshake(c, n), faults' = 0
  PROVE  Converging'
<1>1. /\ TypeOK /\ SameConnections(conns) /\ End(c, n) \in EndState
      /\ End(c, n).stage = "handshake" /\ Remote(c, n) \in Ends(c)
  BY Parts, UsedFields DEF Handshake
<1>2. faults = 0
  BY <1>1, FaultsStay DEF Handshake
<1>3. CASE conns' = [conns EXCEPT ![c].end[n].stage = "made"]
  <2> DEFINE e == [End(c, n) EXCEPT !.stage = "made"]
             f == [conns EXCEPT ![c].end[n] = e]
  <2>1. e = [stage |-> "made", open |-> End(c, n).open, error |-> End(c, n).error]
    BY <1>1, EndFields
  <2>2. /\ e \in EndState /\ e.stage = "made"
        /\ (e.open <=> End(c, n).open) /\ e.error = End(c, n).error
    BY <1>1, <2>1, EndFields DEF EndState
  <2>3. conns' = f
    BY <1>3 DEF End
  <2> HIDE DEF e
  <2>4. /\ SameConnections(f)
        /\ \A d \in Used : \A x \in Ends(d) :
             f[d].end[x] = IF d = c /\ x = n THEN e ELSE conns[d].end[x]
        /\ \A d \in Used : f[d].broken = conns[d].broken
    BY <1>1, <2>2, WithEnd
  <2> HIDE DEF f
  <2>5. (e.open /\ e.error = "no") \/ ~Untouched(c)
    BY <2>2 DEF Untouched
  <2> QED
    BY <1>1, <1>2, <2>2, <2>3, <2>4, <2>5, OneEndConverging
<1>4. CASE /\ IF conns[c].broken \/ ~End(c, Remote(c, n)).open THEN UNCHANGED faults ELSE Fault
           /\ conns' = Settle([conns EXCEPT ![c].end[n] = GoneEnd])
  <2> DEFINE f == [conns EXCEPT ![c].end[n] = GoneEnd]
  <2>1. ~Untouched(c)
    <3>1. ~Fault
      BY <1>1, FaultsStay
    <3>2. ~End(c, Remote(c, n)).open
      BY <1>2, <1>4, <3>1 DEF Converging
    <3> QED
      BY <1>1, <3>2 DEF Untouched
  <2>2. /\ SameConnections(f)
        /\ \A d \in Used : \A x \in Ends(d) :
             f[d].end[x] = IF d = c /\ x = n THEN GoneEnd ELSE conns[d].end[x]
        /\ \A d \in Used : f[d].broken = conns[d].broken
    BY <1>1, GoneEndType, WithEnd
  <2>3. conns' = Settle(f)
    BY <1>4
  <2> HIDE DEF f
  <2>4. GoneEnd.stage = "done"
    BY DEF GoneEnd
  <2> QED
    BY <1>1, <1>2, <2>1, <2>2, <2>3, <2>4, GoneEndType, OneEndConverging
<1> QED
  BY <1>3, <1>4 DEF Handshake

(* An error is met only by a session that an end has stopped. *)
LEMMA ErrorConverging ==
  ASSUME SessionsTracked, Converging, NEW c \in Used, NEW n \in Ends(c), Error(c, n), faults' = 0
  PROVE  Converging'
<1> DEFINE e == [End(c, n) EXCEPT !.error = "marked"]
           f == [conns EXCEPT ![c].end[n] = e]
<1>1. TypeOK /\ SameConnections(conns) /\ End(c, n) \in EndState /\ faults = 0
  BY Parts, UsedFields DEF Error
<1>2. e = [stage |-> End(c, n).stage, open |-> End(c, n).open, error |-> "marked"]
  BY <1>1, EndFields
<1>3. e \in EndState /\ e.stage = End(c, n).stage
  BY <1>1, <1>2, EndFields DEF EndState
<1>4. conns' = f
  BY DEF Error, End
<1> HIDE DEF e
<1>5. /\ SameConnections(f)
      /\ \A d \in Used : \A x \in Ends(d) :
           f[d].end[x] = IF d = c /\ x = n THEN e ELSE conns[d].end[x]
      /\ \A d \in Used : f[d].broken = conns[d].broken
  BY <1>1, <1>3, WithEnd
<1> HIDE DEF f
<1>6. ~Untouched(c)
  BY <1>1 DEF Error, Converging, Untouched
<1> QED
  BY <1>1, <1>3, <1>4, <1>5, <1>6, OneEndConverging

(* And its callback closes no other. *)
LEMMA OnPeerErrorConverging ==
  ASSUME SessionsTracked, Converging, NEW c \in Used, NEW n \in Ends(c), OnPeerError(c, n),
         faults' = 0
  PROVE  Converging'
<1> DEFINE e == [End(c, n) EXCEPT !.error = "over", !.open = FALSE]
           f == [conns EXCEPT ![c].end[n] = e]
<1>1. TypeOK /\ SameConnections(conns) /\ End(c, n) \in EndState /\ faults = 0
  BY Parts, UsedFields DEF OnPeerError
<1>2. e = [stage |-> End(c, n).stage, open |-> FALSE, error |-> "over"]
  BY <1>1, EndFields
<1>3. e \in EndState /\ e.stage = End(c, n).stage
  BY <1>1, <1>2, EndFields DEF EndState
<1>4. conns' = Settle(f)
  <2>1. [conns EXCEPT ![c].end[n].error = "over", ![c].end[n].open = FALSE] = f
    <3>1. c \in ConnIds /\ DOMAIN conns = ConnIds /\ conns[c] \in Connection /\ DOMAIN conns[c].end = Ends(c)
      BY <1>1, UsedFields DEF SameConnections
    <3>2. conns[c] = [dialer |-> conns[c].dialer, acceptor |-> conns[c].acceptor,
                      via |-> conns[c].via, broken |-> conns[c].broken, end |-> conns[c].end]
      BY <3>1, ConnectionFields
    <3> QED
      BY <3>1, <3>2 DEF End
  <2> QED
    BY <2>1 DEF OnPeerError
<1> HIDE DEF e
<1>5. /\ SameConnections(f)
      /\ \A d \in Used : \A x \in Ends(d) :
           f[d].end[x] = IF d = c /\ x = n THEN e ELSE conns[d].end[x]
      /\ \A d \in Used : f[d].broken = conns[d].broken
  BY <1>1, <1>3, WithEnd
<1> HIDE DEF f
<1>6. ~Untouched(c)
  BY DEF OnPeerError, Untouched
<1> QED
  BY <1>1, <1>3, <1>4, <1>5, <1>6, OneEndConverging

\* A session that AddPeer refuses at n is outranked: old is preferred, or c is a double.
LEMMA RefusedOutranked ==
  ASSUME SessionsTracked, Converging, faults = 0, NEW c \in Used, NEW n \in Ends(c),
         NEW old, old = peers[n][Remote(c, n)], old # None, old # c,
         ~shouldReplaceDuplicatePeer(old, c, n)
  PROVE  ~Preferred(c) /\ Outranked(c)
<1> DEFINE m == Remote(c, n)
<1>1. /\ TypeOK /\ old \in Used /\ n \in Ends(old) /\ Remote(old, n) = m
      /\ End(old, n).stage = "done"
  BY Parts, HeldFor
<1>2. /\ n \in Nat /\ m \in Nat /\ n # m
      /\ IsOutbound(c, n) => conns[c].dialer = n /\ conns[c].acceptor = m
      /\ ~IsOutbound(c, n) => conns[c].dialer = m /\ conns[c].acceptor = n
  BY <1>1, Directions
<1>3. /\ IsOutbound(old, n) => conns[old].dialer = n /\ conns[old].acceptor = m
      /\ ~IsOutbound(old, n) => conns[old].dialer = m /\ conns[old].acceptor = n
  BY <1>1, Directions
<1> HIDE DEF m
<1>4. Ends(c) = Ends(old)
  BY <1>2, <1>3 DEF Ends
<1>5. CASE IsOutbound(old, n) <=> IsOutbound(c, n)
  <2>1. SameDial(c, old)
    BY <1>2, <1>3, <1>5 DEF SameDial
  <2> QED
    BY <1>1, <2>1 DEF Converging
<1>6. CASE ~(IsOutbound(old, n) <=> IsOutbound(c, n))
  <2>1. ~(IsOutbound(c, n) <=> n < m)
    BY <1>6 DEF shouldReplaceDuplicatePeer, IsOutbound, m
  <2>2. ~Preferred(c) /\ Preferred(old)
    BY <1>2, <1>3, <1>6, <2>1 DEF Preferred
  <2> QED
    BY <1>1, <1>4, <2>2 DEF Outranked
<1> QED
  BY <1>5, <1>6

\* A session that AddPeer replaces at n by c is outranked once c is added there.
LEMMA ReplacedOutranked ==
  ASSUME SessionsTracked, Converging, faults = 0, NEW c \in Used, NEW n \in Ends(c),
         NEW old, old = peers[n][Remote(c, n)], old # None, old # c,
         shouldReplaceDuplicatePeer(old, c, n)
  PROVE  ~Preferred(old) /\ (Outranked(old) \/ (Preferred(c) /\ Ends(c) = Ends(old)))
<1> DEFINE m == Remote(c, n)
<1>1. TypeOK /\ old \in Used /\ n \in Ends(old) /\ Remote(old, n) = m
  BY Parts, HeldFor
<1>2. /\ n \in Nat /\ m \in Nat /\ n # m
      /\ IsOutbound(c, n) => conns[c].dialer = n /\ conns[c].acceptor = m
      /\ ~IsOutbound(c, n) => conns[c].dialer = m /\ conns[c].acceptor = n
  BY <1>1, Directions
<1>3. /\ IsOutbound(old, n) => conns[old].dialer = n /\ conns[old].acceptor = m
      /\ ~IsOutbound(old, n) => conns[old].dialer = m /\ conns[old].acceptor = n
  BY <1>1, Directions
<1> HIDE DEF m
<1>4. Ends(c) = Ends(old)
  BY <1>2, <1>3 DEF Ends
<1>5. CASE hasError(old, n)
  <2>1. ~Untouched(old)
    BY <1>1, <1>5 DEF hasError, Untouched
  <2> QED
    BY <1>1, <2>1 DEF Converging
<1>6. CASE IsOutbound(old, n) <=> IsOutbound(c, n)
  <2>1. SameDial(old, c)
    BY <1>2, <1>3, <1>6 DEF SameDial
  <2> QED
    BY <1>1, <2>1 DEF Converging
<1>7. CASE ~hasError(old, n) /\ ~(IsOutbound(old, n) <=> IsOutbound(c, n))
  <2>1. IsOutbound(c, n) <=> n < m
    BY <1>7 DEF shouldReplaceDuplicatePeer, IsOutbound, m
  <2>2. ~Preferred(old) /\ Preferred(c)
    BY <1>2, <1>3, <1>7, <2>1 DEF Preferred
  <2> QED
    BY <1>4, <2>2
<1> QED
  BY <1>5, <1>6, <1>7

(* AddPeer stops only sessions that are outranked. *)
LEMMA AddPeerConverging ==
  ASSUME SessionsTracked, Converging, NEW c \in Used, NEW n \in Ends(c), AddPeer(c, n), faults' = 0
  PROVE  Converging'
<1> DEFINE m == Remote(c, n)
           old == peers[n][m]
           e0 == [End(c, n) EXCEPT !.stage = "done"]
           added == [conns EXCEPT ![c].end[n] = e0]
<1>1. /\ TypeOK /\ SameConnections(conns) /\ End(c, n) \in EndState /\ End(c, n).stage = "made"
      /\ faults = 0
  BY Parts, UsedFields DEF AddPeer
<1>2. c # None
  BY NameAssumption DEF Used
<1>3. old # None => /\ old \in Used /\ n \in Ends(old)
                    /\ End(old, n) \in EndState /\ End(old, n).stage = "done"
  BY HeldFor
<1>4. old # c
  BY <1>1, <1>2, <1>3
<1>5. End(c, n).open \/ End(c, n).error = "over"
  BY <1>1, Parts DEF OpenUntilAdded
<1>6. e0 = [stage |-> "done", open |-> End(c, n).open, error |-> End(c, n).error]
  BY <1>1, EndFields
<1>7. /\ e0 \in EndState /\ e0.stage = "done" /\ (e0.open <=> End(c, n).open)
      /\ e0.error = End(c, n).error
  BY <1>1, <1>6, EndFields DEF EndState
<1>8. [conns EXCEPT ![c].end[n].stage = "done"] = added
  BY DEF End
<1> HIDE DEF e0
<1>9. /\ SameConnections(added)
      /\ \A d \in Used : \A x \in Ends(d) :
           added[d].end[x] = IF d = c /\ x = n THEN e0 ELSE conns[d].end[x]
      /\ \A d \in Used : added[d].broken = conns[d].broken
  BY <1>1, <1>7, WithEnd
<1>10. added[c].end[n] = e0
  BY <1>9
<1> HIDE DEF added
<1>11. ~(IsOutbound(c, n) /\ conns[c].via = "probe")
  BY <1>1 DEF Converging, IsOutbound
\* A session that had an error, or is the first one.
<1>12. ASSUME conns' = Settle(added) PROVE Converging'
  <2>1. (e0.open /\ e0.error = "no") \/ ~Untouched(c)
    BY <1>7 DEF Untouched
  <2> QED
    BY <1>1, <1>7, <1>9, <1>12, <2>1, OneEndConverging
\* A session that is refused.
<1>13. ASSUME old # None, ~shouldReplaceDuplicatePeer(old, c, n), conns' \in StopEnd(added, c, n)
       PROVE  Converging'
  <2>1. PICK e \in Stopped(e0) : conns' = Settle([added EXCEPT ![c].end[n] = e])
    BY <1>10, <1>13 DEF StopEnd
  <2> DEFINE f == [added EXCEPT ![c].end[n] = e]
  <2>2. e \in EndState /\ e.stage = "done"
    BY <1>7, StoppedFields
  <2>3. /\ SameConnections(f)
        /\ \A d \in Used : \A x \in Ends(d) :
             f[d].end[x] = IF d = c /\ x = n THEN e ELSE added[d].end[x]
        /\ \A d \in Used : f[d].broken = added[d].broken
    BY <1>1, <1>9, <2>2, WithEnd
  <2>4. conns' = Settle(f)
    BY <2>1
  <2> HIDE DEF f
  <2>5. /\ \A d \in Used : \A x \in Ends(d) :
             f[d].end[x] = IF d = c /\ x = n THEN e ELSE conns[d].end[x]
        /\ \A d \in Used : f[d].broken = conns[d].broken
    BY <1>9, <2>3
  <2>6. ~Preferred(c) /\ Outranked(c)
    BY <1>1, <1>4, <1>13, RefusedOutranked
  <2> QED
    BY <1>1, <2>2, <2>3, <2>4, <2>5, <2>6, OneEndConverging
\* A session that replaces another one.
<1>14. ASSUME ~hasError(c, n), old # None, shouldReplaceDuplicatePeer(old, c, n),
              conns' \in StopEnd(added, old, n)
       PROVE  Converging'
  <2>1. e0.error = "no" /\ e0.open
    BY <1>5, <1>7, <1>14 DEF hasError
  <2>2. added[old].end[n] = End(old, n)
    BY <1>3, <1>4, <1>9, <1>14 DEF End
  <2>3. PICK e \in Stopped(End(old, n)) : conns' = Settle([added EXCEPT ![old].end[n] = e])
    BY <1>14, <2>2 DEF StopEnd
  <2> DEFINE f == [added EXCEPT ![old].end[n] = e]
  <2>4. e \in EndState /\ e.stage = "done"
    BY <1>3, <1>14, StoppedFields
  <2>5. /\ SameConnections(f)
        /\ \A d \in Used : \A x \in Ends(d) :
             f[d].end[x] = IF d = old /\ x = n THEN e ELSE added[d].end[x]
        /\ \A d \in Used : f[d].broken = added[d].broken
    <3>1. old \in Used /\ n \in Ends(old) /\ TypeOK /\ SameConnections(added)
      BY <1>1, <1>3, <1>9, <1>14
    <3> HIDE DEF old
    <3> QED
      BY <2>4, <3>1, WithEnd
  <2>6. conns' = Settle(f)
    BY <2>3
  <2> HIDE DEF f
  <2>7. \A d \in Used : \A x \in Ends(d) :
          f[d].end[x] = IF d = old /\ x = n THEN e ELSE IF d = c /\ x = n THEN e0 ELSE End(d, x)
    BY <1>9, <2>5 DEF End
  <2>8. StagesKept(f)
    BY <1>7, <2>4, <2>7 DEF StagesKept
  <2>9. \A d \in Used : ~f[d].broken
    BY <1>1, <1>9, <2>5 DEF Converging
  <2>10. f[c].end[n].stage = "done"
    BY <1>4, <1>7, <2>7
  <2>11. ASSUME NEW d \in Used, NEW x \in Ends(d), ~(f[d].end[x].open /\ f[d].end[x].error = "no")
         PROVE  ~Preferred(d) /\ (Outranked(d) \/ (Preferred(c) /\ Ends(c) = Ends(d)))
    <3>1. CASE d = old
      BY <1>1, <1>4, <1>14, <3>1, ReplacedOutranked
    <3>2. CASE d # old
      <4>1. ~(d = c /\ x = n)
        BY <2>1, <2>7, <2>11, <3>2
      <4>2. ~Untouched(d)
        BY <2>7, <2>11, <3>2, <4>1 DEF Untouched
      <4> QED
        BY <1>1, <4>2 DEF Converging
    <3> QED
      BY <3>1, <3>2
  <2>12. ASSUME NEW d \in Used, Outranked(d) \/ (Preferred(c) /\ Ends(c) = Ends(d))
         PROVE  \E a \in Used : /\ Preferred(a) /\ Ends(a) = Ends(d)
                                /\ \E y \in Ends(a) : f[a].end[y].stage = "done"
    BY <2>8, <2>10, <2>12 DEF Outranked, StagesKept
  <2>13. Yields(f)
    BY <2>11, <2>12 DEF Yields
  <2>14. Follows(f) /\ \A d \in Used' : ~conns'[d].broken
    BY <1>1, <2>5, <2>6, <2>9, SettleFollows, SettleLinks
  <2> QED
    BY <1>1, <2>5, <2>8, <2>13, <2>14, YieldsConverging
<1> QED
  BY <1>8, <1>11, <1>12, <1>13, <1>14 DEF AddPeer

(* A node dials again where it has a session only after that one was outranked. *)
LEMMA DialConverging ==
  ASSUME SessionsTracked, Converging, NEW n \in Nodes, NEW m \in Nodes \ {n},
         NEW via \in {"backoff", "failed", "probe"}, Dial(n, m, via), faults' = 0
  PROVE  Converging'
<1> DEFINE ends == [x \in {n, m} |-> NewEnd]
           z == [dialer |-> n, acceptor |-> m, via |-> via, broken |-> FALSE, end |-> ends]
<1>1. TypeOK /\ faults = 0 /\ Underway(n) = {} /\ via # "probe" /\ peers[n][m] = None
  <2>1. TypeOK /\ (Fault \/ UNCHANGED faults)
    BY Parts DEF Dial
  <2>2. faults = 0 /\ ~Fault
    BY <2>1, FaultsStay
  <2> QED
    BY <2>1, <2>2 DEF Dial, Has
<1>2. PICK k \in ConnIds : k \notin Used /\ k = Min(ConnIds \ Used)
  <2>1. ConnIds \ Used # {} /\ ConnIds \ Used \subseteq Nat
    BY NameAssumption DEF Dial, Used
  <2> QED
    BY <2>1, MinOfNames
<1>3. conns' = [conns EXCEPT ![k] = z]
  BY <1>2 DEF Dial
<1>4. NewEnd.stage = "handshake" /\ NewEnd.open /\ NewEnd.error = "no"
  BY DEF NewEnd
<1>5. /\ z.dialer = n /\ z.acceptor = m /\ z.via = via /\ ~z.broken
      /\ z.end[n] = NewEnd /\ z.end[m] = NewEnd
  OBVIOUS
<1> HIDE DEF z
<1>6. \A d \in ConnIds : conns'[d] = IF d = k THEN z ELSE conns[d]
  BY <1>1, <1>3 DEF TypeOK
<1>7. /\ Used' \subseteq Used \union {k}
      /\ \A d \in Used : d \in Used' /\ conns'[d] = conns[d]
  BY <1>2, <1>6 DEF Used
<1>8. ASSUME NEW d \in Used
      PROVE  /\ Ends(d)' = Ends(d) /\ (Preferred(d)' <=> Preferred(d))
             /\ \A x : End(d, x)' = End(d, x)
             /\ \A c \in Used : SameDial(d, c)' <=> SameDial(d, c)
  BY <1>7 DEF Ends, Preferred, End, SameDial
<1>9. /\ Ends(k)' = {n, m} /\ (Preferred(k)' <=> n < m) /\ Untouched(k)' /\ ~conns'[k].broken
      /\ conns'[k].via # "probe"
  <2>1. conns'[k] = z
    BY <1>6
  <2> QED
    BY <1>1, <1>4, <1>5, <2>1 DEF Ends, Preferred, Untouched, End
<1>10. ASSUME NEW d \in Used, NEW c, Ends(c)' = Ends(d), Outranked(d)
       PROVE  Outranked(c)'
  BY <1>7, <1>8, <1>10 DEF Outranked
<1>11. ASSUME NEW d \in Used, ~Untouched(d)'
       PROVE  ~Preferred(d)' /\ Outranked(d)'
  <2>1. ~Untouched(d)
    BY <1>8, <1>11 DEF Untouched
  <2>2. ~Preferred(d) /\ Outranked(d)
    BY <1>1, <2>1 DEF Converging
  <2> QED
    BY <1>8, <1>10, <2>2
\* An older session of the same dial.
<1>12. ASSUME NEW d \in Used, conns[d].dialer = n, conns[d].acceptor = m
       PROVE  ~(n < m) /\ Outranked(d)' /\ Outranked(k)'
  <2>1. n \in Ends(d) /\ m \in Ends(d) /\ Ends(d) = {n, m}
    BY <1>12 DEF Ends
  <2>2. Remote(d, n) = m
    BY <1>1, <2>1, UsedFields
  <2>3. End(d, n).stage = "done"
    BY <1>1, <1>12 DEF Underway
  <2>4. d # None
    BY NameAssumption DEF Used
  <2>5. ~Untouched(d)
    BY <1>1, <2>1, <2>2, <2>3, <2>4, Parts DEF NoneLeaked, Untouched
  <2>6. ~Preferred(d) /\ Outranked(d)
    BY <1>1, <2>5 DEF Converging
  <2> QED
    BY <1>8, <1>9, <1>10, <1>12, <2>1, <2>6 DEF Preferred
<1>13. ASSUME NEW c \in Used', NEW d \in Used', d # c, SameDial(c, d)'
       PROVE  ~Preferred(c)' /\ Outranked(c)'
  <2>1. CASE c \in Used /\ d \in Used
    <3>1. ~Preferred(c) /\ Outranked(c)
      BY <1>1, <1>8, <1>13, <2>1 DEF Converging
    <3> QED
      BY <1>8, <1>10, <2>1, <3>1
  <2>2. CASE c = k /\ d \in Used
    <3>1. conns[d].dialer = n /\ conns[d].acceptor = m
      BY <1>5, <1>6, <1>7, <1>13, <2>2 DEF SameDial
    <3> QED
      BY <1>9, <1>12, <2>2, <3>1
  <2>3. CASE d = k /\ c \in Used
    <3>1. conns[c].dialer = n /\ conns[c].acceptor = m
      BY <1>5, <1>6, <1>7, <1>13, <2>3 DEF SameDial
    <3>2. ~Preferred(c)
      BY <1>12, <2>3, <3>1 DEF Preferred
    <3> QED
      BY <1>8, <1>12, <2>3, <3>1, <3>2
  <2> QED
    BY <1>7, <1>13, <2>1, <2>2, <2>3
<1>14. ASSUME NEW c \in Used'
       PROVE  /\ ~conns'[c].broken
              /\ conns'[c].via = "probe" => End(c, conns[c].dialer)'.stage = "done"
              /\ ~Untouched(c)' => ~Preferred(c)' /\ Outranked(c)'
  <2>1. CASE c = k
    BY <1>9, <2>1
  <2>2. CASE c \in Used
    <3>1. End(c, conns[c].dialer)' = End(c, conns[c].dialer) /\ conns'[c] = conns[c]
      BY <1>7, <2>2 DEF End
    <3> QED
      BY <1>1, <1>11, <2>2, <3>1 DEF Converging
  <2> QED
    BY <1>7, <2>1, <2>2
<1> QED
  BY <1>13, <1>14 DEF Converging

(* Every step preserves the invariant. *)
LEMMA NextConverging ==
  ASSUME SessionsTracked, Converging, [Next]_vars
  PROVE  Converging'
<1>0. CASE faults' # 0
  BY <1>0 DEF Converging
<1> SUFFICES ASSUME faults' = 0 PROVE Converging'
  BY <1>0
<1>1. TypeOK
  BY Parts
<1>2. ~Fault
  BY <1>1, FaultsStay
<1>3. ASSUME NEW p \in Pairs, DialWithBackoff(p[1], p[2]) PROVE Converging'
  <2>1. CASE Has(p[1], p[2])
    BY <1>3, <2>1, SameConverging DEF DialWithBackoff
  <2>2. CASE ~Has(p[1], p[2])
    BY <1>3, <2>2, PairOfNodes, DialConverging DEF DialWithBackoff
  <2> QED
    BY <2>1, <2>2
<1>4. ASSUME NEW p \in Pairs, DialFailedPeers(p[1], p[2]) PROVE Converging'
  <2>1. CASE Has(p[1], p[2])
    BY <1>4, <2>1, SameConverging DEF DialFailedPeers
  <2>2. CASE ~Has(p[1], p[2])
    BY <1>4, <2>2, PairOfNodes, DialConverging DEF DialFailedPeers
  <2> QED
    BY <2>1, <2>2
<1>5. ASSUME NEW p \in Pairs, ForgetFailed(p[1], p[2]) PROVE Converging'
  BY <1>5, SameConverging DEF ForgetFailed
<1>6. ASSUME NEW p \in Pairs, DialAndDisconnect(p[1], p[2]) PROVE Converging'
  BY <1>6, PairOfNodes, DialConverging DEF DialAndDisconnect
<1>7. ASSUME NEW n \in Nodes, UpdateMustConnects(n) \/ Restart(n) PROVE Converging'
  BY <1>2, <1>7, SameConverging DEF UpdateMustConnects, Restart
<1>8. ASSUME NEW c \in Used, BreakLink(c) PROVE Converging'
  BY <1>2, <1>8 DEF BreakLink
<1>9. ASSUME NEW c \in Used, NEW n \in Ends(c), ConnStep(c, n) PROVE Converging'
  BY <1>9, HandshakeConverging, AddPeerConverging, ErrorConverging, OnPeerErrorConverging
     DEF ConnStep
<1>10. CASE UNCHANGED vars
  BY <1>10, SameConverging DEF vars
<1> QED
  BY <1>3, <1>4, <1>5, <1>6, <1>7, <1>8, <1>9, <1>10 DEF Next

\* Two nodes that hold different sessions for each other hold the preferred one at one of
\* the two ends: had neither been preferred, one that outranks them would be in a peer set.
LEMMA ConvergingKeepsOne ==
  ASSUME SessionsTracked, Converging
  PROVE  DuplicatesConverge
<1> SUFFICES ASSUME NEW p \in Pairs, NEW c, c = peers[p[1]][p[2]], NEW d, d = peers[p[2]][p[1]],
                    c # None, d # None, c # d, faults = 0
             PROVE  End(c, p[2]).open \/ End(d, p[1]).open
  BY DEF DuplicatesConverge
<1>1. p[1] \in Nodes /\ p[2] \in Nodes \ {p[1]} /\ TypeOK
  BY PairOfNodes, Parts
<1>2. /\ c \in Used /\ Ends(c) = {p[1], p[2]} /\ p[1] \in Ends(c) /\ Remote(c, p[1]) = p[2]
  BY HeldPeer
<1>3. /\ d \in Used /\ Ends(d) = {p[1], p[2]} /\ p[2] \in Ends(d) /\ Remote(d, p[1]) = p[2]
      /\ p[1] \in Ends(d)
  <2>1. PICK q \in Pairs : q[1] = p[2] /\ q[2] = p[1]
    <3>1. <<p[2], p[1]>> \in Pairs /\ <<p[2], p[1]>>[1] = p[2] /\ <<p[2], p[1]>>[2] = p[1]
      BY <1>1 DEF Pairs
    <3> QED
      BY <3>1
  <2>2. d \in Used /\ Ends(d) = {p[2], p[1]}
    BY <2>1, HeldPeer
  <2> QED
    BY <1>1, <2>2, UsedFields
<1>4. SUFFICES ASSUME ~Untouched(c), ~Untouched(d) PROVE FALSE
  BY <1>2, <1>3 DEF Untouched
<1>5. ~Preferred(c) /\ ~Preferred(d) /\ Outranked(c)
  BY <1>2, <1>3, <1>4 DEF Converging
<1>6. PICK a \in Used : /\ Preferred(a) /\ Ends(a) = {p[1], p[2]}
                        /\ \E x \in Ends(a) : End(a, x).stage = "done"
  BY <1>2, <1>5 DEF Outranked
<1>7. PICK x \in Ends(a) : End(a, x).stage = "done"
  BY <1>6
<1>8. End(a, x).open /\ End(a, x).error = "no"
  BY <1>6 DEF Converging, Untouched
<1>9. peers[x][Remote(a, x)] = a
  BY <1>7, <1>8, Parts DEF NoneLeaked
<1>10. CASE x = p[1]
  <2>1. Remote(a, x) = p[2]
    BY <1>1, <1>6, <1>10, UsedFields
  <2> QED
    BY <1>5, <1>6, <1>9, <1>10, <2>1
<1>11. CASE x = p[2]
  <2>1. Remote(a, x) = p[1]
    BY <1>1, <1>6, <1>11, UsedFields
  <2> QED
    BY <1>5, <1>6, <1>9, <1>11, <2>1
<1> QED
  BY <1>6, <1>10, <1>11

\* For any nodes and connections: however the dials of two nodes cross and whichever end adds
\* which session first, they never keep one each that the other has stopped, as long as none
\* of the faults happened (shouldReplaceDuplicatePeer, AddPeer).
THEOREM DuplicatesConvergeHolds == Spec => []DuplicatesConverge
<1>1. Init => SessionsTracked /\ Converging
  <2>1. Init => Used = {}
    BY DEF Init, Used
  <2> QED
    BY <2>1, InitTracked DEF Converging
<1>2. SessionsTracked /\ Converging /\ [Next]_vars => (SessionsTracked /\ Converging)'
  BY NextTracked, NextConverging
<1>3. SessionsTracked /\ Converging => DuplicatesConverge
  BY ConvergingKeepsOne
<1> QED
  BY <1>1, <1>2, <1>3, PTL DEF Spec
=============================================================================
