-------------------------------- MODULE P2P --------------------------------
(***************************************************************************)
(* The peer sets of nodes that dial each other (p2p/p2p.go, set.go, and    *)
(* the life of a MultiConn in conn.go).  A connection has two ends, each   *)
(* with goroutines of its own: the one that runs AddPeer, and the          *)
(* services whose first error runs Error.  They meet under p2p.mux, but    *)
(* failedPeers is a sync.Map outside of it.                                *)
(***************************************************************************)
EXTENDS Integers, FiniteSets, FiniteSetsExt

CONSTANTS
  Nodes,        \* public keys, numbers in the order of their bytes
  ConnIds,      \* names (uuids) of connections, numbers; free ones are taken again
  None,         \* no connection
  MaxBackoffs,  \* bound: DialWithBackoff goroutines of a node for one peer
  MaxFaults     \* bound: faults, see Fault

VARIABLES
  conns,        \* the connections, each with its two ends; None is a free name
  peers,        \* PeerSet.m of each node: the connection kept for a peer
  failedPeers,  \* P2P.failedPeers of each node
  forgetting,   \* peers that a goroutine is about to delete from failedPeers
  dialing,      \* DialWithBackoff goroutines that wait for their next attempt
  faults

vars == <<conns, peers, failedPeers, forgetting, dialing, faults>>

Pairs == {p \in Nodes \X Nodes : p[1] # p[2]}

\* One end of a connection: how far AddPeer is, whether it is open, how far Error is.
EndState == [stage : {"handshake", "made", "done"}, open : BOOLEAN, error : {"no", "marked", "over"}]

\* A connection: who dialed whom and why, and its two ends.
Connection ==
  UNION {[dialer : {p[1]}, acceptor : {p[2]}, via : {"backoff", "failed", "probe", None},
          broken : BOOLEAN, end : [{p[1], p[2]} -> EndState]] : p \in Pairs}

ASSUME NameAssumption ==
  /\ Nodes \subseteq Nat
  /\ ConnIds \subseteq Nat /\ IsFiniteSet(ConnIds)
  /\ None \notin ConnIds /\ None \notin Connection
ASSUME BoundAssumption == MaxBackoffs \in Nat /\ MaxFaults \in Nat

Used == {c \in ConnIds : conns[c] # None}
Ends(c) == {conns[c].dialer, conns[c].acceptor}
Remote(c, n) == CHOOSE m \in Ends(c) : m # n
End(c, n) == conns[c].end[n]
IsOutbound(c, n) == conns[c].dialer = n

\* Wrong: errors are not looked at.
hasErrorIgnored(c, n) == FALSE

\* MultiConn.hasError
hasError(c, n) == End(c, n).error # "no"

\* Has the peer set of n a connection to m?
Has(n, m) == peers[n][m] # None

\* The peer sets after PeerSet.Add() of connection c, past the check for a duplicate.
Add(n, m, c) == [peers EXCEPT ![n][m] = c]

\* The peer sets after PeerSet.Remove() by the uuid of connection c.
Remove(n, m, c) == IF peers[n][m] = c THEN [peers EXCEPT ![n][m] = None] ELSE peers

\* Something that happens finitely often: a broken link, a failed handshake, a crash, a
\* churn dial, or a second dial of one node that overlaps its first (dials of one node
\* are seconds apart, a dial and its handshake take less unless the network is slow).
Fault == faults < MaxFaults /\ faults' = faults + 1

\* A fresh end: TCP is connected, NewHandshake runs.
NewEnd == [stage |-> "handshake", open |-> TRUE, error |-> "no"]

\* An end without a MultiConn, or whose MultiConn is stopped and its services have ended.
GoneEnd == [stage |-> "done", open |-> FALSE, error |-> "over"]

\* MultiConn.Stop(): the connection is closed.  A service that is reading or writing meets
\* an error and runs Error() once; one that sees the quit signal first does not.
Stopped(e) == {[e EXCEPT !.open = FALSE],
               [e EXCEPT !.open = FALSE, !.error = IF @ = "no" THEN "over" ELSE @]}

\* The connections f without those that are over at both ends; how one was dialed matters only until
\* the dial has returned.
Settle(f) ==
  LET over == {c \in ConnIds : f[c] # None /\ \A n \in DOMAIN f[c].end : f[c].end[n] = GoneEnd}
  IN  [c \in ConnIds |-> IF f[c] = None \/ c \in over THEN None
                         ELSE IF f[c].end[f[c].dialer].stage = "done" THEN [f[c] EXCEPT !.via = None]
                         ELSE f[c]]

\* The dial of connection c by n returns, with an error or not: DialFailedPeers forgets the
\* peer after a success, DialWithBackoff tries again after an error until its time is up.
DialReturns(c, n, err) ==
  LET m == Remote(c, n)
  IN  /\ forgetting' = IF conns[c].dialer = n /\ conns[c].via = "failed" /\ ~err
                       THEN [forgetting EXCEPT ![n] = @ \union {m}] ELSE forgetting
      /\ IF conns[c].dialer = n /\ conns[c].via = "backoff" /\ err
         THEN \E retry \in {0, 1} : dialing' = [dialing EXCEPT ![n][m] = @ + retry]
         ELSE UNCHANGED dialing

-----------------------------------------------------------------------------
(* Dialing                                                                   *)

\* Dialed connections that n has not finished adding.
Underway(n) == {c \in Used : conns[c].dialer = n /\ End(c, n).stage # "done"}

\* Those of DialWithBackoff to m.
Backoffs(n, m) == {c \in Underway(n) : conns[c].acceptor = m /\ conns[c].via = "backoff"}

\* Dial(): the check of the peer set and the TCP connection, which the other side accepts.
Dial(n, m, via) ==
  /\ ~Has(n, m)
  /\ Used # ConnIds
  /\ IF Underway(n) # {} \/ via = "probe" THEN Fault ELSE UNCHANGED faults
  /\ conns' = [conns EXCEPT ![Min(ConnIds \ Used)] =
                 [dialer |-> n, acceptor |-> m, via |-> via, broken |-> FALSE,
                  end |-> [x \in {n, m} |-> NewEnd]]]

\* An attempt of DialWithBackoff; Dial returns at once when the peer is there.
DialWithBackoff(n, m) ==
  /\ dialing[n][m] > 0
  /\ dialing' = [dialing EXCEPT ![n][m] = @ - 1]
  /\ IF Has(n, m) THEN UNCHANGED <<conns, faults>> ELSE Dial(n, m, "backoff")
  /\ UNCHANGED <<peers, failedPeers, forgetting>>

\* DialFailedPeers at a tick: a peer that is connected again is forgotten (the check and
\* the deletion are two steps), another one is dialed.
DialFailedPeers(n, m) ==
  /\ m \in failedPeers[n]
  /\ IF Has(n, m)
     THEN /\ forgetting' = [forgetting EXCEPT ![n] = @ \union {m}]
          /\ UNCHANGED <<conns, faults>>
     ELSE Dial(n, m, "failed") /\ UNCHANGED forgetting
  /\ UNCHANGED <<peers, failedPeers, dialing>>

\* failedPeers.Delete(), after the check or the dial that justified it.
ForgetFailed(n, m) ==
  /\ m \in forgetting[n]
  /\ forgetting' = [forgetting EXCEPT ![n] = @ \ {m}]
  /\ failedPeers' = [failedPeers EXCEPT ![n] = @ \ {m}]
  /\ UNCHANGED <<conns, peers, dialing, faults>>

\* StartChurnManagement and ListenForPeerBookResponses dial a peer of a book to disconnect
\* at once.
DialAndDisconnect(n, m) ==
  /\ Dial(n, m, "probe")
  /\ UNCHANGED <<peers, failedPeers, forgetting, dialing>>

\* ListenForMustConnects: the controller sends the committee with every root-chain block,
\* and who is not connected is dialed.
UpdateMustConnects(n) ==
  LET started(m) == dialing[n][m] + Cardinality(Backoffs(n, m))
      toDial == {m \in Nodes \ {n} : ~Has(n, m) /\ started(m) < MaxBackoffs}
  IN  /\ dialing' = [dialing EXCEPT ![n] = [m \in DOMAIN @ |-> @[m] + IF m \in toDial THEN 1 ELSE 0]]
      /\ UNCHANGED <<conns, peers, failedPeers, forgetting, faults>>

-----------------------------------------------------------------------------
(* Adding a peer                                                             *)

\* NewHandshake returns at one end: the swaps are done, or one of them failed.  The other
\* end may have done its last swap when this one fails.
Handshake(c, n) ==
  /\ End(c, n).stage = "handshake"
  /\ \/ /\ ~conns[c].broken
        /\ conns' = [conns EXCEPT ![c].end[n].stage = "made"]
        /\ UNCHANGED <<dialing, forgetting, faults>>
     \/ /\ IF conns[c].broken \/ ~End(c, Remote(c, n)).open THEN UNCHANGED faults ELSE Fault
        /\ conns' = Settle([conns EXCEPT ![c].end[n] = GoneEnd])
        /\ DialReturns(c, n, TRUE)
  /\ UNCHANGED <<peers, failedPeers>>

\* Wrong: the session that came first stays.
keepFirst(existing, incoming, n) == hasError(existing, n)

\* shouldReplaceDuplicatePeer(): an errored session goes, a new inbound one replaces an
\* inbound one; of an inbound and an outbound one the lower key keeps the outbound one.
shouldReplaceDuplicatePeer(existing, incoming, n) ==
  \/ hasError(existing, n)
  \/ IF IsOutbound(existing, n) = IsOutbound(incoming, n)
     THEN ~IsOutbound(incoming, n)
     ELSE IsOutbound(incoming, n) = (n < Remote(incoming, n))

\* The connections f after n stopped its end of c.
StopEnd(f, c, n) == {Settle([f EXCEPT ![c].end[n] = e]) : e \in Stopped(f[c].end[n])}

\* AddPeer() from its critical section on: a churn dial disconnects, a connection that had
\* an error is left to it, a duplicate replaces the session it meets or is refused.
AddPeer(c, n) ==
  LET m == Remote(c, n)
      disconnect == IsOutbound(c, n) /\ conns[c].via = "probe"
      existing == peers[n][m]
      added == [conns EXCEPT ![c].end[n].stage = "done"]
  IN  /\ End(c, n).stage = "made"
      /\ \/ /\ disconnect
            /\ conns' \in StopEnd(added, c, n)
            /\ DialReturns(c, n, FALSE)
            /\ UNCHANGED peers
         \/ /\ ~disconnect
            /\ hasError(c, n)
            /\ conns' = Settle(added)
            /\ DialReturns(c, n, FALSE)
            /\ UNCHANGED peers
         \/ /\ ~disconnect
            /\ ~hasError(c, n)
            /\ existing = None
            /\ conns' = Settle(added)
            /\ peers' = Add(n, m, c)
            /\ DialReturns(c, n, FALSE)
         \/ /\ ~disconnect
            /\ ~hasError(c, n)
            /\ existing # None
            /\ IF shouldReplaceDuplicatePeer(existing, c, n)
               THEN /\ conns' \in StopEnd(added, existing, n)
                    /\ peers' = Add(n, m, c)
                    /\ DialReturns(c, n, FALSE)
               ELSE /\ conns' \in StopEnd(added, c, n)
                    /\ DialReturns(c, n, TRUE)
                    /\ UNCHANGED peers
      /\ UNCHANGED <<failedPeers, faults>>

-----------------------------------------------------------------------------
(* Losing a peer                                                             *)

\* Wrong: only a closed connection is noticed, not a silent one.
ErrorWithoutHeartbeat(c, n) ==
  /\ End(c, n).stage # "handshake"
  /\ End(c, n).error = "no"
  /\ \E x \in Ends(c) : ~End(c, x).open
  /\ conns' = [conns EXCEPT ![c].end[n].error = "marked"]
  /\ UNCHANGED <<peers, failedPeers, forgetting, dialing, faults>>

\* MultiConn.Error(), its first part: a service of the end at n met an error, because the
\* link is broken (a read or write deadline, the heartbeat) or an end was closed.
Error(c, n) ==
  /\ End(c, n).stage # "handshake"
  /\ End(c, n).error = "no"
  /\ conns[c].broken \/ \E x \in Ends(c) : ~End(c, x).open
  /\ conns' = [conns EXCEPT ![c].end[n].error = "marked"]
  /\ UNCHANGED <<peers, failedPeers, forgetting, dialing, faults>>

\* OnPeerError() and the rest of Error(): the peer is removed and stored as failed, and the
\* connection is stopped.
OnPeerError(c, n) ==
  LET m == Remote(c, n)
  IN  /\ End(c, n).error = "marked"
      /\ peers' = Remove(n, m, c)
      /\ failedPeers' = [failedPeers EXCEPT ![n] = @ \union {m}]
      /\ conns' = Settle([conns EXCEPT ![c].end[n].error = "over", ![c].end[n].open = FALSE])
      /\ UNCHANGED <<forgetting, dialing, faults>>

\* The network (external): a link breaks without a word.
BreakLink(c) ==
  /\ ~conns[c].broken
  /\ Fault
  /\ conns' = [conns EXCEPT ![c].broken = TRUE]
  /\ UNCHANGED <<peers, failedPeers, forgetting, dialing>>

\* A node crashes and starts again.
Restart(n) ==
  /\ Fault
  /\ conns' = Settle([c \in ConnIds |-> IF c \in Used /\ n \in Ends(c)
                                        THEN [conns[c] EXCEPT !.end[n] = GoneEnd] ELSE conns[c]])
  /\ peers' = [peers EXCEPT ![n] = [m \in DOMAIN @ |-> None]]
  /\ failedPeers' = [failedPeers EXCEPT ![n] = {}]
  /\ forgetting' = [forgetting EXCEPT ![n] = {}]
  /\ dialing' = [dialing EXCEPT ![n] = [m \in DOMAIN @ |-> 0]]

-----------------------------------------------------------------------------

Init ==
  /\ conns = [c \in ConnIds |-> None]
  /\ peers = [n \in Nodes |-> [m \in Nodes \ {n} |-> None]]
  /\ failedPeers = [n \in Nodes |-> {}]
  /\ forgetting = [n \in Nodes |-> {}]
  /\ dialing = [n \in Nodes |-> [m \in Nodes \ {n} |-> 0]]
  /\ faults = 0

ConnStep(c, n) == Handshake(c, n) \/ AddPeer(c, n) \/ Error(c, n) \/ OnPeerError(c, n)

Next ==
  \/ \E p \in Pairs : \/ DialWithBackoff(p[1], p[2])
                      \/ DialFailedPeers(p[1], p[2])
                      \/ ForgetFailed(p[1], p[2])
                      \/ DialAndDisconnect(p[1], p[2])
  \/ \E n \in Nodes : UpdateMustConnects(n) \/ Restart(n)
  \/ \E c \in Used : BreakLink(c)
  \/ \E c \in Used : \E n \in Ends(c) : ConnStep(c, n)

\* Goroutines run, time-outs fire, ticks come, and the controller sends the committee with
\* every root-chain block.  Nothing obliges a link to break or the book to offer a peer.
Fairness ==
  /\ \A p \in Pairs : /\ WF_vars(DialWithBackoff(p[1], p[2]))
                      /\ WF_vars(DialFailedPeers(p[1], p[2]))
                      /\ WF_vars(ForgetFailed(p[1], p[2]))
  /\ \A n \in Nodes : WF_vars(UpdateMustConnects(n))
  /\ \A c \in ConnIds, n \in Nodes : WF_vars(c \in Used /\ n \in Ends(c) /\ ConnStep(c, n))

Spec == Init /\ [][Next]_vars /\ Fairness

-----------------------------------------------------------------------------
(* Properties                                                                *)

\* The state is well formed: a peer's connection joins the two nodes.
TypeOK ==
  /\ conns \in [ConnIds -> Connection \union {None}]
  /\ \A d \in {DOMAIN peers, DOMAIN dialing, DOMAIN failedPeers, DOMAIN forgetting} : d = Nodes
  /\ \A n \in Nodes : /\ peers[n] \in [Nodes \ {n} -> ConnIds \union {None}]
                      /\ dialing[n] \in [Nodes \ {n} -> 0 .. MaxBackoffs]
                      /\ failedPeers[n] \union forgetting[n] \subseteq Nodes \ {n}
  /\ \A p \in Pairs : Has(p[1], p[2]) => /\ peers[p[1]][p[2]] \in Used
                                         /\ Ends(peers[p[1]][p[2]]) = {p[1], p[2]}
  /\ faults \in 0 .. MaxFaults

\* What a peer set holds is in use or on its way out: the connection was added at this end,
\* is not stopped, and if it had an error the callback that removes it is still to come
\* (AddPeer checks hasError and Error sets it under the same lock).
PeersAlive ==
  \A p \in Pairs : LET c == peers[p[1]][p[2]]
                   IN  c # None => /\ End(c, p[1]).stage = "done" /\ End(c, p[1]).open
                                   /\ End(c, p[1]).error \in {"no", "marked"}

\* No connection leaks: one that AddPeer is through with is in the peer set, has had an
\* error, or is stopped; nothing else would close it or send over it.
NoneLeaked ==
  \A c \in Used : \A n \in Ends(c) :
    End(c, n).stage = "done" /\ End(c, n).open /\ End(c, n).error = "no"
      => peers[n][Remote(c, n)] = c

\* Simultaneous dials converge: while nothing fails, the two nodes never keep one session
\* each that the other has stopped, so that both would be dropped.
DuplicatesConverge ==
  \A p \in Pairs : LET c == peers[p[1]][p[2]]
                       d == peers[p[2]][p[1]]
                   IN  c # None /\ d # None /\ c # d /\ faults = 0
                         => End(c, p[2]).open \/ End(d, p[1]).open

\* n and m keep the same sound session.
Joined(n, m) ==
  LET c == peers[n][m]
  IN  /\ c # None /\ peers[m][n] = c /\ ~conns[c].broken
      /\ \A x \in {n, m} : End(c, x).open /\ End(c, x).error = "no"

\* Once links hold and nodes stay up, members of a committee find each other and stay
\* connected, whatever duplicates, late errors and stale entries of failedPeers are left.
EventuallyConnected == \A p \in Pairs : <>[]Joined(p[1], p[2])

\* An end that AddPeer is not through with is open, unless an error has closed it.
OpenUntilAdded ==
  \A c \in Used : \A n \in Ends(c) :
    End(c, n).stage # "done" => End(c, n).open \/ End(c, n).error = "over"

\* The DialWithBackoff goroutines of a node for one peer, waiting or dialing.
BackoffsBounded ==
  \A p \in Pairs : dialing[p[1]][p[2]] + Cardinality(Backoffs(p[1], p[2])) <= MaxBackoffs

\* Every session is accounted for at each end, whatever duplicates, errors and late
\* callbacks came: the peer set holds live ones, and the others are stopped or have failed
\* (AddPeer, OnPeerError).
SessionsTracked ==
  TypeOK /\ OpenUntilAdded /\ BackoffsBounded /\ PeersAlive /\ NoneLeaked
=============================================================================
