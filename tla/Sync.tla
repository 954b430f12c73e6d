-------------------------------- MODULE Sync --------------------------------
(***************************************************************************)
(* How a node follows the chain: the Sync goroutine downloads blocks from  *)
(* its peers and then hands the Block inbox to the ListenForBlock          *)
(* goroutine, which commits gossiped blocks and starts Sync again when the *)
(* node has fallen behind.  Both reset the consensus loop through a        *)
(* buffered channel while they hold the controller's lock, which the loop  *)
(* takes for whatever it receives; root chain updates use the same channel *)
(* without the lock.                                                       *)
(*                                                                         *)
(* A block is its height: the blocks of one chain are all there is to      *)
(* download, from peers that answer or do not.  The VDF iterations a peer  *)
(* reports grow with its height and select nothing among such peers.       *)
(* ChangeReputation has an empty body (p2p/set.go) and is left out.        *)
(***************************************************************************)
EXTENDS Integers, Sequences, FiniteSets, FiniteSetsExt, Functions

CONSTANTS
  Peers,            \* the peers that answer and gossip
  PeerCount,        \* P2P.PeerCount(): those and the silent ones
  Alone,            \* whether this node is the only validator and has no checkpoints
  Top,              \* bound: the height at which the model stops looking at the chain
  FirstHeights,     \* heights the peers may have when the node starts
  QueueSize,        \* blockSyncQueueSize
  ReqPerWindow,     \* MaxBlockReqPerWindow
  InboxSize,        \* maxInboxQueueSize
  ResetCapacity,    \* capacity of the ResetBFT channel
  MaxRootUpdates,   \* bound: root chain updates that come before the loop is idle again
  MaxFaults,        \* bound: losses, refusals and timeouts that come too early
  Nil

ASSUME SyncAssumption ==
  /\ IsFiniteSet(Peers) /\ PeerCount >= Cardinality(Peers)
  /\ Alone \in BOOLEAN
  /\ {Top, QueueSize, ReqPerWindow, InboxSize, ResetCapacity} \subseteq Nat \ {0}
  /\ {MaxRootUpdates, MaxFaults} \subseteq Nat
  /\ FirstHeights \subseteq 1 .. Top

\* The channel holds 100 resets (bft.New): far more than the blocks a root chain
\* produces while the loop handles what it has received.
ASSUME RootChainAssumption == MaxRootUpdates < ResetCapacity

VARIABLES
  height,      \* FSM.Height(): the height of the next block
  peerHeight,  \* the same of each peer
  requests,    \* block requests <<peer, height>> on their way; height 0 asks for the height only
  inbox,       \* the Block inbox
  syncer,      \* where the Sync goroutine is
  listening,   \* whether the ListenForBlock goroutine runs
  isSyncing,   \* the flag the rest of the node reads
  queue,       \* Sync: requested height -> the request and its answer
  maxHeight,   \* Sync: the height to reach, -1 before any peer has answered
  sent,        \* Sync: limiter, requests sent to each peer in this window
  cache,       \* ListenForBlock: the contents of messages already seen
  tracker,     \* ListenForBlock: who showed which block above our height
  resets,      \* the number of resets in the ResetBFT channel
  updates,     \* root chain updates since the loop was idle
  loop,        \* what the consensus loop has received and wants the lock for
  overtaken,   \* another thread took the lock since the loop began to wait for it
  sender,      \* the thread that found the channel full and holds the lock; the loop, its reader, waits for it
  bftHeight,   \* the height of the consensus view
  faults       \* faults that may still happen

chain == <<height, peerHeight, requests, inbox>>
syncing == <<syncer, queue, maxHeight, sent>>
listener == <<listening, cache, tracker>>
threads == <<resets, updates, loop, overtaken, sender, bftHeight>>
vars == <<chain, syncing, isSyncing, listener, threads, faults>>

Heights == 1 .. Top
NoTracker == [peers |-> {}, blocks |-> {}]
Empty == [h \in {} |-> Nil]
NothingSent == [p \in Peers |-> 0]

\* A Block message: an answer carries the height of its sender, gossip carries none.
Message(p, h, max) == [from |-> p, height |-> h, max |-> max]
Content(m) == <<m.height, m.max>>

Fault == faults > 0 /\ faults' = faults - 1

-----------------------------------------------------------------------------
(* The lock and the channel.  A waiter that has been overtaken is next: Go
   hands a mutex to a goroutine that has waited for a millisecond, and every
   section below is longer. *)

LockFree == sender = Nil /\ ~overtaken

\* Wrong: a buffer for one reset.
HasRoomForOne == loop = "select" \/ resets < 1

\* A send goes straight to a loop that waits in its select, or else to the buffer.
HasRoom == loop = "select" \/ resets < ResetCapacity

SendReset ==
  IF loop = "select"
  THEN loop' = "reset" /\ UNCHANGED resets
  ELSE resets' = resets + 1 /\ UNCHANGED loop

\* UpdateRootChainInfo() of the thread that follows the root chain: no lock.
UpdateRootChainInfo ==
  /\ HasRoom
  /\ updates < MaxRootUpdates
  /\ updates' = updates + 1
  /\ SendReset
  /\ UNCHANGED <<chain, syncing, isSyncing, listener, overtaken, sender, bftHeight, faults>>

\* BFT.Start(): the phase timer fires while the loop waits in its select.
PhaseTimer ==
  /\ loop = "select"
  /\ loop' = "timer"
  /\ UNCHANGED <<chain, syncing, isSyncing, listener, resets, updates, overtaken, sender, bftHeight, faults>>

\* BFT.Start(): the loop has the lock, handles what it received (NewHeight
\* reads the height of the chain), and is back in its select.
HandleReceived ==
  /\ loop # "select" /\ sender = Nil
  /\ bftHeight' = IF loop = "reset" THEN height ELSE bftHeight
  /\ IF resets = 0
     THEN loop' = "select" /\ updates' = 0 /\ UNCHANGED resets
     ELSE loop' = "reset" /\ resets' = resets - 1 /\ UNCHANGED updates
  /\ overtaken' = FALSE
  /\ UNCHANGED <<chain, syncing, isSyncing, listener, sender, faults>>

-----------------------------------------------------------------------------
(* Peers, links and the inbox. *)

\* A full inbox is drained and the message that found it full is lost with the rest.
Deliver(m) ==
  IF Len(inbox) < InboxSize
  THEN inbox' = Append(inbox, m) /\ UNCHANGED faults
  ELSE inbox' = <<>> /\ Fault

\* A peer commits its next block and gossips it.
PeerCommit(p) ==
  /\ peerHeight[p] < Top
  /\ peerHeight' = [peerHeight EXCEPT ![p] = @ + 1]
  /\ Deliver(Message(p, peerHeight[p], 0))
  /\ UNCHANGED <<height, requests, syncing, isSyncing, listener, threads>>

\* Beyond Top the chain goes on: every block there is one message of height
\* Top.  Blocks are further apart than the polls and timeouts of Sync, so
\* such a message finds the links quiet and the requests without an answer late.
GossipBeyond(p) ==
  /\ peerHeight[p] = Top /\ height < Top
  /\ inbox = <<>> /\ requests = {}
  /\ \/ listening
     \/ syncer = "loop" /\ \E h \in DOMAIN queue : queue[h].late
  /\ Deliver(Message(p, Top, 0))
  /\ UNCHANGED <<height, peerHeight, requests, syncing, isSyncing, listener, threads>>

PeerCommitUnheard(p) ==
  /\ peerHeight[p] < Top
  /\ peerHeight' = [peerHeight EXCEPT ![p] = @ + 1]
  /\ Fault
  /\ UNCHANGED <<height, requests, inbox, syncing, isSyncing, listener, threads>>

\* ListenForBlockRequests() at a peer: no answer for a block it does not have.
Serve(p, h) ==
  /\ <<p, h>> \in requests
  /\ requests' = requests \ {<<p, h>>}
  /\ IF h < peerHeight[p]
     THEN Deliver(Message(p, h, peerHeight[p]))
     ELSE UNCHANGED <<inbox, faults>>
  /\ UNCHANGED <<height, peerHeight, syncing, isSyncing, listener, threads>>

\* The request or its answer is lost, or the peer's own limiter refuses it.
Lose(r) ==
  /\ r \in requests
  /\ requests' = requests \ {r}
  /\ Fault
  /\ UNCHANGED <<height, peerHeight, inbox, syncing, isSyncing, listener, threads>>

-----------------------------------------------------------------------------
(* The Sync goroutine. *)

\* emptyInbox() and RequestBlock(true) at the start of pollMaxHeight().
Poll ==
  /\ syncer' = "poll" /\ maxHeight' = -1
  /\ inbox' = <<>>
  /\ requests' = requests \union (Peers \X {0})

\* Sync() up to its first wait; singleNodeNetwork() needs the lock.
StartSync ==
  /\ syncer = "start" /\ LockFree
  /\ isSyncing' = TRUE
  /\ overtaken' = (loop # "select")
  /\ queue' = Empty /\ sent' = NothingSent
  /\ IF Alone
     THEN syncer' = "finish" /\ UNCHANGED <<maxHeight, inbox, requests>>
     ELSE Poll
  /\ UNCHANGED <<height, peerHeight, listener, resets, updates, loop, sender, bftHeight, faults>>

\* pollMaxHeight() takes whatever is in the inbox; gossip reports height 0.
ReceiveHeight ==
  /\ syncer = "poll" /\ inbox # <<>>
  /\ maxHeight' = Max({maxHeight, Head(inbox).max})
  /\ inbox' = Tail(inbox)
  /\ UNCHANGED <<height, peerHeight, requests, syncer, queue, sent, isSyncing, listener,
                 threads, faults>>

\* No message for the time of the poll: go on with the best height, or poll again.
PollTimeout ==
  /\ syncer = "poll" /\ inbox = <<>>
  /\ IF requests \intersect (Peers \X {0}) # {} THEN Fault ELSE UNCHANGED faults
  /\ IF maxHeight = -1
     THEN Poll
     ELSE syncer' = "loop" /\ UNCHANGED <<maxHeight, inbox, requests>>
  /\ UNCHANGED <<height, peerHeight, queue, sent, isSyncing, listener, threads>>

InLoop == syncer = "loop" /\ height < maxHeight

\* SimpleLimiter.Reset() at the end of its window.
ResetLimiter ==
  /\ InLoop
  /\ sent # NothingSent
  /\ sent' = NothingSent
  /\ UNCHANGED <<chain, syncer, queue, maxHeight, isSyncing, listener, threads, faults>>

Requested(p) == [peer |-> p, answer |-> Nil, late |-> FALSE]

\* The heights of a tick's window that have no request.
Missing ==
  {h \in height .. Min({height + QueueSize, maxHeight}) - 1 : h \notin DOMAIN queue}

\* NewRequest(): a peer is blocked once it has its requests of this window.
WithinLimit(count) == \A p \in Peers : count[p] <= ReqPerWindow

\* getRandomAllowedPeer() finds no peer.
NoneAllowed(count) == \A p \in Peers : count[p] >= ReqPerWindow

\* sendBlockRequests(): the lowest missing heights, each to any peer that is
\* allowed, until no peer is.
SendBlockRequests ==
  /\ InLoop
  /\ \E asked \in SUBSET Missing \ {{}} : \E to \in [asked -> Peers] :
       LET count == [p \in Peers |-> sent[p] + Cardinality({h \in asked : to[h] = p})]
       IN /\ \A a \in asked, h \in Missing \ asked : a < h
          /\ WithinLimit(count)
          /\ asked # Missing => NoneAllowed(count)
          /\ sent' = count
          /\ queue' = [h \in DOMAIN queue \union asked |->
                         IF h \in asked THEN Requested(to[h]) ELSE queue[h]]
          /\ requests' = requests \union {<<to[h], h>> : h \in asked}
  /\ UNCHANGED <<height, peerHeight, inbox, syncer, maxHeight, isSyncing, listener, threads, faults>>

\* verifyResponse(): the height is in the queue and its sender was asked.
VerifyResponse(m) == m.height \in DOMAIN queue /\ queue[m.height].peer = m.from

WithAnswer(m) ==
  [h \in DOMAIN queue \union {m.height} |->
     IF h = m.height THEN [Requested(m.from) EXCEPT !.answer = m.max,
                                                    !.late = h \in DOMAIN queue /\ queue[h].late]
     ELSE queue[h]]

\* The answered heights that follow the chain without a gap.
Ready(q) ==
  {h \in height .. maxHeight - 1 :
     \A g \in height .. h : g \in DOMAIN q /\ q[g].answer # Nil}

\* processQueue() deletes what it hands to the state machine.
Remaining(q, done) == Restrict(q, DOMAIN q \ done)

\* Wrong: a timed out request keeps its place in the queue.
WithoutExpiredNone(q) == q

\* applyTimeouts(), answered or not.
WithoutExpired(q) == Restrict(q, {h \in DOMAIN q : ~q[h].late})

\* One message of the loop: verifyResponse(), processQueue(), the new target and applyTimeouts().
\* HandlePeerBlock(syncing) fails on a fault (no checkpoint from the root chain):
\* the block leaves the queue and the heights above it wait.
ReceiveBlock ==
  LET m == Head(inbox)
      answered == IF VerifyResponse(m) THEN WithAnswer(m) ELSE queue
      ready == Ready(answered)
  IN
  /\ InLoop /\ inbox # <<>>
  /\ ready # {} => LockFree
  /\ inbox' = Tail(inbox)
  /\ \/ /\ height' = height + Cardinality(ready)
        /\ maxHeight' = Max({maxHeight} \union {answered[h].answer : h \in ready})
        /\ queue' = WithoutExpired(Remaining(answered, ready))
        /\ UNCHANGED faults
     \/ /\ ready # {} /\ Fault
        /\ queue' = WithoutExpired(Remaining(answered, {height}))
        /\ UNCHANGED <<height, maxHeight>>
  /\ overtaken' = IF ready = {} THEN overtaken ELSE loop # "select"
  /\ UNCHANGED <<peerHeight, requests, syncer, sent, isSyncing, listener, resets, updates,
                 loop, sender, bftHeight>>

\* blockRequestTimeout passes for a request that nothing will answer ...
Expire(h) ==
  /\ InLoop
  /\ h \in DOMAIN queue /\ ~queue[h].late /\ queue[h].answer = Nil
  /\ <<queue[h].peer, h>> \notin requests
  /\ \A i \in DOMAIN inbox : inbox[i].from # queue[h].peer \/ inbox[i].height # h
  /\ queue' = [queue EXCEPT ![h].late = TRUE]
  /\ UNCHANGED <<chain, syncer, maxHeight, sent, isSyncing, listener, threads, faults>>

\* ... or for one whose answer comes late, or waits for the blocks below it.
ExpireEarly(h) ==
  /\ InLoop
  /\ h \in DOMAIN queue /\ ~queue[h].late
  /\ Fault
  /\ queue' = [queue EXCEPT ![h].late = TRUE]
  /\ UNCHANGED <<chain, syncer, maxHeight, sent, isSyncing, listener, threads>>

\* syncingDone()
LeaveLoop ==
  /\ syncer = "loop" /\ ~InLoop
  /\ syncer' = "finish"
  /\ UNCHANGED <<chain, queue, maxHeight, sent, isSyncing, listener, threads, faults>>

\* The rest of finishSyncing() once its reset is sent; Sync() and its variables are gone.
HandOver ==
  /\ isSyncing' = FALSE /\ syncer' = "off"
  /\ queue' = Empty /\ maxHeight' = -1 /\ sent' = NothingSent
  /\ listening' = TRUE /\ cache' = {} /\ tracker' = NoTracker

\* finishSyncing(), or its block on a full channel.
FinishSyncing ==
  /\ syncer = "finish" /\ LockFree
  /\ overtaken' = (loop # "select")
  /\ IF HasRoom
     THEN SendReset /\ HandOver /\ UNCHANGED sender
     ELSE sender' = "sync" /\ UNCHANGED <<resets, loop, isSyncing, syncing, listener>>
  /\ UNCHANGED <<chain, updates, bftHeight, faults>>

-----------------------------------------------------------------------------
(* The ListenForBlock goroutine. *)

\* Wrong: the listener goes on after it has started Sync.
NotedGoesOn(m) ==
  LET seen == tracker.peers \union {<<m.from, m.height>>}
  IN IF 3 * Cardinality(seen) >= PeerCount
     THEN tracker' = NoTracker /\ syncer' = "start" /\ UNCHANGED listening
     ELSE /\ tracker' = [peers |-> seen, blocks |-> tracker.blocks \union {Content(m)}]
          /\ UNCHANGED <<syncer, listening>>

\* NewHeightTracker.Add(): a third of the peers start Sync, and the listener quits.
Noted(m) ==
  LET seen == tracker.peers \union {<<m.from, m.height>>}
  IN IF 3 * Cardinality(seen) >= PeerCount
     THEN tracker' = NoTracker /\ syncer' = "start" /\ listening' = FALSE
     ELSE /\ tracker' = [peers |-> seen, blocks |-> tracker.blocks \union {Content(m)}]
          /\ UNCHANGED <<syncer, listening>>

\* AddIfHas() of a message seen before.
Seen(m) ==
  IF Content(m) \in tracker.blocks
  THEN Noted(m)
  ELSE UNCHANGED <<tracker, syncer, listening>>

\* Wrong: a committed block does not reset the consensus loop.
CommitReceivedSilently ==
  /\ height' = height + 1
  /\ tracker' = NoTracker
  /\ UNCHANGED <<resets, loop, sender>>

\* The block at our height is committed, the loop is reset and the tracker cleared.
CommitReceived ==
  /\ height' = height + 1
  /\ IF isSyncing
     THEN tracker' = NoTracker /\ UNCHANGED <<resets, loop, sender>>
     ELSE IF HasRoom
          THEN SendReset /\ tracker' = NoTracker /\ UNCHANGED sender
          ELSE sender' = "listen" /\ UNCHANGED <<resets, loop, tracker>>

\* One message; the blocks at Top and above are not committed in the model.
\* On a fault HandlePeerBlock() fails, and the cache keeps the message all the same.
ListenForBlock ==
  LET m == Head(inbox)
      new == Content(m) \notin cache
  IN
  /\ listening /\ inbox # <<>>
  /\ LockFree
  /\ inbox' = Tail(inbox)
  /\ overtaken' = (loop # "select")
  /\ cache' = IF m.height < Top THEN cache \union {Content(m)} ELSE cache
  /\ \/ /\ new /\ m.height = height /\ height < Top
        /\ CommitReceived
        /\ UNCHANGED <<listening, syncer, faults>>
     \/ /\ new /\ m.height = height /\ height < Top
        /\ Fault
        /\ UNCHANGED <<height, listening, tracker, syncer, resets, loop, sender>>
     \/ /\ new /\ m.height > height
        /\ Noted(m)
        /\ UNCHANGED <<height, resets, loop, sender, faults>>
     \/ /\ ~new
        /\ Seen(m)
        /\ UNCHANGED <<height, resets, loop, sender, faults>>
     \/ /\ new /\ m.height < height
        /\ UNCHANGED <<height, listening, tracker, syncer, resets, loop, sender, faults>>
     \/ /\ m.height = Top /\ height = Top
        /\ UNCHANGED <<height, listening, tracker, syncer, resets, loop, sender, faults>>
  /\ UNCHANGED <<peerHeight, requests, queue, maxHeight, sent, isSyncing, updates, bftHeight>>

-----------------------------------------------------------------------------

Init ==
  /\ height = 1 /\ peerHeight \in [Peers -> FirstHeights]
  /\ requests = {} /\ inbox = <<>>
  /\ syncer = "start" /\ listening = FALSE /\ isSyncing = FALSE
  /\ queue = Empty /\ maxHeight = -1 /\ sent = NothingSent
  /\ cache = {} /\ tracker = NoTracker
  /\ resets = 0 /\ updates = 0 /\ loop = "select" /\ overtaken = FALSE /\ sender = Nil
  /\ bftHeight = 0 /\ faults = MaxFaults

Next ==
  \/ UpdateRootChainInfo \/ PhaseTimer \/ HandleReceived
  \/ \E p \in Peers : PeerCommit(p) \/ PeerCommitUnheard(p) \/ GossipBeyond(p)
                   \/ \E h \in 0 .. Top : Serve(p, h)
  \/ \E r \in requests : Lose(r)
  \/ StartSync \/ ReceiveHeight \/ PollTimeout
  \/ ResetLimiter \/ SendBlockRequests \/ ReceiveBlock
  \/ \E h \in Heights : Expire(h) \/ ExpireEarly(h)
  \/ LeaveLoop \/ FinishSyncing \/ ListenForBlock

\* Every goroutine runs, every timer fires, a request that is not lost is
\* served, and the peers go on producing blocks; no fault has to happen.
Fairness ==
  /\ WF_vars(HandleReceived)
  /\ \A p \in Peers : WF_vars(PeerCommit(p)) /\ SF_vars(GossipBeyond(p))
  /\ \A p \in Peers : \A h \in 0 .. Top : WF_vars(Serve(p, h))
  /\ WF_vars(StartSync) /\ WF_vars(ReceiveHeight) /\ WF_vars(PollTimeout)
  /\ WF_vars(ResetLimiter) /\ WF_vars(SendBlockRequests) /\ WF_vars(ReceiveBlock)
  /\ \A h \in Heights : WF_vars(Expire(h))
  /\ WF_vars(LeaveLoop) /\ WF_vars(FinishSyncing) /\ WF_vars(ListenForBlock)

Spec == Init /\ [][Next]_vars /\ Fairness

-----------------------------------------------------------------------------

\* The state is well formed; the queue holds only heights of blocks.
TypeOK ==
  /\ height \in Heights /\ peerHeight \in [Peers -> Heights]
  /\ requests \subseteq Peers \X (0 .. Top)
  /\ inbox \in Seq([from : Peers, height : 0 .. Top, max : 0 .. Top])
  /\ Len(inbox) <= InboxSize
  /\ syncer \in {"off", "start", "poll", "loop", "finish"}
  /\ listening \in BOOLEAN /\ isSyncing \in BOOLEAN
  /\ DOMAIN queue \subseteq Heights
  /\ \A h \in DOMAIN queue :
       queue[h] \in [peer : Peers, answer : 0 .. Top \union {Nil}, late : BOOLEAN]
  /\ maxHeight \in -1 .. Top /\ sent \in [Peers -> 0 .. ReqPerWindow]
  /\ cache \subseteq (0 .. Top) \X (0 .. Top)
  /\ tracker \in [peers : SUBSET (Peers \X Heights), blocks : SUBSET (Heights \X (0 .. Top))]
  /\ resets \in 0 .. ResetCapacity /\ updates \in 0 .. MaxRootUpdates
  /\ loop \in {"select", "timer", "reset"} /\ overtaken \in BOOLEAN
  /\ sender \in {Nil, "sync", "listen"}
  /\ bftHeight \in 0 .. Top /\ faults \in 0 .. MaxFaults

\* At every moment exactly one of Sync and ListenForBlock reads the Block
\* inbox, through every start and end of a synchronisation, and a node that
\* calls itself syncing does not also commit gossip.
OneReader ==
  /\ listening # (syncer # "off")
  /\ isSyncing => ~listening

\* Whatever is answered late, twice or by a peer no longer asked, Sync never
\* keeps a place in its queue for a block the chain already has, nor more
\* places than blockSyncQueueSize.
QueueAhead ==
  syncer = "loop" =>
    DOMAIN queue \subseteq height .. Min({height + QueueSize, maxHeight}) - 1

\* No thread finds the ResetBFT channel full while it holds the controller's
\* lock (finishSyncing, ListenForBlock): the only reader of the channel, the
\* consensus loop, would be waiting for that lock, and both would wait forever.
NoCircularWait == sender = Nil

\* When the consensus loop of a node that is in sync has nothing left to
\* handle, its view is at the height of the chain: no commit, by the listener
\* or by a synchronisation, goes by without the reset that tells it.
LoopFollowsChain ==
  listening /\ loop = "select" => bftHeight = height

\* The node reaches every height its peers have reached, from any moment at
\* which it starts, in spite of lost and late answers, lost gossip and blocks
\* that could not be committed at the first attempt.
CatchesUp == <>(height = Top)

-----------------------------------------------------------------------------
(* The inductive invariant behind these properties. *)

\* A poll begins with an empty queue.
PollStartsEmpty == syncer = "poll" => DOMAIN queue = {}

\* Between two turns of the consensus loop at most one thread that holds the lock adds
\* a reset to the channel; all others there are from root chain updates.
ResetsBounded ==
  /\ loop = "select" => resets = 0 /\ ~overtaken
  /\ resets <= updates + (IF overtaken THEN 1 ELSE 0)

\* A height the consensus loop has not seen has a reset on its way to it.
ResetPending == listening => bftHeight = height \/ loop = "reset" \/ resets > 0

\* Sync and ListenForBlock divide the work: the state is well formed, one of them reads the
\* inbox, whatever is answered late, twice or by a peer no longer asked, the queue
\* holds nothing the chain already has, and the resets they send fit into the channel.
SyncInv ==
  /\ TypeOK /\ OneReader
  /\ QueueAhead /\ PollStartsEmpty
  /\ ResetsBounded /\ ResetPending /\ NoCircularWait
=============================================================================
