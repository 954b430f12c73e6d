----------------------------- MODULE SyncProofs -----------------------------
(***************************************************************************)
(* The hand-over of the Block inbox between Sync and ListenForBlock, the   *)
(* queue of Sync and the ResetBFT channel, for any peers, any heights, any *)
(* sizes of queue, inbox and channel and any faults.                       *)
(***************************************************************************)
EXTENDS Sync, FiniteSetTheorems, WellFoundedInduction, TLAPS

BlockMessage == [from : Peers, height : 0 .. Top, max : 0 .. Top]
QueueEntry == [peer : Peers, answer : 0 .. Top \union {Nil}, late : BOOLEAN]

-----------------------------------------------------------------------------
(* Operators of the library. *)

\* A set of numbers with an upper bound has its maximum.
LEMMA MaxOfBounded ==
  ASSUME NEW b \in Int, NEW S, S \subseteq Int, S # {}, \A x \in S : x <= b
  PROVE  Max(S) \in S /\ \A y \in S : Max(S) >= y
<1> DEFINE Below == {b - x : x \in S}
<1>1. Below \subseteq Nat /\ Below # {}
  <2>1. \A x \in S : b - x \in Nat
    OBVIOUS
  <2>2. PICK x \in S : TRUE
    OBVIOUS
  <2>3. b - x \in Below
    BY <2>2
  <2> QED
    BY <2>1, <2>3
<1>2. \E d \in Below : \A e \in Below : ~(<<e, d>> \in OpToRel(<, Nat))
  BY <1>1, NatLessThanWellFounded, WFMin
<1>3. PICK d \in Below : \A e \in Below : ~(<<e, d>> \in OpToRel(<, Nat))
  BY <1>2
<1>4. \A e \in Below : ~(e < d)
  BY <1>1, <1>3 DEF OpToRel
<1>5. PICK m \in S : d = b - m
  BY <1>3
<1>6. \A y \in S : m >= y
  BY <1>4, <1>5
<1> QED
  BY <1>5, <1>6 DEF Max

\* The minimum of two numbers.
LEMMA MinOfTwo ==
  ASSUME NEW a \in Int, NEW b \in Int
  PROVE  Min({a, b}) = IF a <= b THEN a ELSE b
<1>1. \A x \in {a, b} : (\A y \in {a, b} : x <= y) <=> x = IF a <= b THEN a ELSE b
  OBVIOUS
<1>2. (IF a <= b THEN a ELSE b) \in {a, b}
  OBVIOUS
<1> QED
  BY <1>1, <1>2 DEF Min

\* A window of w heights that starts at a and ends before b keeps what it holds from a2 on
\* when it moves up to a2 and b2.
LEMMA WindowMoves ==
  ASSUME NEW a \in Int, NEW b \in Int, NEW w \in Int, NEW a2 \in Int, NEW b2 \in Int,
         a <= a2, b <= b2, NEW h \in a .. Min({a + w, b}) - 1, a2 <= h
  PROVE  h \in a2 .. Min({a2 + w, b2}) - 1
<1>1. Min({a + w, b}) = IF a + w <= b THEN a + w ELSE b
  BY MinOfTwo
<1>2. Min({a2 + w, b2}) = IF a2 + w <= b2 THEN a2 + w ELSE b2
  BY MinOfTwo
<1> QED
  BY <1>1, <1>2

(* The assumptions on the constants, together. *)
LEMMA ConstantTypes ==
  /\ Top \in Nat \ {0} /\ QueueSize \in Nat \ {0} /\ ReqPerWindow \in Nat \ {0}
  /\ InboxSize \in Nat \ {0} /\ ResetCapacity \in Nat \ {0}
  /\ MaxRootUpdates \in Nat /\ MaxFaults \in Nat /\ MaxRootUpdates < ResetCapacity
  /\ FirstHeights \subseteq 1 .. Top
BY SyncAssumption, RootChainAssumption

-----------------------------------------------------------------------------
(* The lock and the channel. *)

\* The parts of the invariant that the channel and the lock are in.
ChannelTypeOK ==
  /\ resets \in 0 .. ResetCapacity /\ updates \in 0 .. MaxRootUpdates
  /\ loop \in {"select", "timer", "reset"} /\ overtaken \in BOOLEAN

\* A thread that finds the lock free finds room in the channel, and its reset keeps to
\* the bound.
LEMMA LockedSend ==
  ASSUME ChannelTypeOK, ResetsBounded, LockFree
  PROVE  /\ HasRoom
         /\ SendReset /\ overtaken' = (loop # "select") /\ updates' = updates
              => ChannelTypeOK' /\ ResetsBounded' /\ (loop' = "reset" \/ resets' > 0)
<1>1. resets \in Nat /\ updates \in Nat /\ resets <= updates /\ updates < ResetCapacity
  BY ConstantTypes DEF ChannelTypeOK, ResetsBounded, LockFree
<1>2. HasRoom
  BY <1>1, ConstantTypes DEF HasRoom
<1>3. ASSUME SendReset, overtaken' = (loop # "select"), updates' = updates
      PROVE  ChannelTypeOK' /\ ResetsBounded' /\ (loop' = "reset" \/ resets' > 0)
  <2>1. CASE loop = "select"
    BY <1>1, <1>3, <2>1, ConstantTypes DEF ChannelTypeOK, ResetsBounded, SendReset
  <2>2. CASE loop # "select"
    <3>1. resets' = resets + 1 /\ loop' = loop /\ overtaken' = TRUE
      BY <1>3, <2>2 DEF SendReset
    <3> QED
      BY <1>1, <1>3, <2>2, <3>1, ConstantTypes DEF ChannelTypeOK, ResetsBounded
  <2> QED
    BY <2>1, <2>2
<1> QED
  BY <1>2, <1>3

\* Taking the lock without a reset.
LEMMA LockedNoSend ==
  ASSUME ChannelTypeOK, ResetsBounded, LockFree,
         overtaken' = (loop # "select"), UNCHANGED <<resets, updates, loop>>
  PROVE  ChannelTypeOK' /\ ResetsBounded'
BY ConstantTypes DEF ChannelTypeOK, ResetsBounded, LockFree

\* A root chain update, with or without the lock taken.
LEMMA UpdateKeepsBound ==
  ASSUME ChannelTypeOK, ResetsBounded, HasRoom, updates < MaxRootUpdates,
         updates' = updates + 1, SendReset, overtaken' = overtaken
  PROVE  ChannelTypeOK' /\ ResetsBounded' /\ (loop' = "reset" \/ resets' > 0)
BY ConstantTypes DEF ChannelTypeOK, ResetsBounded, HasRoom, SendReset

\* A turn of the consensus loop.
LEMMA TurnKeepsBound ==
  ASSUME ChannelTypeOK, ResetsBounded, HandleReceived
  PROVE  ChannelTypeOK' /\ ResetsBounded'
<1>1. resets \in Nat /\ updates \in Nat /\ resets <= updates + 1
  BY ConstantTypes DEF ChannelTypeOK, ResetsBounded
<1>2. overtaken' \in BOOLEAN /\ ~overtaken'
  BY DEF HandleReceived
<1>3. CASE resets = 0
  <2>1. loop' = "select" /\ updates' = 0 /\ resets' = 0
    BY <1>3 DEF HandleReceived
  <2>2. ResetsBounded'
    BY <1>2, <2>1 DEF ResetsBounded
  <2> QED
    BY <1>2, <2>1, <2>2, ConstantTypes DEF ChannelTypeOK
<1>4. CASE resets # 0
  <2>1. loop' = "reset" /\ updates' = updates /\ resets' = resets - 1
    BY <1>4 DEF HandleReceived
  <2>2. resets' \in 0 .. ResetCapacity /\ resets' <= updates'
    BY <1>1, <1>4, <2>1, ConstantTypes DEF ChannelTypeOK
  <2>3. ResetsBounded'
    BY <1>1, <1>2, <2>1, <2>2 DEF ResetsBounded
  <2> QED
    BY <1>2, <2>1, <2>2, <2>3, ConstantTypes DEF ChannelTypeOK
<1> QED
  BY <1>3, <1>4

(* A turn of the consensus loop uses a reset up only when it starts the
   height the chain has. *)
LEMMA TurnKeepsPending ==
  ASSUME ChannelTypeOK, ResetPending, HandleReceived
  PROVE  ResetPending'
BY ConstantTypes DEF ChannelTypeOK, ResetPending, HandleReceived, chain, listener

-----------------------------------------------------------------------------
(* The invariant in the parts that a step changes together. *)

ChainTypeOK ==
  /\ height \in Heights /\ peerHeight \in [Peers -> Heights]
  /\ requests \subseteq Peers \X (0 .. Top)
  /\ inbox \in Seq(BlockMessage) /\ Len(inbox) <= InboxSize

SyncingTypeOK ==
  /\ syncer \in {"off", "start", "poll", "loop", "finish"} /\ isSyncing \in BOOLEAN
  /\ DOMAIN queue \subseteq Heights /\ \A h \in DOMAIN queue : queue[h] \in QueueEntry
  /\ maxHeight \in -1 .. Top /\ sent \in [Peers -> 0 .. ReqPerWindow]

ListenerTypeOK ==
  /\ listening \in BOOLEAN
  /\ cache \subseteq (0 .. Top) \X (0 .. Top)
  /\ tracker \in [peers : SUBSET (Peers \X Heights), blocks : SUBSET (Heights \X (0 .. Top))]

LoopTypeOK ==
  ChannelTypeOK /\ bftHeight \in 0 .. Top /\ sender = Nil /\ faults \in 0 .. MaxFaults

(* The invariant as the parts the steps disturb separately. *)
LEMMA InvParts ==
  SyncInv <=> /\ ChainTypeOK /\ SyncingTypeOK /\ ListenerTypeOK /\ LoopTypeOK
              /\ OneReader /\ QueueAhead /\ PollStartsEmpty /\ ResetsBounded /\ ResetPending
BY DEF SyncInv, TypeOK, ChainTypeOK, SyncingTypeOK, ListenerTypeOK, LoopTypeOK, ChannelTypeOK,
       NoCircularWait, BlockMessage, QueueEntry

(* The same of the next state. *)
LEMMA InvPartsNext ==
  ASSUME ChainTypeOK', SyncingTypeOK', ListenerTypeOK', LoopTypeOK',
         OneReader', QueueAhead', PollStartsEmpty', ResetsBounded', ResetPending'
  PROVE  SyncInv'
BY DEF SyncInv, TypeOK, ChainTypeOK, SyncingTypeOK, ListenerTypeOK, LoopTypeOK, ChannelTypeOK,
       NoCircularWait, BlockMessage, QueueEntry

\* The parts stay as they are when their variables do.
LEMMA ChainUnchanged ==
  ASSUME ChainTypeOK, UNCHANGED chain PROVE ChainTypeOK'
BY DEF ChainTypeOK, chain

(* A step outside the syncing loop leaves what the loop keeps. *)
LEMMA SyncingUnchanged ==
  ASSUME SyncingTypeOK, PollStartsEmpty, UNCHANGED <<syncing, isSyncing>>
  PROVE  SyncingTypeOK' /\ PollStartsEmpty'
BY DEF SyncingTypeOK, PollStartsEmpty, syncing

(* The queue stays ahead of the chain while both stay. *)
LEMMA QueueUnchanged ==
  ASSUME QueueAhead, UNCHANGED <<height, syncing>> PROVE QueueAhead'
BY DEF QueueAhead, syncing

(* A step that leaves the listener keeps its type. *)
LEMMA ListenerUnchanged ==
  ASSUME ListenerTypeOK, UNCHANGED listener PROVE ListenerTypeOK'
BY DEF ListenerTypeOK, listener

(* A step that starts or stops no reader leaves at most one. *)
LEMMA ReaderUnchanged ==
  ASSUME OneReader, UNCHANGED <<syncer, listening, isSyncing>> PROVE OneReader'
BY DEF OneReader

(* A step that leaves the consensus loop and its channel keeps their facts. *)
LEMMA ThreadsUnchanged ==
  ASSUME ChannelTypeOK, ResetsBounded, bftHeight \in 0 .. Top, sender = Nil, UNCHANGED threads
  PROVE  ChannelTypeOK' /\ ResetsBounded' /\ bftHeight' \in 0 .. Top /\ sender' = Nil
BY DEF ChannelTypeOK, ResetsBounded, threads

(* A step that leaves the height, the listener and the loop keeps a reset
   pending. *)
LEMMA PendingUnchanged ==
  ASSUME ResetPending, UNCHANGED <<listening, height, threads>> PROVE ResetPending'
BY DEF ResetPending, threads

\* A fault uses up one of those that may happen.
LEMMA FaultType ==
  ASSUME faults \in 0 .. MaxFaults, Fault \/ UNCHANGED faults PROVE faults' \in 0 .. MaxFaults
BY ConstantTypes DEF Fault

-----------------------------------------------------------------------------
(* One lemma per action, or per kind of action. *)

\* The parts that no step of the consensus loop and of the root chain touches.
LEMMA OutsideLoop ==
  ASSUME SyncInv, UNCHANGED chain, UNCHANGED syncing, UNCHANGED isSyncing, UNCHANGED listener
  PROVE  /\ ChainTypeOK' /\ SyncingTypeOK' /\ ListenerTypeOK'
         /\ OneReader' /\ QueueAhead' /\ PollStartsEmpty'
<1>1. ChainTypeOK'
  BY InvParts, ChainUnchanged
<1>2. SyncingTypeOK' /\ PollStartsEmpty'
  BY InvParts, SyncingUnchanged
<1>3. ListenerTypeOK'
  BY InvParts, ListenerUnchanged
<1>4. OneReader'
  BY InvParts, ReaderUnchanged DEF syncing, listener
<1>5. QueueAhead'
  BY InvParts, QueueUnchanged DEF chain
<1> QED
  BY <1>1, <1>2, <1>3, <1>4, <1>5

(* UpdateRootChainInfo preserves the invariant; RootChainAssumption leaves
   its send room in the channel. *)
LEMMA UpdateInv ==
  ASSUME SyncInv, UpdateRootChainInfo PROVE SyncInv'
<1>1. /\ UNCHANGED chain /\ UNCHANGED syncing /\ UNCHANGED isSyncing /\ UNCHANGED faults
      /\ UNCHANGED listener /\ UNCHANGED <<overtaken, sender, bftHeight>>
  BY DEF UpdateRootChainInfo
<1>2. ChainTypeOK' /\ SyncingTypeOK' /\ PollStartsEmpty' /\ QueueAhead' /\ ListenerTypeOK'
      /\ OneReader'
  BY <1>1, OutsideLoop
<1>3. ChannelTypeOK' /\ ResetsBounded' /\ (loop' = "reset" \/ resets' > 0)
  BY InvParts, UpdateKeepsBound DEF LoopTypeOK, UpdateRootChainInfo
<1> QED
  BY <1>1, <1>2, <1>3, InvParts, InvPartsNext DEF LoopTypeOK, ResetPending

(* The phase timer of the consensus loop preserves the invariant. *)
LEMMA TimerInv ==
  ASSUME SyncInv, PhaseTimer PROVE SyncInv'
<1>1. /\ UNCHANGED chain /\ UNCHANGED syncing /\ UNCHANGED isSyncing /\ UNCHANGED faults
      /\ UNCHANGED listener /\ UNCHANGED <<resets, updates, overtaken, sender, bftHeight>>
      /\ loop = "select" /\ loop' = "timer"
  BY DEF PhaseTimer
<1>2. ChainTypeOK' /\ SyncingTypeOK' /\ PollStartsEmpty' /\ QueueAhead' /\ ListenerTypeOK'
      /\ OneReader'
  BY <1>1, OutsideLoop
<1>3. ChannelTypeOK' /\ ResetsBounded'
  BY <1>1, InvParts DEF LoopTypeOK, ChannelTypeOK, ResetsBounded
<1>4. ResetPending'
  BY <1>1, InvParts DEF ResetPending, ResetsBounded, chain, listener
<1> QED
  BY <1>1, <1>2, <1>3, <1>4, InvParts, InvPartsNext DEF LoopTypeOK

(* A turn of the consensus loop with a reset preserves the invariant. *)
LEMMA TurnInv ==
  ASSUME SyncInv, HandleReceived PROVE SyncInv'
<1>1. /\ UNCHANGED chain /\ UNCHANGED syncing /\ UNCHANGED isSyncing /\ UNCHANGED faults
      /\ UNCHANGED listener /\ UNCHANGED sender
  BY DEF HandleReceived
<1>2. ChainTypeOK' /\ SyncingTypeOK' /\ PollStartsEmpty' /\ QueueAhead' /\ ListenerTypeOK'
      /\ OneReader'
  BY <1>1, OutsideLoop
<1>3. ChannelTypeOK' /\ ResetsBounded' /\ ResetPending'
  BY InvParts, TurnKeepsBound, TurnKeepsPending DEF LoopTypeOK
<1>4. bftHeight' \in 0 .. Top
  BY InvParts, ConstantTypes DEF HandleReceived, LoopTypeOK, ChainTypeOK, Heights
<1> QED
  BY <1>1, <1>2, <1>3, <1>4, InvParts, InvPartsNext DEF LoopTypeOK

\* Steps of the peers and of the links change neither the height nor any thread.
LEMMA Elsewhere ==
  ASSUME SyncInv, UNCHANGED height, UNCHANGED syncing, UNCHANGED isSyncing,
         UNCHANGED listener, UNCHANGED threads, ChainTypeOK', Fault \/ UNCHANGED faults
  PROVE  SyncInv'
<1>1. SyncingTypeOK' /\ PollStartsEmpty'
  BY InvParts, SyncingUnchanged
<1>2. ListenerTypeOK'
  BY InvParts, ListenerUnchanged
<1>3. OneReader'
  BY InvParts, ReaderUnchanged DEF syncing, listener
<1>4. QueueAhead'
  BY InvParts, QueueUnchanged
<1>5. LoopTypeOK' /\ ResetsBounded'
  BY InvParts, ThreadsUnchanged, FaultType DEF LoopTypeOK
<1>6. ResetPending'
  BY InvParts, PendingUnchanged DEF listener
<1> QED
  BY <1>1, <1>2, <1>3, <1>4, <1>5, <1>6, InvPartsNext

(* A block message delivered, or dropped at a full inbox, leaves an inbox
   of its type. *)
LEMMA DeliverType ==
  ASSUME ChainTypeOK, NEW m \in BlockMessage, Deliver(m)
  PROVE  /\ inbox' \in Seq(BlockMessage) /\ Len(inbox') <= InboxSize
         /\ Fault \/ UNCHANGED faults
<1>1. CASE Len(inbox) < InboxSize
  <2>1. inbox' = Append(inbox, m) /\ UNCHANGED faults
    BY <1>1 DEF Deliver
  <2>2. inbox' \in Seq(BlockMessage) /\ Len(inbox') = Len(inbox) + 1
    BY <2>1 DEF ChainTypeOK
  <2> QED
    BY <1>1, <2>1, <2>2, ConstantTypes DEF ChainTypeOK
<1>2. CASE ~(Len(inbox) < InboxSize)
  BY <1>2, ConstantTypes DEF Deliver
<1> QED
  BY <1>1, <1>2

(* What the peers do (commit, gossip, answer a request) preserves the
   invariant. *)
LEMMA PeersInv ==
  ASSUME SyncInv, NEW p \in Peers,
         \/ PeerCommit(p) \/ PeerCommitUnheard(p) \/ GossipBeyond(p)
         \/ \E h \in 0 .. Top : Serve(p, h)
  PROVE  SyncInv'
<1>1. ChainTypeOK /\ peerHeight[p] \in Heights
  BY InvParts DEF ChainTypeOK
<1>2. CASE PeerCommit(p)
  <2>1. Message(p, peerHeight[p], 0) \in BlockMessage
    BY <1>1, ConstantTypes DEF Message, BlockMessage, Heights
  <2>2. /\ inbox' \in Seq(BlockMessage) /\ Len(inbox') <= InboxSize
        /\ Fault \/ UNCHANGED faults
    BY <1>1, <1>2, <2>1, DeliverType DEF PeerCommit
  <2>3. ChainTypeOK'
    BY <1>1, <1>2, <2>2, ConstantTypes DEF PeerCommit, ChainTypeOK, Heights
  <2> QED
    BY <1>2, <2>2, <2>3, Elsewhere DEF PeerCommit
<1>3. CASE PeerCommitUnheard(p)
  <2>1. ChainTypeOK'
    BY <1>1, <1>3, ConstantTypes DEF PeerCommitUnheard, ChainTypeOK, Heights
  <2> QED
    BY <1>3, <2>1, Elsewhere DEF PeerCommitUnheard
<1>4. CASE GossipBeyond(p)
  <2>1. Message(p, Top, 0) \in BlockMessage
    BY ConstantTypes DEF Message, BlockMessage
  <2>2. /\ inbox' \in Seq(BlockMessage) /\ Len(inbox') <= InboxSize
        /\ Fault \/ UNCHANGED faults
    BY <1>1, <1>4, <2>1, DeliverType DEF GossipBeyond
  <2>3. ChainTypeOK'
    BY <1>1, <1>4, <2>2 DEF GossipBeyond, ChainTypeOK
  <2> QED
    BY <1>4, <2>2, <2>3, Elsewhere DEF GossipBeyond
<1>5. CASE \E h \in 0 .. Top : Serve(p, h)
  <2>1. PICK h \in 0 .. Top : Serve(p, h)
    BY <1>5
  <2>2. Message(p, h, peerHeight[p]) \in BlockMessage
    BY <1>1, ConstantTypes DEF Message, BlockMessage, Heights
  <2>3. /\ inbox' \in Seq(BlockMessage) /\ Len(inbox') <= InboxSize
        /\ Fault \/ UNCHANGED faults
    <3>1. CASE h < peerHeight[p]
      BY <1>1, <2>1, <2>2, <3>1, DeliverType DEF Serve
    <3>2. CASE ~(h < peerHeight[p])
      BY <1>1, <2>1, <3>2 DEF Serve, ChainTypeOK
    <3> QED
      BY <3>1, <3>2
  <2>4. ChainTypeOK'
    BY <1>1, <2>1, <2>3 DEF Serve, ChainTypeOK
  <2> QED
    BY <2>1, <2>3, <2>4, Elsewhere DEF Serve
<1> QED
  BY <1>2, <1>3, <1>4, <1>5

(* A lost request preserves the invariant. *)
LEMMA LoseInv ==
  ASSUME SyncInv, NEW r \in requests, Lose(r) PROVE SyncInv'
<1>1. ChainTypeOK'
  BY InvParts DEF Lose, ChainTypeOK
<1> QED
  BY <1>1, Elsewhere DEF Lose

-----------------------------------------------------------------------------
(* The Sync goroutine. *)

\* What a step of Sync that keeps off the lock and the channel leaves as it is.
LEMMA SyncStep ==
  ASSUME SyncInv, UNCHANGED listener, UNCHANGED threads, syncer # "off", syncer' # "off",
         ChainTypeOK', SyncingTypeOK', PollStartsEmpty', QueueAhead',
         Fault \/ UNCHANGED faults
  PROVE  SyncInv'
<1>1. ~listening /\ ~listening'
  BY InvParts DEF OneReader, listener, ListenerTypeOK
<1>2. ListenerTypeOK'
  BY InvParts, ListenerUnchanged
<1>3. OneReader'
  BY <1>1, InvParts DEF OneReader, SyncingTypeOK, ListenerTypeOK, listener
<1>4. LoopTypeOK' /\ ResetsBounded'
  BY InvParts, ThreadsUnchanged, FaultType DEF LoopTypeOK
<1>5. ResetPending'
  BY <1>1 DEF ResetPending
<1> QED
  BY <1>2, <1>3, <1>4, <1>5, InvPartsNext

(* Asking the peers for their heights leaves the chain state typed and
   starts a poll. *)
LEMMA PollType ==
  ASSUME ChainTypeOK, Poll, UNCHANGED height, UNCHANGED peerHeight
  PROVE  ChainTypeOK' /\ syncer' = "poll" /\ maxHeight' \in -1 .. Top
<1>1. inbox' \in Seq(BlockMessage) /\ Len(inbox') <= InboxSize
  BY ConstantTypes DEF Poll
<1>2. requests' \subseteq Peers \X (0 .. Top)
  BY ConstantTypes DEF Poll, ChainTypeOK
<1> QED
  BY <1>1, <1>2, ConstantTypes DEF Poll, ChainTypeOK

(* The empty queue and the empty rate counters have their types. *)
LEMMA NothingQueued ==
  /\ DOMAIN Empty = {}
  /\ NothingSent \in [Peers -> 0 .. ReqPerWindow]
BY ConstantTypes DEF Empty, NothingSent

(* The start of Sync preserves the invariant. *)
LEMMA StartSyncInv ==
  ASSUME SyncInv, StartSync PROVE SyncInv'
<1>1. ChainTypeOK' /\ syncer' \in {"poll", "finish"} /\ maxHeight' \in -1 .. Top
  <2>1. CASE Alone
    BY <2>1, InvParts DEF StartSync, ChainTypeOK, SyncingTypeOK
  <2>2. CASE ~Alone
    BY <2>2, InvParts, PollType DEF StartSync
  <2> QED
    BY <2>1, <2>2
<1>2. queue' = Empty /\ sent' = NothingSent /\ isSyncing' = TRUE
  BY DEF StartSync
<1>3. SyncingTypeOK' /\ PollStartsEmpty' /\ QueueAhead'
  BY <1>1, <1>2, NothingQueued DEF SyncingTypeOK, PollStartsEmpty, QueueAhead
<1>4. UNCHANGED listener /\ UNCHANGED <<resets, updates, loop, sender, bftHeight, faults>>
  BY DEF StartSync
<1>5. ~listening /\ ~listening' /\ ListenerTypeOK'
  BY <1>4, InvParts DEF OneReader, StartSync, listener, ListenerTypeOK
<1>6. OneReader'
  BY <1>1, <1>5 DEF OneReader, ListenerTypeOK
<1>7. ChannelTypeOK' /\ ResetsBounded'
  BY <1>4, InvParts, LockedNoSend DEF StartSync, LoopTypeOK
<1>8. LoopTypeOK'
  BY <1>4, <1>7, InvParts DEF LoopTypeOK
<1>9. ResetPending'
  BY <1>5 DEF ResetPending
<1> QED
  BY <1>1, <1>3, <1>5, <1>6, <1>7, <1>8, <1>9, InvPartsNext

(* A height answered in pollMaxHeight preserves the invariant. *)
LEMMA ReceiveHeightInv ==
  ASSUME SyncInv, ReceiveHeight PROVE SyncInv'
<1>1. Head(inbox) \in BlockMessage /\ Tail(inbox) \in Seq(BlockMessage)
      /\ Len(Tail(inbox)) <= InboxSize
  BY InvParts, ConstantTypes DEF ReceiveHeight, ChainTypeOK
<1>2. ChainTypeOK'
  BY <1>1, InvParts DEF ReceiveHeight, ChainTypeOK
<1>3. maxHeight' \in -1 .. Top
  <2> DEFINE S == {maxHeight, Head(inbox).max}
  <2>1. S \subseteq -1 .. Top
    BY <1>1, InvParts, ConstantTypes DEF SyncingTypeOK, BlockMessage
  <2>2. Top \in Int /\ S \subseteq Int /\ S # {} /\ \A x \in S : x <= Top
    BY <2>1, ConstantTypes
  <2>3. Max(S) \in S
    BY <2>2, MaxOfBounded
  <2> QED
    BY <2>1, <2>3 DEF ReceiveHeight
<1>4. /\ syncer = "poll" /\ syncer' = syncer /\ queue' = queue /\ sent' = sent
      /\ isSyncing' = isSyncing /\ faults' = faults
      /\ UNCHANGED listener /\ UNCHANGED threads
  BY DEF ReceiveHeight
<1>5. SyncingTypeOK' /\ PollStartsEmpty' /\ QueueAhead'
  BY <1>3, <1>4, InvParts DEF SyncingTypeOK, PollStartsEmpty, QueueAhead
<1> QED
  BY <1>2, <1>4, <1>5, SyncStep

(* The timeout of pollMaxHeight preserves the invariant. *)
LEMMA PollTimeoutInv ==
  ASSUME SyncInv, PollTimeout PROVE SyncInv'
<1>1. /\ syncer = "poll" /\ queue' = queue /\ sent' = sent /\ isSyncing' = isSyncing
      /\ UNCHANGED height /\ UNCHANGED peerHeight /\ UNCHANGED listener /\ UNCHANGED threads
      /\ Fault \/ UNCHANGED faults
  BY DEF PollTimeout
<1>2. ChainTypeOK' /\ syncer' \in {"poll", "loop"} /\ maxHeight' \in -1 .. Top
  <2>1. CASE maxHeight = -1
    BY <1>1, <2>1, InvParts, PollType DEF PollTimeout
  <2>2. CASE maxHeight # -1
    BY <1>1, <2>2, InvParts DEF PollTimeout, ChainTypeOK, SyncingTypeOK
  <2> QED
    BY <2>1, <2>2
<1>3. DOMAIN queue' = {}
  BY <1>1, InvParts DEF PollStartsEmpty
<1>4. SyncingTypeOK' /\ PollStartsEmpty' /\ QueueAhead'
  BY <1>1, <1>2, <1>3, InvParts DEF SyncingTypeOK, PollStartsEmpty, QueueAhead
<1> QED
  BY <1>1, <1>2, <1>4, SyncStep

(* The ticker that resets the request limiter preserves the invariant. *)
LEMMA ResetLimiterInv ==
  ASSUME SyncInv, ResetLimiter PROVE SyncInv'
<1>1. /\ syncer = "loop" /\ syncer' = syncer /\ sent' = NothingSent /\ UNCHANGED chain
      /\ queue' = queue /\ maxHeight' = maxHeight /\ isSyncing' = isSyncing
      /\ UNCHANGED listener /\ UNCHANGED threads /\ UNCHANGED faults
  BY DEF ResetLimiter, InLoop
<1>2. ChainTypeOK'
  BY <1>1, InvParts, ChainUnchanged
<1>3. SyncingTypeOK' /\ PollStartsEmpty' /\ QueueAhead'
  BY <1>1, InvParts, NothingQueued DEF SyncingTypeOK, PollStartsEmpty, QueueAhead, chain
<1> QED
  BY <1>1, <1>2, <1>3, SyncStep

(* Leaving the syncing loop once synced preserves the invariant. *)
LEMMA LeaveLoopInv ==
  ASSUME SyncInv, LeaveLoop PROVE SyncInv'
<1>1. /\ syncer = "loop" /\ syncer' = "finish" /\ sent' = sent /\ UNCHANGED chain
      /\ queue' = queue /\ maxHeight' = maxHeight /\ isSyncing' = isSyncing
      /\ UNCHANGED listener /\ UNCHANGED threads /\ UNCHANGED faults
  BY DEF LeaveLoop
<1>2. ChainTypeOK'
  BY <1>1, InvParts, ChainUnchanged
<1>3. SyncingTypeOK' /\ PollStartsEmpty' /\ QueueAhead'
  BY <1>1, InvParts DEF SyncingTypeOK, PollStartsEmpty, QueueAhead
<1> QED
  BY <1>1, <1>2, <1>3, SyncStep

\* A request is late.
LEMMA ExpireInv ==
  ASSUME SyncInv, NEW h \in Heights, Expire(h) \/ ExpireEarly(h) PROVE SyncInv'
<1>1. /\ syncer = "loop" /\ syncer' = syncer /\ sent' = sent /\ UNCHANGED chain
      /\ maxHeight' = maxHeight /\ isSyncing' = isSyncing
      /\ UNCHANGED listener /\ UNCHANGED threads
      /\ Fault \/ UNCHANGED faults
      /\ h \in DOMAIN queue /\ queue' = [queue EXCEPT ![h].late = TRUE]
  BY DEF Expire, ExpireEarly, InLoop
<1>2. ChainTypeOK'
  BY <1>1, InvParts, ChainUnchanged
<1>3. DOMAIN queue' = DOMAIN queue /\ \A g \in DOMAIN queue : queue'[g] \in QueueEntry
  BY <1>1, InvParts DEF SyncingTypeOK, QueueEntry
<1>4. SyncingTypeOK'
  BY <1>1, <1>3, InvParts DEF SyncingTypeOK
<1>5. PollStartsEmpty' /\ QueueAhead'
  BY <1>1, <1>3, InvParts DEF PollStartsEmpty, QueueAhead, chain
<1> QED
  BY <1>1, <1>2, <1>4, <1>5, SyncStep

\* The window of a tick is among the heights of the chain.
LEMMA WindowType ==
  ASSUME SyncInv, InLoop
  PROVE  /\ Missing \subseteq height .. Min({height + QueueSize, maxHeight}) - 1
         /\ Missing \subseteq Heights /\ IsFiniteSet(Missing)
<1>1. height \in Heights /\ maxHeight \in -1 .. Top
  BY InvParts DEF ChainTypeOK, SyncingTypeOK
<1> DEFINE end == Min({height + QueueSize, maxHeight})
<1>2. end \in Int /\ end <= maxHeight
  BY <1>1, MinOfTwo, ConstantTypes DEF Heights
<1>3. Missing \subseteq height .. end - 1
  BY DEF Missing
<1> HIDE DEF end
<1>4. height .. end - 1 \subseteq Heights
  BY <1>1, <1>2, ConstantTypes DEF Heights
<1>5. IsFiniteSet(height .. end - 1)
  BY <1>1, <1>2, FS_Interval DEF Heights
<1> QED
  BY <1>3, <1>4, <1>5, FS_Subset DEF end

(* sendBlockRequests preserves the invariant: what it queues is ahead of
   the chain. *)
LEMMA SendBlockRequestsInv ==
  ASSUME SyncInv, SendBlockRequests PROVE SyncInv'
<1> DEFINE Count(asked, to) ==
             [p \in Peers |-> sent[p] + Cardinality({h \in asked : to[h] = p})]
<1>1. PICK asked \in SUBSET Missing \ {{}} : \E to \in [asked -> Peers] :
        /\ WithinLimit(Count(asked, to))
        /\ sent' = Count(asked, to)
        /\ queue' = [h \in DOMAIN queue \union asked |->
                       IF h \in asked THEN Requested(to[h]) ELSE queue[h]]
        /\ requests' = requests \union {<<to[h], h>> : h \in asked}
  BY DEF SendBlockRequests
<1>2. PICK to \in [asked -> Peers] :
        /\ WithinLimit(Count(asked, to))
        /\ sent' = Count(asked, to)
        /\ queue' = [h \in DOMAIN queue \union asked |->
                       IF h \in asked THEN Requested(to[h]) ELSE queue[h]]
        /\ requests' = requests \union {<<to[h], h>> : h \in asked}
  BY <1>1
<1>3. /\ InLoop /\ syncer' = syncer /\ height' = height /\ peerHeight' = peerHeight
      /\ inbox' = inbox /\ maxHeight' = maxHeight /\ isSyncing' = isSyncing
      /\ UNCHANGED listener /\ UNCHANGED threads /\ UNCHANGED faults
  BY DEF SendBlockRequests
<1>4. /\ asked \subseteq height .. Min({height + QueueSize, maxHeight}) - 1
      /\ asked \subseteq Heights /\ IsFiniteSet(asked)
  <2>1. asked \subseteq Missing
    BY <1>1
  <2> QED
    BY <1>3, <2>1, WindowType, FS_Subset
<1>5. ChainTypeOK'
  BY <1>2, <1>3, <1>4, InvParts DEF ChainTypeOK, Heights
<1>6. sent' \in [Peers -> 0 .. ReqPerWindow]
  <2>1. ASSUME NEW p \in Peers
        PROVE  Count(asked, to)[p] \in 0 .. ReqPerWindow
    <3>1. Cardinality({h \in asked : to[h] = p}) \in Nat
      <4>1. {h \in asked : to[h] = p} \in SUBSET asked
        OBVIOUS
      <4>2. IsFiniteSet({h \in asked : to[h] = p})
        BY <1>4, <4>1, FS_Subset
      <4> QED
        BY <4>2, FS_CardinalityType
    <3>2. sent[p] \in Nat
      BY InvParts DEF SyncingTypeOK
    <3>3. Count(asked, to)[p] <= ReqPerWindow
      BY <1>2 DEF WithinLimit
    <3> QED
      BY <3>1, <3>2, <3>3, ConstantTypes
  <2> QED
    BY <1>2, <2>1
<1>7. /\ DOMAIN queue' = DOMAIN queue \union asked
      /\ \A h \in DOMAIN queue' : queue'[h] \in QueueEntry
  BY <1>2, InvParts DEF SyncingTypeOK, QueueEntry, Requested
<1>8. SyncingTypeOK' /\ PollStartsEmpty'
  BY <1>3, <1>4, <1>6, <1>7, InvParts DEF SyncingTypeOK, PollStartsEmpty, InLoop
<1>9. QueueAhead'
  BY <1>3, <1>4, <1>7, InvParts DEF QueueAhead
<1> QED
  BY <1>3, <1>5, <1>8, <1>9, SyncStep DEF InLoop

\* The blocks that are ready come before every height that is not.
LEMMA ReadyFirst ==
  ASSUME height \in Heights, maxHeight \in -1 .. Top, NEW q,
         NEW h \in Int, height <= h, h <= maxHeight, h \notin Ready(q)
  PROVE  /\ IsFiniteSet(Ready(q)) /\ Cardinality(Ready(q)) \in Nat
         /\ height + Cardinality(Ready(q)) <= h
<1>1. Ready(q) \in SUBSET (height .. h - 1)
  <2>1. ASSUME NEW g \in Ready(q), g >= h
        PROVE  FALSE
    <3>1. g \in Int /\ g <= maxHeight - 1
      BY ConstantTypes DEF Ready, Heights
    <3>2. h \in height .. maxHeight - 1 /\ height .. h \subseteq height .. g
      BY <2>1, <3>1, ConstantTypes DEF Heights
    <3> QED
      BY <3>2 DEF Ready
  <2> QED
    BY <2>1, ConstantTypes DEF Ready, Heights
<1>2. IsFiniteSet(height .. h - 1) /\ Cardinality(height .. h - 1) = h - height
  <2>1. height \in Int /\ h - 1 \in Int
    BY DEF Heights
  <2>2. /\ IsFiniteSet(height .. h - 1)
        /\ Cardinality(height .. h - 1) = IF height > h - 1 THEN 0 ELSE (h - 1) - height + 1
    BY <2>1, FS_Interval
  <2> QED
    BY <2>1, <2>2
<1>3. IsFiniteSet(Ready(q)) /\ Cardinality(Ready(q)) <= h - height
  BY <1>1, <1>2, FS_Subset
<1>4. Cardinality(Ready(q)) \in Nat
  BY <1>3, FS_CardinalityType
<1> QED
  BY <1>3, <1>4, ConstantTypes DEF Heights

\* An answer takes the place of its request.
LEMMA AnsweredType ==
  ASSUME SyncInv, NEW m \in BlockMessage,
         NEW q, q = IF VerifyResponse(m) THEN WithAnswer(m) ELSE queue
  PROVE  DOMAIN q = DOMAIN queue /\ \A h \in DOMAIN q : q[h] \in QueueEntry
<1>1. \A h \in DOMAIN queue : queue[h] \in QueueEntry
  BY InvParts DEF SyncingTypeOK
<1>2. CASE VerifyResponse(m)
  <2>1. m.height \in DOMAIN queue
    BY <1>2 DEF VerifyResponse
  <2>2. ASSUME NEW late \in BOOLEAN
        PROVE  [Requested(m.from) EXCEPT !.answer = m.max, !.late = late] \in QueueEntry
    BY DEF Requested, BlockMessage, QueueEntry
  <2>3. m.height \in DOMAIN queue /\ queue[m.height].late \in BOOLEAN
    BY <2>1, <1>1 DEF QueueEntry
  <2>4. WithAnswer(m)[m.height] \in QueueEntry
    BY <2>2, <2>3 DEF WithAnswer
  <2> QED
    BY <1>1, <1>2, <2>1, <2>4 DEF WithAnswer
<1>3. CASE ~VerifyResponse(m)
  BY <1>1, <1>3
<1> QED
  BY <1>2, <1>3

\* What is left of a queue after the blocks in done and the late requests are gone.
LEMMA LeftType ==
  ASSUME NEW q, NEW done, \A h \in DOMAIN q : q[h] \in QueueEntry
  PROVE  LET left == WithoutExpired(Remaining(q, done))
         IN  DOMAIN left \subseteq DOMAIN q \ done /\ \A h \in DOMAIN left : left[h] \in QueueEntry
BY DEF WithoutExpired, Remaining, Restrict

(* A block received while syncing, and the queue processed after it,
   preserve the invariant. *)
LEMMA ReceiveBlockInv ==
  ASSUME SyncInv, ReceiveBlock PROVE SyncInv'
<1> DEFINE m == Head(inbox)
           q == IF VerifyResponse(m) THEN WithAnswer(m) ELSE queue
           ready == Ready(q)
<1>1. /\ InLoop /\ inbox # <<>> /\ inbox' = Tail(inbox) /\ syncer' = syncer
      /\ peerHeight' = peerHeight /\ requests' = requests /\ sent' = sent
      /\ isSyncing' = isSyncing /\ UNCHANGED listener
      /\ UNCHANGED <<resets, updates, loop, sender, bftHeight>>
      /\ ready # {} => LockFree
      /\ overtaken' = IF ready = {} THEN overtaken ELSE loop # "select"
  BY DEF ReceiveBlock
<1>2. \/ /\ height' = height + Cardinality(ready)
         /\ maxHeight' = Max({maxHeight} \union {q[h].answer : h \in ready})
         /\ queue' = WithoutExpired(Remaining(q, ready))
         /\ UNCHANGED faults
      \/ /\ Fault
         /\ queue' = WithoutExpired(Remaining(q, {height}))
         /\ UNCHANGED <<height, maxHeight>>
  BY DEF ReceiveBlock
<1>3. /\ m \in BlockMessage /\ Tail(inbox) \in Seq(BlockMessage)
      /\ Len(Tail(inbox)) <= InboxSize
  BY <1>1, InvParts, ConstantTypes DEF ChainTypeOK
<1>4. DOMAIN q = DOMAIN queue /\ \A h \in DOMAIN q : q[h] \in QueueEntry
  BY <1>3, AnsweredType
<1>5. /\ height \in Heights /\ maxHeight \in -1 .. Top /\ height < maxHeight
      /\ syncer = "loop" /\ syncer' = "loop"
      /\ DOMAIN queue \subseteq height .. Min({height + QueueSize, maxHeight}) - 1
  BY <1>1, InvParts DEF InLoop, ChainTypeOK, SyncingTypeOK, QueueAhead
<1> HIDE DEF q, m
<1>6. /\ Cardinality(ready) \in Nat /\ height + Cardinality(ready) <= maxHeight
      /\ \A h \in DOMAIN q \ ready : height + Cardinality(ready) <= h
  <2>1. maxHeight \notin ready
    BY <1>5, ConstantTypes DEF Ready, Heights
  <2>2. Cardinality(ready) \in Nat /\ height + Cardinality(ready) <= maxHeight
    BY <1>5, <2>1, ReadyFirst, ConstantTypes DEF Heights
  <2>3. ASSUME NEW h \in DOMAIN q \ ready
        PROVE  height + Cardinality(ready) <= h
    <3>1. Min({height + QueueSize, maxHeight}) \in Int
          /\ Min({height + QueueSize, maxHeight}) <= maxHeight
      BY <1>5, MinOfTwo, ConstantTypes DEF Heights
    <3>2. h \in Int /\ height <= h /\ h <= maxHeight
      BY <1>4, <1>5, <3>1, ConstantTypes DEF Heights
    <3> QED
      BY <1>5, <3>2, ReadyFirst
  <2> QED
    BY <2>2, <2>3
<1>7. maxHeight' \in -1 .. Top /\ maxHeight' >= maxHeight
  <2> DEFINE S == {maxHeight} \union {q[h].answer : h \in ready}
  <2>1. S \subseteq -1 .. Top
    <3>1. ASSUME NEW h \in ready
          PROVE  q[h].answer \in -1 .. Top
      <4>1. h \in height .. h
        BY <1>5, ConstantTypes DEF Ready, Heights
      <4>2. h \in DOMAIN q /\ q[h].answer # Nil
        BY <4>1 DEF Ready
      <4>3. q[h].answer \in 0 .. Top
        BY <1>4, <4>2 DEF QueueEntry
      <4> QED
        BY <4>3, ConstantTypes
    <3> QED
      BY <1>5, <3>1
  <2>2. Top \in Int /\ S \subseteq Int /\ S # {} /\ \A x \in S : x <= Top
    BY <2>1, ConstantTypes
  <2>3. Max(S) \in S /\ Max(S) >= maxHeight
    BY <2>2, MaxOfBounded
  <2> QED
    BY <1>2, <1>5, <2>1, <2>3, ConstantTypes
<1>8. /\ height' \in Heights /\ height' >= height
      /\ DOMAIN queue' \subseteq DOMAIN queue /\ \A h \in DOMAIN queue' : height' <= h
      /\ \A h \in DOMAIN queue' : queue'[h] \in QueueEntry
  <2>1. CASE /\ height' = height + Cardinality(ready)
             /\ queue' = WithoutExpired(Remaining(q, ready))
    <3>1. DOMAIN queue' \subseteq DOMAIN q \ ready /\ \A h \in DOMAIN queue' : queue'[h] \in QueueEntry
      BY <1>4, <2>1, LeftType
    <3> QED
      BY <1>4, <1>5, <1>6, <2>1, <3>1, ConstantTypes DEF Heights
  <2>2. CASE height' = height /\ queue' = WithoutExpired(Remaining(q, {height}))
    <3>1. DOMAIN queue' \subseteq DOMAIN q /\ \A h \in DOMAIN queue' : queue'[h] \in QueueEntry
      BY <1>4, <2>2, LeftType
    <3>2. \A h \in DOMAIN queue : height <= h
      BY <1>5, MinOfTwo, ConstantTypes DEF Heights
    <3>3. height' \in Heights /\ height' >= height
      BY <1>5, <2>2 DEF Heights
    <3> QED
      BY <1>4, <2>2, <3>1, <3>2, <3>3
  <2> QED
    BY <1>2, <2>1, <2>2
<1>9. ChainTypeOK'
  BY <1>1, <1>3, <1>8, InvParts DEF ChainTypeOK
<1>10. SyncingTypeOK' /\ PollStartsEmpty'
  BY <1>1, <1>5, <1>7, <1>8, InvParts DEF SyncingTypeOK, PollStartsEmpty
<1>11. QueueAhead'
  <2>1. ASSUME NEW h \in DOMAIN queue'
        PROVE  h \in height' .. Min({height' + QueueSize, maxHeight'}) - 1
    <3>1. h \in height .. Min({height + QueueSize, maxHeight}) - 1 /\ height' <= h
      BY <1>5, <1>8
    <3>2. /\ height \in Int /\ height' \in Int /\ height <= height' /\ QueueSize \in Int
          /\ maxHeight \in Int /\ maxHeight' \in Int /\ maxHeight <= maxHeight'
      BY <1>5, <1>7, <1>8, ConstantTypes DEF Heights
    <3> QED
      BY <3>1, <3>2, WindowMoves
  <2> QED
    BY <2>1 DEF QueueAhead
<1>12. ListenerTypeOK' /\ OneReader' /\ ~listening'
  <2>1. ListenerTypeOK'
    BY <1>1, InvParts, ListenerUnchanged
  <2>2. OneReader'
    BY <1>1, InvParts, ReaderUnchanged DEF listener
  <2> QED
    BY <1>5, <2>1, <2>2 DEF OneReader, ListenerTypeOK
<1>13. ChannelTypeOK' /\ ResetsBounded'
  <2>1. CASE ready = {}
    BY <1>1, <2>1, InvParts DEF LoopTypeOK, ChannelTypeOK, ResetsBounded
  <2>2. CASE ready # {}
    BY <1>1, <2>2, InvParts, LockedNoSend DEF LoopTypeOK
  <2> QED
    BY <2>1, <2>2
<1>14. LoopTypeOK' /\ ResetPending'
  <2>1. faults' \in 0 .. MaxFaults
    BY <1>2, InvParts, FaultType DEF LoopTypeOK
  <2> QED
    BY <1>1, <1>12, <1>13, <2>1, InvParts DEF LoopTypeOK, ResetPending
<1> QED
  BY <1>9, <1>10, <1>11, <1>12, <1>13, <1>14, InvPartsNext

(* finishSyncing preserves the invariant: the reset it sends is pending
   until the loop follows the chain. *)
LEMMA FinishSyncingInv ==
  ASSUME SyncInv, FinishSyncing PROVE SyncInv'
<1>1. LockFree /\ ChannelTypeOK /\ ResetsBounded
  BY InvParts DEF FinishSyncing, LoopTypeOK
<1>2. HasRoom
  BY <1>1, LockedSend
<1>3. /\ SendReset /\ HandOver /\ UNCHANGED sender /\ UNCHANGED chain
      /\ updates' = updates /\ bftHeight' = bftHeight /\ faults' = faults
      /\ overtaken' = (loop # "select")
  BY <1>2 DEF FinishSyncing
<1>4. ChannelTypeOK' /\ ResetsBounded' /\ (loop' = "reset" \/ resets' > 0)
  BY <1>1, <1>3, LockedSend
<1>5. ChainTypeOK'
  BY <1>3, InvParts, ChainUnchanged
<1>6. SyncingTypeOK' /\ PollStartsEmpty' /\ QueueAhead' /\ OneReader'
  <2>1. /\ syncer' = "off" /\ isSyncing' = FALSE /\ DOMAIN queue' = {} /\ maxHeight' = -1
        /\ sent' \in [Peers -> 0 .. ReqPerWindow] /\ listening' = TRUE
    BY <1>3, NothingQueued DEF HandOver
  <2>2. -1 \in -1 .. Top
    BY ConstantTypes
  <2>3. SyncingTypeOK'
    BY <2>1, <2>2 DEF SyncingTypeOK
  <2> QED
    BY <2>1, <2>3 DEF PollStartsEmpty, QueueAhead, OneReader
<1>7. ListenerTypeOK'
  BY <1>3 DEF HandOver, ListenerTypeOK, NoTracker
<1>8. LoopTypeOK' /\ ResetPending'
  BY <1>3, <1>4, InvParts DEF LoopTypeOK, ResetPending
<1> QED
  BY <1>4, <1>5, <1>6, <1>7, <1>8, InvPartsNext

-----------------------------------------------------------------------------
(* The ListenForBlock goroutine. *)

\* A block above our height is noted, and may start Sync; the listener is then gone.
LEMMA NotedType ==
  ASSUME ListenerTypeOK, NEW m \in BlockMessage, m.height \in Heights, Noted(m),
         listening, syncer = "off"
  PROVE  /\ tracker' \in [peers : SUBSET (Peers \X Heights), blocks : SUBSET (Heights \X (0 .. Top))]
         /\ \/ syncer' = "start" /\ listening' = FALSE
            \/ syncer' = "off" /\ listening' = TRUE
<1> DEFINE seen == tracker.peers \union {<<m.from, m.height>>}
           blocks == tracker.blocks \union {Content(m)}
<1>1. seen \subseteq Peers \X Heights /\ blocks \subseteq Heights \X (0 .. Top)
  BY DEF ListenerTypeOK, BlockMessage, Content
<1>2. CASE 3 * Cardinality(seen) >= PeerCount
  BY <1>2 DEF Noted, NoTracker
<1>3. CASE ~(3 * Cardinality(seen) >= PeerCount)
  <2>1. tracker' = [peers |-> seen, blocks |-> blocks] /\ syncer' = syncer /\ listening' = listening
    BY <1>3 DEF Noted
  <2> QED
    BY <1>1, <2>1 DEF ListenerTypeOK
<1> QED
  BY <1>2, <1>3

\* What a message does to the listener and to Sync: nothing, or it starts Sync.
Handled ==
  /\ tracker' \in [peers : SUBSET (Peers \X Heights), blocks : SUBSET (Heights \X (0 .. Top))]
  /\ \/ syncer' = "start" /\ listening' = FALSE
     \/ syncer' = "off" /\ listening' = TRUE

\* What it does to the height and the channel: nothing, or a commit and its reset.
Advanced ==
  /\ height' \in Heights /\ sender' = Nil
  /\ ChannelTypeOK' /\ ResetsBounded'
  /\ \/ UNCHANGED <<height, resets, loop>>
     \/ loop' = "reset" \/ resets' > 0

(* ListenForBlock preserves the invariant: a block committed leaves a reset
   pending. *)
LEMMA ListenForBlockInv ==
  ASSUME SyncInv, ListenForBlock PROVE SyncInv'
<1> DEFINE m == Head(inbox)
           new == Content(m) \notin cache
<1>1. /\ listening /\ inbox # <<>> /\ LockFree /\ inbox' = Tail(inbox)
      /\ overtaken' = (loop # "select")
      /\ cache' = IF m.height < Top THEN cache \union {Content(m)} ELSE cache
      /\ peerHeight' = peerHeight /\ requests' = requests /\ queue' = queue
      /\ maxHeight' = maxHeight /\ sent' = sent /\ isSyncing' = isSyncing
      /\ updates' = updates /\ bftHeight' = bftHeight
  BY DEF ListenForBlock
<1>2. \/ /\ m.height = height /\ height < Top
         /\ CommitReceived
         /\ UNCHANGED <<listening, syncer, faults>>
      \/ /\ Fault
         /\ UNCHANGED <<height, listening, tracker, syncer, resets, loop, sender>>
      \/ /\ m.height > height
         /\ Noted(m)
         /\ UNCHANGED <<height, resets, loop, sender, faults>>
      \/ /\ Seen(m)
         /\ UNCHANGED <<height, resets, loop, sender, faults>>
      \/ UNCHANGED <<height, listening, tracker, syncer, resets, loop, sender, faults>>
  BY DEF ListenForBlock
<1>3. /\ m \in BlockMessage /\ Tail(inbox) \in Seq(BlockMessage)
      /\ Len(Tail(inbox)) <= InboxSize
  BY <1>1, InvParts, ConstantTypes DEF ChainTypeOK
<1> HIDE DEF m
<1>4. /\ ~isSyncing /\ isSyncing \in BOOLEAN /\ syncer = "off" /\ listening = TRUE
      /\ ListenerTypeOK /\ ChannelTypeOK /\ ResetsBounded /\ ResetPending
      /\ height \in Heights /\ sender = Nil /\ faults \in 0 .. MaxFaults
  BY <1>1, InvParts DEF OneReader, ListenerTypeOK, SyncingTypeOK, LoopTypeOK, ChainTypeOK
<1>5. ASSUME UNCHANGED <<height, resets, loop, sender>>
      PROVE  Advanced
  BY <1>1, <1>4, <1>5, LockedNoSend DEF Advanced
<1>6. ASSUME UNCHANGED <<listening, tracker, syncer>>
      PROVE  Handled
  BY <1>4, <1>6 DEF Handled, ListenerTypeOK
<1>7. ASSUME Noted(m), m.height \in Heights
      PROVE  Handled
  BY <1>3, <1>4, <1>7, NotedType DEF Handled
<1>8. Handled /\ Advanced /\ faults' \in 0 .. MaxFaults
  <2>1. CASE /\ m.height = height /\ height < Top /\ CommitReceived
             /\ UNCHANGED <<listening, syncer, faults>>
    <3>1. HasRoom
      BY <1>1, <1>4, LockedSend
    <3>2. height' = height + 1 /\ SendReset /\ tracker' = NoTracker /\ sender' = sender
      BY <1>4, <2>1, <3>1 DEF CommitReceived
    <3>3. Advanced
      BY <1>1, <1>4, <2>1, <3>2, LockedSend, ConstantTypes DEF Advanced, Heights
    <3>4. Handled
      BY <1>4, <2>1, <3>2 DEF Handled, NoTracker
    <3> QED
      BY <1>4, <2>1, <3>3, <3>4
  <2>2. CASE Fault /\ UNCHANGED <<height, listening, tracker, syncer, resets, loop, sender>>
    BY <1>4, <1>5, <1>6, <2>2, FaultType
  <2>3. CASE /\ m.height > height /\ Noted(m)
             /\ UNCHANGED <<height, resets, loop, sender, faults>>
    <3>1. m.height \in Heights
      BY <1>3, <1>4, <2>3, ConstantTypes DEF BlockMessage, Heights
    <3> QED
      BY <1>4, <1>5, <1>7, <2>3, <3>1
  <2>4. CASE Seen(m) /\ UNCHANGED <<height, resets, loop, sender, faults>>
    <3>1. CASE Content(m) \in tracker.blocks
      <4>1. m.height \in Heights
        BY <1>4, <3>1 DEF ListenerTypeOK, Content
      <4> QED
        BY <1>4, <1>5, <1>7, <2>4, <3>1, <4>1 DEF Seen
    <3>2. CASE Content(m) \notin tracker.blocks
      BY <1>4, <1>5, <1>6, <2>4, <3>2 DEF Seen
    <3> QED
      BY <3>1, <3>2
  <2>5. CASE UNCHANGED <<height, listening, tracker, syncer, resets, loop, sender, faults>>
    BY <1>4, <1>5, <1>6, <2>5
  <2> QED
    BY <1>2, <2>1, <2>2, <2>3, <2>4, <2>5
<1>9. ChainTypeOK'
  BY <1>1, <1>3, <1>8, InvParts DEF ChainTypeOK, Advanced
<1>10. SyncingTypeOK' /\ PollStartsEmpty' /\ QueueAhead'
  BY <1>1, <1>8, InvParts DEF SyncingTypeOK, PollStartsEmpty, QueueAhead, Handled
<1>11. cache' \subseteq (0 .. Top) \X (0 .. Top)
  BY <1>1, <1>3, <1>4 DEF BlockMessage, Content, ListenerTypeOK
<1>12. ListenerTypeOK'
  BY <1>8, <1>11 DEF ListenerTypeOK, Handled
<1>13. OneReader'
  BY <1>1, <1>4, <1>8 DEF OneReader, Handled
<1>14. LoopTypeOK' /\ ResetsBounded'
  BY <1>1, <1>8, InvParts DEF LoopTypeOK, Advanced
<1>15. ResetPending'
  BY <1>1, <1>4, <1>8 DEF ResetPending, Advanced
<1> QED
  BY <1>9, <1>10, <1>12, <1>13, <1>14, <1>15, InvPartsNext

-----------------------------------------------------------------------------
(* The theorems. *)

(* The invariant holds of a node that starts. *)
LEMMA InitInv == Init => SyncInv
<1> SUFFICES ASSUME Init PROVE SyncInv
  OBVIOUS
<1>1. ChainTypeOK
  <2>1. inbox \in Seq(BlockMessage) /\ Len(inbox) = 0
    BY DEF Init
  <2>2. height \in Heights
    BY ConstantTypes DEF Init, Heights
  <2>3. peerHeight \in [Peers -> Heights]
    <3>1. peerHeight \in [Peers -> FirstHeights] /\ FirstHeights \subseteq Heights
      BY ConstantTypes DEF Init, Heights
    <3> QED
      BY <3>1
  <2> QED
    BY <2>1, <2>2, <2>3, ConstantTypes DEF Init, ChainTypeOK
<1>2. SyncingTypeOK /\ PollStartsEmpty /\ QueueAhead /\ OneReader
  <2>1. /\ syncer = "start" /\ isSyncing = FALSE /\ DOMAIN queue = {} /\ maxHeight = -1
        /\ sent \in [Peers -> 0 .. ReqPerWindow] /\ listening = FALSE
    BY NothingQueued DEF Init
  <2>2. -1 \in -1 .. Top
    BY ConstantTypes
  <2>3. SyncingTypeOK
    BY <2>1, <2>2 DEF SyncingTypeOK
  <2> QED
    BY <2>1, <2>3 DEF PollStartsEmpty, QueueAhead, OneReader
<1>3. ListenerTypeOK
  BY DEF Init, ListenerTypeOK, NoTracker
<1>4. LoopTypeOK /\ ResetPending
  <2>1. resets \in 0 .. ResetCapacity /\ updates \in 0 .. MaxRootUpdates
    BY ConstantTypes DEF Init
  <2>2. bftHeight \in 0 .. Top /\ faults \in 0 .. MaxFaults
    BY ConstantTypes DEF Init
  <2>3. ChannelTypeOK
    BY <2>1 DEF Init, ChannelTypeOK
  <2> QED
    BY <2>2, <2>3 DEF Init, LoopTypeOK, ResetPending
<1>5. ResetsBounded
  BY DEF Init, ResetsBounded
<1> QED
  BY <1>1, <1>2, <1>3, <1>4, <1>5, InvParts

(* Every step preserves the invariant. *)
LEMMA NextInv == SyncInv /\ [Next]_vars => SyncInv'
<1> SUFFICES ASSUME SyncInv, [Next]_vars PROVE SyncInv'
  OBVIOUS
<1>1. CASE UpdateRootChainInfo \/ PhaseTimer \/ HandleReceived
  BY <1>1, UpdateInv, TimerInv, TurnInv
<1>2. CASE \E p \in Peers : PeerCommit(p) \/ PeerCommitUnheard(p) \/ GossipBeyond(p)
                         \/ \E h \in 0 .. Top : Serve(p, h)
  BY <1>2, PeersInv
<1>3. CASE \E r \in requests : Lose(r)
  BY <1>3, LoseInv
<1>4. CASE StartSync \/ ReceiveHeight \/ PollTimeout
  BY <1>4, StartSyncInv, ReceiveHeightInv, PollTimeoutInv
<1>5. CASE ResetLimiter \/ SendBlockRequests \/ ReceiveBlock
  BY <1>5, ResetLimiterInv, SendBlockRequestsInv, ReceiveBlockInv
<1>6. CASE \E h \in Heights : Expire(h) \/ ExpireEarly(h)
  BY <1>6, ExpireInv
<1>7. CASE LeaveLoop \/ FinishSyncing \/ ListenForBlock
  BY <1>7, LeaveLoopInv, FinishSyncingInv, ListenForBlockInv
<1>8. CASE UNCHANGED vars
  <2>1. /\ UNCHANGED chain /\ UNCHANGED syncing /\ UNCHANGED isSyncing
        /\ UNCHANGED listener /\ UNCHANGED threads /\ UNCHANGED faults
    BY <1>8 DEF vars
  <2> QED
    BY <2>1, InvParts, ChainUnchanged, Elsewhere DEF chain
<1> QED
  BY <1>1, <1>2, <1>3, <1>4, <1>5, <1>6, <1>7, <1>8 DEF Next

\* Sync and ListenForBlock divide the work for every network: one of the two reads the
\* Block inbox, the queue of Sync (controller/block.go) never holds a height the chain
\* has passed nor more than blockSyncQueueSize, and a commit has its reset on the way.
THEOREM SyncInvHolds == Spec => []SyncInv
<1> QED
  BY InitInv, NextInv, PTL DEF Spec

\* No thread that holds the controller's lock ever waits for room in the ResetBFT
\* channel, as long as fewer root chain updates come between two idle moments of the
\* consensus loop than the channel has places.
THEOREM NoCircularWaitHolds == Spec => []NoCircularWait
<1>1. SyncInv => NoCircularWait
  BY DEF SyncInv
<1> QED
  BY <1>1, SyncInvHolds, PTL

\* An idle consensus loop of a node in sync is at the height of the chain, whichever of
\* Sync and ListenForBlock committed the block.
THEOREM LoopFollowsChainHolds == Spec => []LoopFollowsChain
<1>1. SyncInv => LoopFollowsChain
  BY DEF SyncInv, ResetPending, ResetsBounded, LoopFollowsChain
<1> QED
  BY <1>1, SyncInvHolds, PTL
=============================================================================
