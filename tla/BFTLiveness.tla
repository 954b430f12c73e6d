---------------------------- MODULE BFTLiveness ----------------------------
(***************************************************************************)
(* Progress of BFT once the network is timely.  Phase timers grow with the *)
(* round (WaitTime), so from some round on every message of a phase        *)
(* arrives before the timer of the next phase expires, and validators,     *)
(* whose timers have equal durations, go through the phases in step.  The  *)
(* rounds in Reliable are such rounds; in the others anything may be lost. *)
(***************************************************************************)
EXTENDS BFT

CONSTANT Reliable
ASSUME ReliableAssumption == Reliable \subseteq 0 .. MaxRound

\* Every validator still at n's height is in n's round and no phase behind.
InStep(n) ==
  \A m \in Node : view[m].height = view[n].height =>
    view[m].round = view[n].round /\ view[m].phase >= view[n].phase

\* The message the handler of n's phase waits for has been sent and is acceptable.
CanProceed(n) ==
  CASE view[n].phase = Propose -> MajorityVotes(n) # {}
    [] view[n].phase = ProposeVote -> \E m \in GetProposal(n) : ~RejectsProposal(n, m)
    [] view[n].phase \in {Precommit, Commit} -> proposerKey[n] # n \/ MajorityVotes(n) # {}
    [] view[n].phase \in {PrecommitVote, CommitProcess} ->
         \E m \in GetProposal(n) : CheckProposerAndProposal(n, m)
    [] OTHER -> FALSE

\* In a reliable round a timer expires only when everyone is in step and all votes
\* have been added, and then a handler uses what was sent.
Timely(n) ==
  view[n].round \in Reliable =>
    /\ InStep(n)
    /\ view[n].phase = Propose => \A m \in msgs : ~HigherLock(n, m)
    /\ CanProceed(n) =>
         /\ view'[n].phase # PacemakerPhase
         /\ view[n].phase = Propose => msgs' # msgs

TimelyPhase(n) == HandlePhase(n) /\ Timely(n)
AddVotes(n) == (\E m \in msgs : AdoptHighQC(n, m)) /\ UNCHANGED overtaken
ReceiveBlock(n) == (\E m \in msgs : HandlePeerBlock(n, m)) /\ UNCHANGED overtaken

TimelyNext ==
  \E n \in Node : TimelyPhase(n) \/ AddVotes(n) \/ ReceiveBlock(n) \/ ResetBFT(n)

\* The phase timer is always set again, votes and gossiped blocks arrive, and the loop
\* of Start() takes a waiting reset.
Fairness ==
  \A n \in Node :
    /\ WF_vars(TimelyPhase(n))
    /\ WF_vars(AddVotes(n))
    /\ WF_vars(ReceiveBlock(n))
    /\ WF_vars(ResetBFT(n))

FairSpec == Init /\ [][TimelyNext]_vars /\ Fairness

\* Every validator commits the height once a round is reliable, whatever locks the
\* unreliable rounds before it left behind.
EventuallyCommitted == \A n \in Node : <>(chain[n] # <<>>)
=============================================================================
