---------------------------- MODULE MCBookkeeping ----------------------------
(***************************************************************************)
(* What keeps books for others: the removal queue of the group manager,    *)
(* the ranking of MutableAutoSelect with its histories, the data-cap       *)
(* tracker's usage and throttler, and the client info in front of a packet *)
(* connection.                                                             *)
(*                                                                         *)
(* They do not interact: "subject", chosen at the start, says which one a  *)
(* behaviour is about, so that their states add up instead of multiplying. *)
(***************************************************************************)
EXTENDS MCRemovalQueue, Ranking, DatacapUsage, Throttler, ClientInfoPackets

VARIABLE subject

mcVars == <<subject, vars, rankVars, usageVars, throttlerVars, packetVars>>

\* Members 1 and 2 are ordinary, the second without UDP; 3 is a last resort.
MCCarries == <<{"tcp", "udp"}, {"tcp"}, {"tcp", "udp"}>>

Snapshot(delay, consec, fails, age) ==
    [known |-> TRUE, delay |-> delay, consec |-> consec, fails |-> fails, age |-> age]

\* Fast and slow members, demoted ones, and snapshots too old to be used.
MCStored ==
    <<{NoSnapshot, Snapshot(1, 0, {}, 0), Snapshot(1, 2, {}, 0), Snapshot(4, 0, {0}, 0),
       Snapshot(1, 0, {0, 2}, 1)},
      {NoSnapshot, Snapshot(4, 0, {}, 0), Snapshot(5, 2, {}, 0), Snapshot(5, 0, {1}, 0),
       Snapshot(4, 0, {0, 2}, 2)},
      {NoSnapshot, Snapshot(1, 0, {}, 0), Snapshot(4, 2, {}, 0)}>>

\* What can begin in several ways begins in one when it is not the subject.
MCInit ==
    /\ subject \in {"queue", "ranking", "usage", "throttler", "packets"}
    /\ Init /\ RankInit /\ UsageInit /\ ThrottlerInit /\ PacketsInit
    /\ subject # "queue" => groupTags = [g \in Groups |-> {}]
    /\ subject # "ranking" => tags = <<>> /\ \A t \in DOMAIN store : store[t] = NoSnapshot

QueueIsSubject ==
    /\ subject = "queue"
    /\ UNCHANGED <<subject, rankVars, usageVars, throttlerVars, packetVars>>
RankingIsSubject ==
    /\ subject = "ranking"
    /\ UNCHANGED <<subject, vars, usageVars, throttlerVars, packetVars>>
UsageIsSubject ==
    /\ subject = "usage"
    /\ UNCHANGED <<subject, vars, rankVars, throttlerVars, packetVars>>
ThrottlerIsSubject ==
    /\ subject = "throttler"
    /\ UNCHANGED <<subject, vars, rankVars, usageVars, packetVars>>
PacketsAreSubject ==
    /\ subject = "packets"
    /\ UNCHANGED <<subject, vars, rankVars, usageVars, throttlerVars>>

MCNext ==
    \/ QueueIsSubject /\ Next
    \/ RankingIsSubject /\ RankNext
    \/ UsageIsSubject /\ UsageNext
    \/ ThrottlerIsSubject /\ ThrottlerNext
    \/ PacketsAreSubject /\ PacketsNext

\* The queue is the only one that promises to end something; it begins at rest, so that its
\* fairness asks nothing of a behaviour about another.
MCSpec == MCInit /\ [][MCNext]_mcVars /\ Fairness
=============================================================================
