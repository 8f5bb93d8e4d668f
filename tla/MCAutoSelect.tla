---------------------------- MODULE MCAutoSelect ----------------------------
(***************************************************************************)
(* ProbeWaiters, and in it ProbeScheduler, for TLC.  A behaviour is one of *)
(* several scenarios, each with small bounds of its own: their states add  *)
(* up, where one instance with all the bounds would multiply them.  In a   *)
(* scenario without callers the steps are those of the scheduler alone.    *)
(***************************************************************************)
EXTENDS ProbeWaiters

VARIABLE scenario

mcVars == <<allVars, scenario>>

\* a1 and a2 are two outbounds registered one after the other under tag a.
ObjectTags == [o \in Objects |-> CASE o \in {"a1", "a2"} -> "a"
                                   [] o = "b1" -> "b"
                                   [] OTHER -> "l"]
OneTag == <<"a">>

Scenarios == [
    recreation |-> [objects |-> {"a1", "a2", "b1"}, memberships |-> 3, urls |-> {"u"},
                    generations |-> 0, pausing |-> FALSE, closing |-> FALSE, leaving |-> TRUE,
                    age |-> 0, callers |-> {}],
    scope |-> [objects |-> {"a1", "l1"}, memberships |-> 2, urls |-> {"u", "v"},
               generations |-> 1, pausing |-> FALSE, closing |-> FALSE, leaving |-> FALSE,
               age |-> 0, callers |-> {}],
    pause |-> [objects |-> {"a1", "b1"}, memberships |-> 2, urls |-> {"u"},
               generations |-> 0, pausing |-> TRUE, closing |-> FALSE, leaving |-> FALSE,
               age |-> 0, callers |-> {}],
    paused |-> [objects |-> {"a1"}, memberships |-> 1, urls |-> {"u"},
                generations |-> 0, pausing |-> TRUE, closing |-> FALSE, leaving |-> TRUE,
                age |-> 0, callers |-> Callers],
    moved |-> [objects |-> {"a1"}, memberships |-> 1, urls |-> {"u"},
               generations |-> 1, pausing |-> FALSE, closing |-> FALSE, leaving |-> TRUE,
               age |-> 0, callers |-> Callers],
    exhaustion |-> [objects |-> {"a1", "b1"}, memberships |-> 2, urls |-> {"u"},
                    generations |-> 0, pausing |-> FALSE, closing |-> FALSE, leaving |-> TRUE,
                    age |-> 0, callers |-> {"cycle"}],
    aging |-> [objects |-> {"a1"}, memberships |-> 2, urls |-> {"u"},
               generations |-> 0, pausing |-> FALSE, closing |-> TRUE, leaving |-> TRUE,
               age |-> 1, callers |-> {"ladder", "cycle"}]]

Within(s) ==
    /\ \A t \in DOMAIN members' : members'[t] \in s.objects
    /\ nextMembershipID' <= s.memberships
    /\ s.leaving \/ DOMAIN members \subseteq DOMAIN members'
    /\ \A t \in Tags : urls'[t] \in s.urls
    /\ networkGeneration' <= s.generations
    /\ pausedBy' # {} => s.pausing
    /\ closed' => s.closing
    /\ \A t \in DOMAIN probeMembers' : probeMembers'[t].outcome.age <= s.age
    /\ \A w \in Callers \ s.callers : waiters'[w].phase = "none"

MCInit == WaitersInit /\ scenario \in DOMAIN Scenarios

MCNext == WaitersNext /\ UNCHANGED scenario /\ Within(Scenarios[scenario])

MCSpec == MCInit /\ [][MCNext]_mcVars
=============================================================================
