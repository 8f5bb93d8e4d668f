------------------------------ MODULE MCGroups ------------------------------
(***************************************************************************)
(* The URL-test group, the selector and the data-plane watchdog, apart     *)
(* from each other: "subject", chosen at the start, says what a behaviour  *)
(* is about, so that their states add up instead of multiplying.  The      *)
(* URL-test group has two members, one of which is created again, and is   *)
(* examined twice: with dials, the check loop and a single delay, and with *)
(* overrides, Close and several delays.                                    *)
(***************************************************************************)
EXTENDS MutableURLTest, MutableSelector, DataPlaneWatchdog

VARIABLE subject

mcVars == <<subject, urlVars, selVars, watchVars>>

ObjectTags == [o \in Objects |-> IF o = "b1" THEN "b" ELSE "a"]
SelectorTags == [o \in SelObjects |-> IF o = "b1" THEN "b" ELSE "a"]

\* The second outbound of the tag "a" does without UDP.
ObjectNetworks == [o \in Objects |-> IF o = "a2" THEN {"tcp"} \cap Networks ELSE Networks]

MCInit ==
    /\ subject \in {"dials", "overrides", "selector", "watchdog"}
    /\ URLTestInit /\ created = {"a1", "b1"} /\ DOMAIN members = Tags
    /\ subject # "overrides" => started
    /\ subject \in {"selector", "watchdog"} => selected = [n \in Networks |-> "a1"]
    /\ SelInit /\ selCreated = {"a1", "b1"}
    /\ WatchInit

URLTestIsSubject ==
    /\ subject \in {"dials", "overrides"}
    /\ UNCHANGED <<subject, selVars, watchVars>>

SelectorIsSubject == subject = "selector" /\ UNCHANGED <<subject, urlVars, watchVars>>
WatchdogIsSubject == subject = "watchdog" /\ UNCHANGED <<subject, urlVars, selVars>>

MCNext ==
    \/ /\ URLTestIsSubject
       /\ URLTestNext
       /\ subject = "dials" => /\ UNCHANGED <<changes, closed>>
                               /\ \A t \in Tags : history'[t] # None => history'[t].delay = 1
       /\ subject = "overrides" => UNCHANGED <<dials, alive>>
    \/ SelectorIsSubject /\ SelNext
    \/ WatchdogIsSubject /\ WatchNext

\* Probes end by their timeout, a loop reads its channels and timers fire; nothing is assumed of
\* dials, of the operations on a group, of the manager or of the connection.  "a2" is the only
\* replacement there can be.
MCSpec ==
    /\ MCInit /\ [][MCNext]_mcVars
    /\ WF_mcVars(\/ /\ URLTestIsSubject
                    /\ \E pr \in probes, delay \in Delays \cup {None} : ReplacementProbed(pr, delay)
                 \/ WatchdogIsSubject /\ FirstTimerExpires)
    /\ WF_mcVars(\/ URLTestIsSubject /\ LoopEnds(FALSE)
                 \/ WatchdogIsSubject /\ (LooksForResponse \/ FireNoResponse))
=============================================================================
