--------------------------- MODULE MutableSelector ---------------------------
(***************************************************************************)
(* The selector group (protocol/group/mutableselector.go): membership, the *)
(* selected outbound, the selection kept in the cache file, and dials that *)
(* read the selection before and join the interrupt group after they have  *)
(* connected.  Restart is the program starting again with other members.   *)
(***************************************************************************)
EXTENDS Naturals, FiniteSets

CONSTANTS
    SelTags,
    SelObjects,     \* outbounds; a tag that is created again gets another one
    SelTagOf,
    SelDials,       \* identities of concurrent dials
    Nothing

ASSUME SelectorAssumption ==
    SelTagOf \in [SelObjects -> SelTags] /\ Nothing \notin SelObjects \cup SelTags

VARIABLES
    selManager,     \* external: the outbound registered under each tag
    selCreated,     \* external: the outbounds there have been
    group,          \* s.outbounds and s.tags, a partial function
    chosen,         \* s.selected
    cached,         \* the tag in the cache file
    dialing,        \* the outbound each dial in flight has read, a partial function
    conns,          \* connections of the interrupt group: their outbound, and whether they came late
    overtaken       \* dials in flight when the selection last moved

selVars == <<selManager, selCreated, group, chosen, cached, dialing, conns, overtaken>>

GroupObjects == {group[t] : t \in DOMAIN group}

\* Start with some of the tags: what the cache names is restored, otherwise the first is selected.
Started(tags) ==
    /\ group' = [t \in tags |-> selManager[t]]
    /\ chosen' \in IF tags = {} THEN {Nothing}
                   ELSE IF cached \in tags THEN {selManager[cached]}
                   ELSE {selManager[t] : t \in tags}
    /\ dialing' = [d \in {} |-> Nothing] /\ conns' = {} /\ overtaken' = {}

SelInit ==
    /\ selManager \in [SelTags -> SelObjects]
    /\ \A t \in SelTags : SelTagOf[selManager[t]] = t
    /\ selCreated = {selManager[t] : t \in SelTags}
    /\ group = [t \in {} |-> Nothing] /\ chosen = Nothing /\ cached = Nothing
    /\ dialing = [d \in {} |-> Nothing] /\ conns = {} /\ overtaken = {}

Restart(tags) ==
    /\ Started(tags)
    /\ UNCHANGED <<selManager, selCreated, cached>>

SelManagerCreates(o) ==
    /\ o \notin selCreated
    /\ selManager' = [selManager EXCEPT ![SelTagOf[o]] = o]
    /\ selCreated' = selCreated \cup {o}
    /\ UNCHANGED <<group, chosen, cached, dialing, conns, overtaken>>

\* selectOutbound: nothing happens to connections or the cache when the choice stays.
Selects_Silently(o) ==
    /\ chosen' = o
    /\ cached' = SelTagOf[o]
    /\ UNCHANGED <<conns, overtaken>>

Selects(o) ==
    /\ chosen' = o
    /\ IF chosen = o THEN UNCHANGED <<cached, conns, overtaken>>
       ELSE /\ cached' = SelTagOf[o]
            /\ conns' = {}
            /\ overtaken' = DOMAIN dialing

SelectTag(t) ==
    /\ t \in DOMAIN group
    /\ Selects(group[t])
    /\ UNCHANGED <<selManager, selCreated, group, dialing>>

\* Nothing is selected, not even in a group that was empty.
SelAdd(t) ==
    /\ t \notin DOMAIN group
    /\ group' = [u \in DOMAIN group \cup {t} |-> IF u = t THEN selManager[t] ELSE group[u]]
    /\ UNCHANGED <<selManager, selCreated, chosen, cached, dialing, conns, overtaken>>

SelReplace(t) ==
    /\ t \in DOMAIN group /\ selManager[t] # group[t]
    /\ group' = [group EXCEPT ![t] = selManager[t]]
    /\ chosen' = IF chosen = group[t] THEN selManager[t] ELSE chosen
    /\ UNCHANGED <<selManager, selCreated, cached, dialing, conns, overtaken>>

\* Any of the remaining members takes over from a removed selection.
SelRemove(t) ==
    /\ t \in DOMAIN group
    /\ group' = [u \in DOMAIN group \ {t} |-> group[u]]
    /\ \/ /\ chosen # Nothing /\ SelTagOf[chosen] # t
          /\ UNCHANGED <<chosen, cached, conns, overtaken>>
       \/ /\ DOMAIN group' = {} /\ (chosen # Nothing => SelTagOf[chosen] = t)
          /\ chosen' = Nothing
          /\ UNCHANGED <<cached, conns, overtaken>>
       \/ /\ chosen # Nothing => SelTagOf[chosen] = t
          /\ \E u \in DOMAIN group' : Selects(group[u])
    /\ UNCHANGED <<selManager, selCreated, dialing>>

SelDial(d) ==
    /\ d \notin DOMAIN dialing /\ chosen # Nothing
    /\ dialing' = [x \in DOMAIN dialing \cup {d} |-> IF x = d THEN chosen ELSE dialing[x]]
    /\ UNCHANGED <<selManager, selCreated, group, chosen, cached, conns, overtaken>>

\* The dial fails, or its connection joins the interrupt group.
SelDialed(d, connected) ==
    /\ d \in DOMAIN dialing
    /\ dialing' = [x \in DOMAIN dialing \ {d} |-> dialing[x]]
    /\ conns' = IF connected THEN conns \cup {[via |-> dialing[d], late |-> d \in overtaken]} ELSE conns
    /\ overtaken' = overtaken \ {d}
    /\ UNCHANGED <<selManager, selCreated, group, chosen, cached>>

SelNext ==
    \/ \E tags \in SUBSET SelTags : Restart(tags)
    \/ \E o \in SelObjects : SelManagerCreates(o)
    \/ \E t \in SelTags : SelectTag(t) \/ SelAdd(t) \/ SelReplace(t) \/ SelRemove(t)
    \/ \E d \in SelDials : SelDial(d) \/ SelDialed(d, TRUE) \/ SelDialed(d, FALSE)

SelSpec == SelInit /\ [][SelNext]_selVars

(***************************************************************************)
(* Properties                                                              *)
(***************************************************************************)

\* What is selected is the current outbound of a member, after any removal, replacement and restart,
\* so a dial never starts on an outbound that has left the group.
ChosenIsCurrent == chosen # Nothing => chosen \in GroupObjects

\* While something is selected, every connection of the group goes through the tag that is selected, unless its dial was in
\* flight when the selection moved (selectOutbound interrupts the others; Replace moves the
\* selection within its tag).
ConnectionsFollowSelection ==
    chosen # Nothing => \A c \in conns : c.late \/ SelTagOf[c.via] = SelTagOf[chosen]

\* The selection and the connections made under it belong to the present members.
SelectorIsCurrent == ChosenIsCurrent /\ ConnectionsFollowSelection
=============================================================================
