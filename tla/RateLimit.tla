----------------------------- MODULE RateLimit -----------------------------
(***************************************************************************)
(* The sockets of an Unbounded volunteer sharing one token bucket          *)
(* (protocol/unbounded/ratelimit.go, tokenbucket.go): writes wait for      *)
(* tokens in the order they ask, a wait ends early when its socket closes  *)
(* or its deadline passes, and deadlines move while a wait goes on.        *)
(*                                                                         *)
(* The bucket refills when it is looked at: elapsed is the time since the  *)
(* last look, and a unit of time is worth a token.  A socket has one write *)
(* in progress.  Its deadline is "none", "ahead" or "passed".              *)
(***************************************************************************)
EXTENDS Integers, Sequences, FiniteSets, SequencesExt

CONSTANTS
    Sockets,
    Timed,               \* those that begin with a deadline
    Burst,               \* most tokens the bucket holds
    Sizes,               \* of datagrams, none above Burst
    MaxTime,             \* bound on time, and so on tokens
    MaxWrites,           \* bound on writes
    MaxSettings          \* bound on settings of deadlines

ASSUME RateAssumption ==
    /\ {Burst, MaxTime, MaxWrites, MaxSettings} \subseteq Nat
    /\ Sizes \subseteq 1..Burst /\ Timed \subseteq Sockets

VARIABLES
    bucket,        \* tokens in the bucket, and time since it was last refilled
    queue,         \* the sockets whose waiters are in b.waiters, oldest first
    due,           \* what a socket's datagram costs
    at,            \* where its write is
    granted,       \* its waiter has its tokens
    moved,         \* its deadline was set since it was read
    timer,         \* time left on its wake-up timer
    notice,        \* b.changed was closed since it last polled
    deadline, closed,
    clock,
    spent,         \* tokens of bytes that were sent, and those a full bucket swallowed
    writes, settings

bucketVars == <<bucket, queue, granted, notice>>
counters == <<clock, writes, settings>>
rateVars == <<bucketVars, due, at, moved, timer, deadline, closed, spent, counters>>

RateInit ==
    /\ bucket = [tokens |-> Burst, elapsed |-> 0]
    /\ queue = <<>>
    /\ due = [s \in Sockets |-> 0]
    /\ at = [s \in Sockets |-> "idle"]
    /\ granted = [s \in Sockets |-> FALSE]
    /\ moved = [s \in Sockets |-> FALSE]
    /\ timer = [s \in Sockets |-> 0]
    /\ notice = [s \in Sockets |-> FALSE]
    /\ deadline = [s \in Sockets |-> IF s \in Timed THEN "ahead" ELSE "none"]
    /\ closed = [s \in Sockets |-> FALSE]
    /\ clock = 0 /\ spent = 0 /\ writes = 0 /\ settings = 0

(***************************************************************************)
(* The bucket                                                              *)
(***************************************************************************)
Smaller(a, b) == IF a < b THEN a ELSE b

\* refillLocked
Refilled == Smaller(Burst, bucket.tokens + bucket.elapsed)

Need(q) == FoldSeq(LAMBDA s, sum : due[s] + sum, 0, q)

\* grantLocked: how many at the head of the queue q the tokens cover.
Grants(q, tokens) ==
    CHOOSE k \in 0..Len(q) :
        /\ Need(SubSeq(q, 1, k)) <= tokens
        /\ k < Len(q) => Need(SubSeq(q, 1, k + 1)) > tokens

Granted(q, tokens) ==
    LET k == Grants(q, tokens)
        head == SubSeq(q, 1, k)
    IN /\ bucket' = [tokens |-> tokens - Need(head), elapsed |-> 0]
       /\ queue' = SubSeq(q, k + 1, Len(q))
       /\ granted' = [s \in Sockets |-> granted[s] \/ s \in Range(head)]

Over(x) == IF x > Burst THEN x - Burst ELSE 0

Spilled == Over(bucket.tokens + bucket.elapsed)

\* n tokens come back, the queue is q, and whoever can be granted is.
Returns(n, q) ==
    /\ Granted(q, Smaller(Burst, Refilled + n))
    /\ spent' = spent + Spilled + Over(Refilled + n)

\* notifyLocked, for those who are asleep.
NotifyLocked == notice' = [s \in Sockets |-> at'[s] = "asleep"]

Cancel_Silent(s) ==
    /\ IF granted[s] THEN Returns(due[s], queue)
       ELSE Returns(0, SelectSeq(queue, LAMBDA x : x # s))
    /\ UNCHANGED notice

\* cancel gives the tokens back if the waiter was granted meanwhile, and leaves the queue otherwise.
Cancel(s) ==
    /\ IF granted[s] THEN Returns(due[s], queue)
       ELSE Returns(0, SelectSeq(queue, LAMBDA x : x # s))
    /\ NotifyLocked

(***************************************************************************)
(* One write                                                               *)
(***************************************************************************)
Goes(s, stage) ==
    /\ at' = [at EXCEPT ![s] = stage]
    /\ timer' = [timer EXCEPT ![s] = 0]
    /\ due' = IF stage = "idle" THEN [due EXCEPT ![s] = 0] ELSE due

WriteStarts(s, n) ==
    /\ at[s] = "idle" /\ ~closed[s] /\ writes < MaxWrites
    /\ writes' = writes + 1
    /\ due' = [due EXCEPT ![s] = n]
    /\ at' = [at EXCEPT ![s] = "starting"]
    /\ granted' = [granted EXCEPT ![s] = FALSE]
    /\ UNCHANGED <<bucket, queue, notice, moved, timer, deadline, closed, spent, clock, settings>>

\* take: at once if nobody waits, and behind the others otherwise.
Take(s) ==
    /\ IF queue = <<>> /\ Refilled >= due[s]
       THEN bucket' = [tokens |-> Refilled - due[s], elapsed |-> 0] /\ Goes(s, "sending") /\ UNCHANGED queue
       ELSE bucket' = [tokens |-> Refilled, elapsed |-> 0] /\ queue' = Append(queue, s) /\ Goes(s, "waiting")
    /\ spent' = spent + Spilled

\* A socket that is closed or past its deadline spends nothing.
Begins(s) ==
    /\ at[s] = "starting"
    /\ moved' = [moved EXCEPT ![s] = FALSE]
    /\ IF closed[s] \/ deadline[s] = "passed"
       THEN /\ Goes(s, IF closed[s] THEN "idle" ELSE "refusing")
            /\ UNCHANGED <<bucket, queue, spent>>
       ELSE Take(s)
    /\ UNCHANGED <<granted, notice, deadline, closed, counters>>

\* A deadline that had passed counts only if nobody has moved it since it was read.
Unchanged(s) == ~moved[s]

Refuses(s) ==
    /\ at[s] = "refusing"
    /\ Goes(s, IF Unchanged(s) THEN "idle" ELSE "starting")
    /\ UNCHANGED <<bucketVars, moved, deadline, closed, spent, counters>>

\* The top of the loop: past the deadline, or poll, which refills, grants, and says how long until
\* the bucket covers the waiter and those ahead of it.
Poll(s) ==
    /\ Granted(queue, Refilled)
    /\ spent' = spent + Spilled
    /\ notice' = [notice EXCEPT ![s] = FALSE]
    /\ IF granted'[s] THEN Goes(s, "sending")
       ELSE LET place == CHOOSE i \in DOMAIN queue' : queue'[i] = s
            IN /\ at' = [at EXCEPT ![s] = "asleep"]
               /\ UNCHANGED due
               /\ timer' = [timer EXCEPT ![s] = Need(SubSeq(queue', 1, place)) - bucket'.tokens]

Loops(s) ==
    /\ at[s] = "waiting"
    /\ moved' = [moved EXCEPT ![s] = FALSE]
    /\ IF deadline[s] = "passed" THEN Goes(s, "judging") /\ UNCHANGED <<bucketVars, spent>> ELSE Poll(s)
    /\ UNCHANGED <<deadline, closed, counters>>

Judges(s) ==
    /\ at[s] = "judging"
    /\ IF Unchanged(s) THEN Goes(s, "idle") /\ Cancel(s)
       ELSE Goes(s, "waiting") /\ UNCHANGED <<bucketVars, spent>>
    /\ UNCHANGED <<moved, deadline, closed, counters>>

\* The select: any case that is ready may be taken.
WokenByGrant(s) == at[s] = "asleep" /\ granted[s] /\ Goes(s, "sending")
WokenToPoll(s) == at[s] = "asleep" /\ (timer[s] <= 0 \/ notice[s] \/ moved[s]) /\ Goes(s, "waiting")
WokenToEnd(s) ==
    /\ at[s] = "asleep" /\ (closed[s] \/ (deadline[s] = "passed" /\ Unchanged(s)))
    /\ Goes(s, "idle")
    /\ Cancel(s)

Wakes(s) ==
    /\ \/ (WokenByGrant(s) \/ WokenToPoll(s)) /\ notice' = [notice EXCEPT ![s] = FALSE]
          /\ UNCHANGED <<bucket, queue, granted, spent>>
       \/ WokenToEnd(s)
    /\ UNCHANGED <<moved, deadline, closed, counters>>

Sends(s) ==
    /\ at[s] = "sending" /\ ~closed[s] /\ deadline[s] # "passed"
    /\ spent' = spent + due[s]
    /\ Goes(s, "idle")
    /\ UNCHANGED <<bucketVars, moved, deadline, closed, counters>>

\* The socket was closed, is past its deadline or refuses for a reason of its own: refund.
SendFails(s) ==
    /\ at[s] = "sending"
    /\ Goes(s, "idle")
    /\ Returns(due[s], queue) /\ NotifyLocked
    /\ UNCHANGED <<moved, deadline, closed, counters>>

(***************************************************************************)
(* The rest of the world                                                   *)
(***************************************************************************)
SetDeadline(s, d) ==
    /\ settings < MaxSettings
    /\ settings' = settings + 1
    /\ deadline' = [deadline EXCEPT ![s] = d]
    /\ moved' = [moved EXCEPT ![s] = at[s] # "idle"]
    /\ UNCHANGED <<bucketVars, due, at, timer, closed, spent, clock, writes>>

CloseSocket(s) ==
    /\ ~closed[s]
    /\ closed' = [closed EXCEPT ![s] = TRUE]
    /\ UNCHANGED <<bucketVars, due, at, moved, timer, deadline, spent, counters>>

DeadlinePasses(s) ==
    /\ deadline[s] = "ahead"
    /\ deadline' = [deadline EXCEPT ![s] = "passed"]
    /\ UNCHANGED <<bucketVars, due, at, moved, timer, closed, spent, counters>>

Tick ==
    /\ clock < MaxTime
    /\ clock' = clock + 1
    /\ bucket' = [bucket EXCEPT !.elapsed = @ + 1]
    /\ timer' = [s \in Sockets |-> timer[s] - (IF timer[s] > 0 THEN 1 ELSE 0)]
    /\ UNCHANGED <<queue, granted, notice, due, at, moved, deadline, closed, spent, writes, settings>>

RateNext ==
    \/ \E s \in Sockets :
          \/ \E n \in Sizes : WriteStarts(s, n)
          \/ Begins(s) \/ Refuses(s) \/ Loops(s) \/ Judges(s) \/ Wakes(s) \/ Sends(s) \/ SendFails(s)
          \/ \E d \in {"none", "passed"} : SetDeadline(s, d)
          \/ CloseSocket(s) \/ DeadlinePasses(s)
    \/ Tick

(***************************************************************************)
(* Properties                                                              *)
(***************************************************************************)
Waiting(s) == at[s] \in {"waiting", "judging", "asleep"}

Held(s) == IF at[s] = "sending" \/ (Waiting(s) /\ granted[s]) THEN due[s] ELSE 0

\* Every token is in the bucket, held by one write, spent on bytes that were sent or swallowed by a
\* full bucket: a wait that is given up costs nobody anything, even if it is granted at that moment,
\* and nothing is given back twice.
TokensAreConserved ==
    LET held == FoldSet(LAMBDA s, sum : Held(s) + sum, 0, Sockets)
    IN bucket.tokens + bucket.elapsed + held + spent = Burst + clock

\* Nobody oversleeps: once the bucket covers a waiter and all ahead of it, the waiter has been
\* woken, its timer has run out or it is not asleep (poll, notifyLocked).
NobodyOversleeps ==
    \A i \in DOMAIN queue :
        LET s == queue[i]
        IN at[s] = "asleep" /\ Need(SubSeq(queue, 1, i)) <= Refilled => timer[s] <= 0 \/ notice[s]

\* A wait on an open socket is given up only for a deadline that has passed as it stands: one that
\* was moved away in time no longer counts (unchanged).
TimeoutIsCurrent ==
    [][\A s \in Sockets :
          Waiting(s) /\ at'[s] = "idle" /\ ~closed[s] => deadline[s] = "passed"]_rateVars

\* Tokens are granted in the order they were asked for: a write that finds others waiting never
\* goes before them (take, grantLocked).
NobodyIsOvertaken ==
    [][\A s, t \in Sockets :
          t \in Range(queue) /\ at[s] = "starting" /\ at'[s] = "sending" => t \notin Range(queue')]_rateVars

\* Tokens are dealt out in turn, and neither lost nor withheld, whatever is cancelled, closed or
\* given another deadline meanwhile.
TokensAreDealtInTurn ==
    /\ [](TokensAreConserved /\ NobodyOversleeps)
    /\ TimeoutIsCurrent /\ NobodyIsOvertaken
=============================================================================
