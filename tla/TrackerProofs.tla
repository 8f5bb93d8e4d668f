--------------------------- MODULE TrackerProofs ----------------------------
(***************************************************************************)
(* Proofs about the trackers around a connection: the data cap's throttler *)
(* and reporter, and the client's context, sent among its packets.         *)
(***************************************************************************)
EXTENDS Throttler, ClientInfoPackets, DatacapUsage, FiniteSetTheorems, TLAPS

(***************************************************************************)
(* The throttler: no period lets more bytes through than its rate allows,  *)
(* and none is charged for what another one promised.                      *)
(***************************************************************************)
\* The bytes a period may have let through by time t, and those it has promised.
Budget(t, since) == Rate * (1 + t - since)

\* The budget grows with time, by the rate a tick.
LEMMA BudgetGrows ==
  ASSUME NEW t \in Int, NEW u \in Int, NEW since \in Int
  PROVE  /\ Budget(t, since) \in Int
         /\ u <= t => Budget(u, since) <= Budget(t, since)
         /\ Budget(u, since) < Budget(t, since) + Rate => u <= t
<1> USE ThrottlerAssumption
<1>1. PICK d \in Int : d = t - u
  OBVIOUS
<1>2. Budget(t, since) = Budget(u, since) + Rate * d /\ Rate * d \in Int /\ Budget(u, since) \in Int
  BY <1>1 DEF Budget
<1>3. d >= 0 => Rate * d >= 0
  OBVIOUS
<1>4. d <= -1 => Rate * d <= -Rate
  OBVIOUS
<1> QED BY <1>1, <1>2, <1>3, <1>4

\* The budget is a number.
LEMMA BudgetIsInt ==
  ASSUME NEW t \in Int, NEW since \in Int
  PROVE  Budget(t, since) \in Int
BY ThrottlerAssumption DEF Budget

\* The opposite of a negative number is a natural one.
LEMMA DebtIsNat ==
  ASSUME NEW t \in Int, t < 0
  PROVE  -t \in Nat
OBVIOUS

\* The ticks a caller sleeps repay its debt, and none is too many.
LEMMA RepaidCovers ==
  ASSUME NEW debt \in Nat
  PROVE  Repaid(debt) \in Int /\ debt <= Rate * Repaid(debt) /\ Rate * Repaid(debt) <= debt + Rate - 1
<1> USE ThrottlerAssumption
<1>1. PICK a \in Nat : a = debt + Rate - 1
  OBVIOUS
<1>2. a \div Rate \in Int /\ a % Rate \in 0..(Rate - 1) /\ a = Rate * (a \div Rate) + (a % Rate)
  OBVIOUS
<1> QED BY <1>1, <1>2 DEF Repaid

CallerStates == [sleeps : BOOLEAN, until : Int, released : BOOLEAN, size : Nat]

ThrottlerTypeOK ==
    /\ now \in Nat /\ enabled \in BOOLEAN /\ tokens \in Int /\ lastRefill \in Nat
    /\ caller \in [Callers -> CallerStates]
    /\ period \in [since : Nat, through : Nat]
    /\ lastRefill <= now

\* Who sleeps off a debt of this period.
Charged(c) == {w \in Callers : c[w].sleeps /\ ~c[w].released}

\* The bytes a sleeper has been promised, the last of which is e.
Piece(n, e) == (e - n + 1)..e

\* The bytes of a period are numbered as they are taken, used of them so far: those in gone have
\* gone through by time t, and every sleeper holds its own.
Account(c, p, t, used, gone, end) ==
    /\ gone \subseteq 1..used /\ gone \subseteq 1..Budget(t, p.since)
    /\ Cardinality(gone) = p.through
    /\ \A w \in Charged(c) :
          /\ end[w] \in Int /\ c[w].size <= end[w] /\ end[w] <= used
          /\ end[w] <= Budget(c[w].until, p.since)
          /\ Budget(c[w].until, p.since) <= used + Rate - 1
          /\ Piece(c[w].size, end[w]) \cap gone = {}
    /\ \A w, x \in Charged(c) :
          w # x => Piece(c[w].size, end[w]) \cap Piece(c[x].size, end[x]) = {}

Used == Budget(lastRefill, period.since) - tokens

ThrottlerInv ==
    /\ ThrottlerTypeOK
    /\ ~enabled => Charged(caller) = {}
    /\ enabled => /\ tokens <= Rate /\ period.since <= lastRefill /\ 0 <= Used
                  /\ \E gone, end : Account(caller, period, now, Used, gone, end)

\* The lesser of two numbers.
LEMMA MinFacts ==
  ASSUME NEW a \in Int, NEW b \in Int
  PROVE  Min({a, b}) \in {a, b} /\ Min({a, b}) <= a /\ Min({a, b}) <= b
BY DEF Min

\* If the bytes of a period can be numbered as Account says, no more than the budget has gone
\* through.
LEMMA AccountHolds ==
  ASSUME ThrottlerTypeOK, NEW gone, NEW end, NEW used \in Int,
         Account(caller, period, now, used, gone, end), 
         period.since <= now
  PROVE  period.through <= Budget(now, period.since)
<1>1. Budget(now, period.since) \in Int /\ now \in Int /\ period.since \in Int /\ period.through \in Nat
  BY BudgetGrows DEF ThrottlerTypeOK
<1>2. PICK b : b = Budget(now, period.since)
  BY Zenon
<1>3. b \in Nat
  <2>1. Budget(period.since, period.since) <= b
    BY <1>1, <1>2, BudgetGrows, Zenon
  <2>2. Budget(period.since, period.since) = Rate
    BY <1>1, ThrottlerAssumption DEF Budget
  <2> QED BY <1>1, <1>2, <2>1, <2>2, ThrottlerAssumption
<1>4. IsFiniteSet(1..b) /\ Cardinality(1..b) = b
  BY <1>3, FS_Interval
<1>5. gone \subseteq 1..b /\ Cardinality(gone) = period.through
  BY <1>2, Zenon DEF Account
<1>6. Cardinality(gone) <= Cardinality(1..b)
  BY <1>4, <1>5, FS_Subset, Zenon
<1> QED BY <1>2, <1>4, <1>5, <1>6, Zenon

\* UpdateRates: the refresh keeps the tokens owed, or starts a period.
LEMMA UpdateKeeps ==
  ASSUME ThrottlerInv, UpdateRates
  PROVE  ThrottlerInv'
<1>0. ThrottlerTypeOK /\ Rate \in Nat \ {0}
  BY ThrottlerAssumption, Zenon DEF ThrottlerInv
<1>1. CASE enabled
  <2>1. tokens <= Rate
    BY <1>1, Zenon DEF ThrottlerInv
  <2>2. tokens' = tokens
    BY <1>0, <1>1, <2>1, MinFacts DEF UpdateRates, ThrottlerTypeOK
  <2>3. UNCHANGED <<now, lastRefill, period, caller>> /\ enabled' = TRUE
    BY <1>1, Zenon DEF UpdateRates
  <2> QED BY <1>1, <2>2, <2>3, Zenon DEF ThrottlerInv, ThrottlerTypeOK, Used
<1>2. CASE ~enabled
  <2>1. /\ tokens' = Rate /\ lastRefill' = now /\ period' = [since |-> now, through |-> 0]
        /\ UNCHANGED <<now, caller>> /\ enabled' = TRUE
    BY <1>2, Zenon DEF UpdateRates
  <2>2. ThrottlerTypeOK'
    BY <1>0, <2>1 DEF ThrottlerTypeOK
  <2>3. Used' = 0 /\ period'.since = now /\ period'.through = 0
    BY <1>0, <2>1 DEF Used, Budget, ThrottlerTypeOK
  <2>4. Charged(caller') = {}
    BY <1>2, <2>1, Zenon DEF ThrottlerInv
  <2>5. Account(caller', period', now', Used', {}, <<>>)
    BY <2>3, <2>4, FS_EmptySet, Zenon DEF Account
  <2> QED BY <1>0, <2>1, <2>2, <2>3, <2>5 DEF ThrottlerInv, ThrottlerTypeOK
<1> QED BY <1>1, <1>2, Zenon

\* Disable releases every sleeper.
LEMMA DisableKeeps ==
  ASSUME ThrottlerInv, Disable
  PROVE  ThrottlerInv'
<1>1. ThrottlerTypeOK'
  BY Zenon DEF ThrottlerInv, ThrottlerTypeOK, Disable, CallerStates
<1>2. Charged(caller') = {}
  BY Zenon DEF ThrottlerInv, ThrottlerTypeOK, Disable, CallerStates, Charged
<1> QED BY <1>1, <1>2, Zenon DEF ThrottlerInv, Disable

\* Time passes: whoever has slept off its debt goes through, with its own bytes.
LEMMA TimeKeeps ==
  ASSUME ThrottlerInv, TimePasses
  PROVE  ThrottlerInv'
<1>0. ThrottlerTypeOK
  BY Zenon DEF ThrottlerInv
<1>1. now' = now + 1 /\ UNCHANGED <<enabled, tokens, lastRefill, caller, period>>
  BY Zenon DEF TimePasses
<1>2. ThrottlerTypeOK' /\ Used' = Used
  BY <1>0, <1>1 DEF ThrottlerTypeOK, Used
<1>3. ASSUME NEW gone, NEW end, Account(caller, period, now, Used, gone, end)
      PROVE  Account(caller', period', now', Used', gone, end)
  <2>1. /\ Budget(now, period.since) <= Budget(now + 1, period.since)
        /\ Budget(now, period.since) \in Int /\ Budget(now + 1, period.since) \in Int
    <3>1. PICK t \in Int : t = now + 1 /\ now <= t /\ now \in Int /\ period.since \in Int
      BY <1>0 DEF ThrottlerTypeOK
    <3>2. /\ Budget(now, period.since) <= Budget(t, period.since)
          /\ Budget(now, period.since) \in Int /\ Budget(t, period.since) \in Int
      BY <3>1, BudgetGrows, Zenon
    <3> QED BY <3>1, <3>2, Zenon
  <2>2. gone \subseteq 1..Budget(now + 1, period.since)
    BY <1>3, <2>1 DEF Account
  <2> QED BY <1>1, <1>2, <1>3, <2>2, Zenon DEF Account
<1> QED BY <1>1, <1>2, <1>3, Zenon DEF ThrottlerInv

\* A caller that is woken or interrupted.
LEMMA RisingKeeps ==
  ASSUME ThrottlerInv, NEW w \in Callers, Woken(w) \/ Interrupted(w)
  PROVE  ThrottlerInv'
<1>0. ThrottlerTypeOK
  BY Zenon DEF ThrottlerInv
<1>1. /\ caller[w].sleeps /\ caller' = [caller EXCEPT ![w] = Idle]
      /\ UNCHANGED <<now, enabled, tokens, lastRefill>>
  BY Zenon DEF Woken, Interrupted
<1>2. /\ caller' \in [Callers -> CallerStates]
      /\ caller[w].size \in Nat /\ caller[w].until \in Int /\ caller[w].released \in BOOLEAN
  BY <1>0, <1>1 DEF ThrottlerTypeOK, CallerStates, Idle
<1>3. /\ Charged(caller') = Charged(caller) \ {w}
      /\ \A x \in Charged(caller) \ {w} : caller'[x] = caller[x]
  BY <1>0, <1>1, Zenon DEF Charged, Idle, ThrottlerTypeOK
<1>4. CASE UNCHANGED period
  <2>1. ThrottlerTypeOK' /\ Used' = Used
    BY <1>0, <1>1, <1>2, <1>4, Zenon DEF ThrottlerTypeOK, Used
  <2>2. ASSUME NEW gone, NEW end, Account(caller, period, now, Used, gone, end)
        PROVE  Account(caller', period', now', Used', gone, end)
    BY <1>1, <1>3, <1>4, <2>1, <2>2, Zenon DEF Account
  <2> QED BY <1>1, <1>3, <1>4, <2>1, <2>2, Zenon DEF ThrottlerInv
<1>5. CASE Woken(w) /\ ~caller[w].released
  <2>1. PICK n \in Nat, u \in Int : n = caller[w].size /\ u = caller[w].until
    BY <1>2, Zenon
  <2>2. /\ period' = [period EXCEPT !.through = period.through + n] /\ now >= u
    BY <1>5, <2>1, Zenon DEF Woken
  <2>3. /\ period' \in [since : Nat, through : Nat] /\ period'.since = period.since
        /\ period'.through = period.through + n /\ period.through \in Nat /\ period.since \in Nat
    BY <1>0, <2>2 DEF ThrottlerTypeOK
  <2>4. ThrottlerTypeOK' /\ Used' = Used
    BY <1>0, <1>1, <1>2, <2>3, Zenon DEF ThrottlerTypeOK, Used
  <2>5. w \in Charged(caller)
    BY <1>1, <1>5, Zenon DEF Charged
  <2>6. ASSUME NEW gone, NEW end, Account(caller, period, now, Used, gone, end), Used \in Int
        PROVE  Account(caller', period', now', Used', gone \cup Piece(n, end[w]), end)
    <3>1. PICK e \in Int : e = end[w]
      BY <2>5, <2>6, Zenon DEF Account
    <3>2. /\ n <= e /\ e <= Used /\ e <= Budget(u, period.since) /\ Piece(n, e) \cap gone = {}
      BY <2>1, <2>5, <2>6, <3>1, Zenon DEF Account
    <3>3. /\ Budget(u, period.since) <= Budget(now, period.since) /\ Budget(u, period.since) \in Int
          /\ Budget(now, period.since) \in Int
      <4>1. now \in Int /\ period.since \in Int /\ u <= now
        BY <1>0, <2>1, <2>2 DEF ThrottlerTypeOK
      <4> QED BY <2>1, <4>1, BudgetGrows, Zenon
    <3>4. Piece(n, e) \subseteq 1..Used /\ Piece(n, e) \subseteq 1..Budget(now, period.since)
      BY <2>1, <2>6, <3>2, <3>3 DEF Piece
    <3>5. gone \subseteq 1..Used /\ gone \subseteq 1..Budget(now, period.since)
          /\ Cardinality(gone) = period.through
      BY <2>6, Zenon DEF Account
    <3>6. IsFiniteSet(gone)
      <4>1. IsFiniteSet(1..Used)
        BY <2>6, FS_Interval
      <4> QED BY <3>5, <4>1, FS_Subset, Zenon
    <3>7. IsFiniteSet(Piece(n, e)) /\ Cardinality(Piece(n, e)) = n
      <4>1. e - n + 1 \in Int
        BY <2>1
      <4>2. IsFiniteSet((e - n + 1)..e) /\ Cardinality((e - n + 1)..e) = IF e - n + 1 > e THEN 0 ELSE e - (e - n + 1) + 1
        BY <4>1, FS_Interval, Zenon
      <4> QED BY <2>1, <4>2 DEF Piece
    <3>8. Cardinality(gone \cup Piece(n, e)) = period.through + n
      <4>1. Cardinality(gone \cup Piece(n, e)) = Cardinality(gone) + Cardinality(Piece(n, e)) - Cardinality(gone \cap Piece(n, e))
        BY <3>6, <3>7, FS_Union, Zenon
      <4>2. Cardinality(gone \cap Piece(n, e)) = 0
        <5>1. gone \cap Piece(n, e) = {}
          BY <3>2, Zenon
        <5> QED BY <5>1, FS_EmptySet, Zenon
      <4>3. Cardinality(gone) = period.through /\ Cardinality(Piece(n, e)) = n
        BY <3>5, <3>7, Zenon
      <4> QED BY <2>1, <2>3, <4>1, <4>2, <4>3
    <3>9. ASSUME NEW x \in Charged(caller')
          PROVE  /\ end[x] \in Int /\ caller'[x].size <= end[x] /\ end[x] <= Used
                 /\ end[x] <= Budget(caller'[x].until, period.since)
                 /\ Budget(caller'[x].until, period.since) <= Used + Rate - 1
                 /\ Piece(caller'[x].size, end[x]) \cap (gone \cup Piece(n, e)) = {}
      <4>1. x \in Charged(caller) /\ x # w /\ caller'[x] = caller[x]
        BY <1>3, Zenon
      <4>2. Piece(caller[x].size, end[x]) \cap Piece(n, e) = {}
        BY <2>1, <2>5, <2>6, <3>1, <4>1, Zenon DEF Account
      <4> QED BY <2>6, <4>1, <4>2, Zenon DEF Account
    <3>10. \A x, y \in Charged(caller') :
             x # y => Piece(caller'[x].size, end[x]) \cap Piece(caller'[y].size, end[y]) = {}
      BY <1>3, <2>6, Zenon DEF Account
    <3> QED BY <1>1, <2>3, <2>4, <3>1, <3>4, <3>5, <3>8, <3>9, <3>10, Zenon DEF Account
  <2>7. Used \in Int
    <3>1. lastRefill \in Int /\ period.since \in Int /\ tokens \in Int
      BY <1>0 DEF ThrottlerTypeOK
    <3>2. Budget(lastRefill, period.since) \in Int
      BY <3>1, BudgetIsInt, Zenon
    <3> QED BY <3>1, <3>2 DEF Used
  <2> QED BY <1>1, <1>3, <2>3, <2>4, <2>6, <2>7, Zenon DEF ThrottlerInv
<1> QED BY <1>4, <1>5, Zenon DEF Woken, Interrupted

\* What wait leaves in the bucket, and what it has promised then.
LEMMA WaitUses ==
  ASSUME ThrottlerInv, enabled, NEW w \in Callers, NEW n \in Sizes, Wait(w, n)
  PROVE  /\ tokens' \in Int /\ tokens' <= Rate /\ n \in Nat \ {0} /\ Used \in Int /\ Used' \in Int
         /\ Used + n <= Used' /\ Used' = Budget(now, period.since) - tokens'
<1>0. /\ ThrottlerTypeOK /\ tokens <= Rate /\ Rate \in Nat \ {0} /\ n \in Nat \ {0}
      /\ now \in Int /\ lastRefill \in Int /\ period.since \in Int /\ tokens \in Int
  BY ThrottlerAssumption DEF ThrottlerInv, ThrottlerTypeOK
<1>1. PICK d \in Nat : d = now - lastRefill
  BY <1>0 DEF ThrottlerTypeOK
<1>2. /\ Budget(now, period.since) = Budget(lastRefill, period.since) + Rate * d
      /\ Rate * d \in Nat /\ Budget(lastRefill, period.since) \in Int /\ d * Rate = Rate * d
  BY <1>0, <1>1 DEF Budget
<1>3. PICK a \in Int : a = tokens + (now - lastRefill) * Rate /\ a = tokens + Rate * d
  BY <1>0, <1>1, <1>2
<1>4. Min({Rate, a}) \in Int /\ Min({Rate, a}) <= Rate /\ Min({Rate, a}) <= a
  <2>1. Rate \in Int
    BY <1>0
  <2>2. Min({Rate, a}) \in {Rate, a} /\ Min({Rate, a}) <= Rate /\ Min({Rate, a}) <= a
    BY <1>3, <2>1, MinFacts, Zenon
  <2> QED BY <1>3, <2>1, <2>2, Zenon
<1>5. PICK r \in Int : r = Min({Rate, a}) /\ r <= Rate /\ r <= a
  BY <1>4, Zenon
<1>6. Refilled = r
  BY <1>3, <1>5, Zenon DEF Refilled
<1>7. tokens' = r - n /\ lastRefill' = now /\ period'.since = period.since
  BY <1>0, <1>6, Zenon DEF Wait, ThrottlerTypeOK
<1>8. Used' = Budget(now, period.since) - tokens'
  BY <1>7, Zenon DEF Used
<1>9. Used = Budget(lastRefill, period.since) - tokens
  BY Zenon DEF Used
<1> QED BY <1>0, <1>2, <1>3, <1>5, <1>7, <1>8, <1>9

\* WaitRead and WaitWrite: a caller takes the next bytes of the period, and sleeps until its
\* budget covers them.
LEMMA WaitKeeps ==
  ASSUME ThrottlerInv, NEW w \in Callers, NEW n \in Sizes, Wait(w, n)
  PROVE  ThrottlerInv'
<1>0. ThrottlerTypeOK /\ enabled /\ ~caller[w].sleeps /\ Rate \in Nat \ {0}
  BY ThrottlerAssumption, Zenon DEF ThrottlerInv, Wait
<1>1. /\ tokens' \in Int /\ tokens' <= Rate /\ n \in Nat \ {0} /\ Used \in Int /\ Used' \in Int
      /\ Used + n <= Used' /\ Used' = Budget(now, period.since) - tokens'
  BY <1>0, WaitUses, Zenon
<1>2. /\ lastRefill' = now /\ UNCHANGED <<now, enabled>> /\ now \in Int /\ period.since \in Int
      /\ period.since <= now
  BY <1>0 DEF Wait, ThrottlerInv, ThrottlerTypeOK
<1>3. PICK gone, end : Account(caller, period, now, Used, gone, end)
  BY <1>0, Zenon DEF ThrottlerInv
<1>4. PICK used \in Int : used = Used /\ 0 <= used
  BY <1>0, <1>1, Zenon DEF ThrottlerInv
<1>5. PICK last \in Int : last = Used' /\ used + n <= last
  BY <1>1, <1>4, Zenon
<1>6. PICK b \in Int : b = Budget(now, period.since)
  BY <1>2, BudgetIsInt, Zenon
<1>7. /\ gone \subseteq 1..used /\ gone \subseteq 1..b /\ Cardinality(gone) = period.through
      /\ IsFiniteSet(gone)
  <2>1. gone \subseteq 1..used /\ gone \subseteq 1..b /\ Cardinality(gone) = period.through
    BY <1>3, <1>4, <1>6, Zenon DEF Account
  <2>2. IsFiniteSet(1..used)
    BY FS_Interval
  <2> QED BY <2>1, <2>2, FS_Subset, Zenon
<1>8. \A x \in Charged(caller) : 
        /\ end[x] \in Int /\ caller[x].size <= end[x] /\ end[x] <= used
        /\ caller[x].size \in Nat /\ Budget(caller[x].until, period.since) \in Int
        /\ end[x] <= Budget(caller[x].until, period.since)
        /\ Budget(caller[x].until, period.since) <= used + Rate - 1
        /\ Piece(caller[x].size, end[x]) \cap gone = {}
  <2> SUFFICES ASSUME NEW x \in Charged(caller)
               PROVE  /\ end[x] \in Int /\ caller[x].size <= end[x] /\ end[x] <= used
                      /\ caller[x].size \in Nat /\ Budget(caller[x].until, period.since) \in Int
                      /\ end[x] <= Budget(caller[x].until, period.since)
                      /\ Budget(caller[x].until, period.since) <= used + Rate - 1
                      /\ Piece(caller[x].size, end[x]) \cap gone = {}
    BY Zenon
  <2>1. caller[x].size \in Nat /\ caller[x].until \in Int
    BY <1>0, Zenon DEF Charged, ThrottlerTypeOK, CallerStates
  <2>2. Budget(caller[x].until, period.since) \in Int
    BY <1>2, <2>1, BudgetIsInt, Zenon
  <2> QED BY <1>3, <1>4, <2>1, <2>2, Zenon DEF Account
<1>9. \A x, y \in Charged(caller) :
        x # y => Piece(caller[x].size, end[x]) \cap Piece(caller[y].size, end[y]) = {}
  BY <1>3, Zenon DEF Account
\* the new bytes are numbered after all the others
<1>10. /\ Piece(n, last) \subseteq 1..last /\ Piece(n, last) \cap gone = {}
       /\ \A x \in Charged(caller) : Piece(caller[x].size, end[x]) \cap Piece(n, last) = {}
  BY <1>1, <1>4, <1>5, <1>7, <1>8 DEF Piece
<1>11. CASE tokens' >= 0
  <2>1. period' = [period EXCEPT !.through = period.through + n] /\ UNCHANGED caller
    BY <1>11, Zenon DEF Wait
  <2>2. /\ period' \in [since : Nat, through : Nat] /\ period'.since = period.since
        /\ period'.through = period.through + n /\ period.through \in Nat
    BY <1>0, <1>1, <2>1 DEF ThrottlerTypeOK
  <2>3. last <= b
    BY <1>1, <1>5, <1>6, <1>11
  <2>4. Cardinality(gone \cup Piece(n, last)) = period.through + n
    <3>1. last - n + 1 \in Int
      BY <1>1
    <3>2. IsFiniteSet((last - n + 1)..last) /\ Cardinality((last - n + 1)..last) = IF last - n + 1 > last THEN 0 ELSE last - (last - n + 1) + 1
      BY <3>1, FS_Interval, Zenon
    <3>3. IsFiniteSet(Piece(n, last)) /\ Cardinality(Piece(n, last)) = n
      BY <1>1, <3>2 DEF Piece
    <3>4. Cardinality(gone \cup Piece(n, last)) = Cardinality(gone) + Cardinality(Piece(n, last)) - Cardinality(gone \cap Piece(n, last))
      BY <1>7, <3>3, FS_Union, Zenon
    <3>5. Cardinality(gone \cap Piece(n, last)) = 0
      <4>1. gone \cap Piece(n, last) = {}
        BY <1>10, Zenon
      <4> QED BY <4>1, FS_EmptySet, Zenon
    <3>6. Cardinality(gone) = period.through
      BY <1>7, Zenon
    <3> QED BY <1>1, <2>2, <3>3, <3>4, <3>5, <3>6
  <2>5. gone \cup Piece(n, last) \subseteq 1..last /\ gone \cup Piece(n, last) \subseteq 1..b
    <3>1. Piece(n, last) \subseteq 1..b
      BY <1>10, <2>3
    <3>2. gone \subseteq 1..last
      BY <1>1, <1>4, <1>5, <1>7
    <3> QED BY <1>7, <1>10, <3>1, <3>2, Zenon
  <2>6. Account(caller', period', now', last, gone \cup Piece(n, last), end)
    <3>1. ASSUME NEW x \in Charged(caller)
          PROVE  /\ end[x] \in Int /\ caller[x].size <= end[x] /\ end[x] <= last
                 /\ end[x] <= Budget(caller[x].until, period.since)
                 /\ Budget(caller[x].until, period.since) <= last + Rate - 1
                 /\ Piece(caller[x].size, end[x]) \cap (gone \cup Piece(n, last)) = {}
      <4>1. Piece(caller[x].size, end[x]) \cap (gone \cup Piece(n, last)) = {}
        BY <1>8, <1>10, Zenon
      <4> QED BY <1>0, <1>1, <1>5, <1>8, <4>1
    <3> QED BY <1>2, <1>6, <1>9, <2>1, <2>2, <2>4, <2>5, <3>1, Zenon DEF Account
  <2>7. ThrottlerTypeOK'
    BY <1>0, <1>1, <1>2, <2>1, <2>2 DEF ThrottlerTypeOK
  <2> QED BY <1>0, <1>1, <1>2, <1>4, <1>5, <2>2, <2>6, <2>7 DEF ThrottlerInv
<1>12. CASE tokens' < 0
  <2>1. PICK debt \in Nat : debt = -tokens'
    <3>1. PICK t \in Int : t = tokens'
      BY <1>1, Zenon
    <3>2. -t \in Nat
      BY <1>12, <3>1, DebtIsNat, Zenon
    <3> QED BY <3>1, <3>2, Zenon
  <2>2. PICK k \in Int : k = Repaid(debt) /\ debt <= Rate * k /\ Rate * k <= debt + Rate - 1
    BY RepaidCovers, Zenon
  <2>3. PICK u \in Int : u = now + k
    BY <1>2
  <2>4. UNCHANGED period /\ caller' = [caller EXCEPT ![w] =
                    [sleeps |-> TRUE, until |-> u, released |-> FALSE, size |-> n]]
    <3>1. tokens' = Refilled - n
      BY Zenon DEF Wait
    <3> QED BY <1>12, <2>1, <2>2, <2>3, <3>1, <1>1 DEF Wait
  <2>5. Budget(u, period.since) = b + Rate * k /\ Rate * k \in Int
    BY <1>0, <1>2, <1>6, <2>3 DEF Budget
  <2>6. last = b + debt
    BY <1>1, <1>5, <1>6, <2>1, Zenon
  <2>7. last <= Budget(u, period.since) /\ Budget(u, period.since) <= last + Rate - 1
    BY <1>0, <2>2, <2>5, <2>6
  <2>8. /\ Charged(caller') = Charged(caller) \cup {w} /\ w \notin Charged(caller)
        /\ caller'[w].size = n /\ caller'[w].until = u
        /\ \A x \in Charged(caller) : caller'[x] = caller[x]
    BY <1>0, <2>4, Zenon DEF Charged, ThrottlerTypeOK
  <2> DEFINE end1 == [x \in Callers |-> IF x = w THEN last ELSE end[x]]
  <2>9. end1[w] = last /\ \A x \in Charged(caller) : end1[x] = end[x]
    BY <2>8, Zenon DEF Charged
  <2> HIDE DEF end1
  <2>10. ASSUME NEW x \in Charged(caller')
         PROVE  /\ end1[x] \in Int /\ caller'[x].size <= end1[x] /\ end1[x] <= last
                /\ end1[x] <= Budget(caller'[x].until, period.since)
                /\ Budget(caller'[x].until, period.since) <= last + Rate - 1
                /\ Piece(caller'[x].size, end1[x]) \cap gone = {}
    <3>1. CASE x = w
      BY <1>1, <1>4, <1>5, <1>10, <2>7, <2>8, <2>9, <3>1
    <3>2. CASE x # w
      BY <1>0, <1>1, <1>5, <1>8, <2>8, <2>9, <3>2
    <3> QED BY <3>1, <3>2, Zenon
  <2>11. ASSUME NEW x \in Charged(caller'), NEW y \in Charged(caller'), x # y
         PROVE  Piece(caller'[x].size, end1[x]) \cap Piece(caller'[y].size, end1[y]) = {}
    <3>1. CASE x = w
      BY <1>10, <2>8, <2>9, <2>11, <3>1, Zenon
    <3>2. CASE y = w
      BY <1>10, <2>8, <2>9, <2>11, <3>2, Zenon
    <3>3. CASE x # w /\ y # w
      BY <1>9, <2>8, <2>9, <2>11, <3>3, Zenon
    <3> QED BY <3>1, <3>2, <3>3, Zenon
  <2>12. gone \subseteq 1..last
    BY <1>1, <1>4, <1>5, <1>7
  <2>13. Account(caller', period', now', last, gone, end1)
    BY <1>2, <1>6, <1>7, <2>4, <2>10, <2>11, <2>12, Zenon DEF Account
  <2>14. caller' \in [Callers -> CallerStates]
    BY <1>0, <1>1, <2>4, Zenon DEF ThrottlerTypeOK, CallerStates
  <2>15. ThrottlerTypeOK'
    BY <1>0, <1>1, <1>2, <2>4, <2>14 DEF ThrottlerTypeOK
  <2> QED BY <1>0, <1>1, <1>2, <1>4, <1>5, <2>4, <2>13, <2>15 DEF ThrottlerInv
<1> QED BY <1>1, <1>11, <1>12

\* Every step keeps the invariant.
LEMMA ThrottlerStep == ThrottlerInv /\ [ThrottlerNext]_throttlerVars => ThrottlerInv'
<1> SUFFICES ASSUME ThrottlerInv, [ThrottlerNext]_throttlerVars PROVE ThrottlerInv'
  BY Zenon
<1>1. CASE UNCHANGED throttlerVars
  <2>1. UNCHANGED <<now, enabled, tokens, lastRefill, caller, period>>
    BY <1>1, Zenon DEF throttlerVars
  <2> QED BY <2>1, Zenon DEF ThrottlerInv, ThrottlerTypeOK, Used
<1> QED
  BY <1>1, UpdateKeeps, DisableKeeps, TimeKeeps, RisingKeeps, WaitKeeps, Zenon
  DEF ThrottlerNext, UpdateThrottleState

\* A caller that begins to sleep.
QueuesBehind ==
    \A w, x \in Callers :
        w \in Sleeping /\ ~caller[w].released /\ x \notin Sleeping /\ caller'[x].sleeps =>
            caller[w].until <= caller'[x].until \/ caller[w].until <= now

\* A caller that begins to sleep wakes no earlier than those that sleep already.
LEMMA SleepersQueue ==
  ASSUME ThrottlerInv, [ThrottlerNext]_throttlerVars
  PROVE  [QueuesBehind]_throttlerVars
<1> SUFFICES ASSUME NEW w \in Callers, NEW x \in Callers, w \in Sleeping, ~caller[w].released,
                    x \notin Sleeping, caller'[x].sleeps
             PROVE  caller[w].until <= caller'[x].until
  BY Zenon DEF QueuesBehind
<1>0. ThrottlerTypeOK /\ w \in Charged(caller) /\ ~caller[x].sleeps /\ Rate \in Nat \ {0}
  BY ThrottlerAssumption, Zenon DEF ThrottlerInv, Charged, Sleeping
<1>1. PICK n \in Sizes : Wait(x, n) /\ Refilled - n < 0
  <2>1. caller' # caller
    BY <1>0, Zenon
  <2>2. \/ Disable
        \/ \E y \in Callers : (\E n \in Sizes : Wait(y, n)) \/ Woken(y) \/ Interrupted(y)
    BY <2>1, Zenon DEF ThrottlerNext, UpdateThrottleState, UpdateRates, TimePasses, throttlerVars
  <2>3. CASE Disable
    BY <1>0, <2>3, Zenon DEF Disable, ThrottlerTypeOK, CallerStates
  <2>4. ASSUME NEW y \in Callers, Woken(y) \/ Interrupted(y) PROVE FALSE
    BY <1>0, <2>4, Zenon DEF Woken, Interrupted, Idle, ThrottlerTypeOK
  <2>5. ASSUME NEW y \in Callers, NEW n \in Sizes, Wait(y, n) PROVE y = x /\ Refilled - n < 0
    <3>1. ~(Refilled - n >= 0)
      BY <2>1, <2>5, Zenon DEF Wait
    <3>2. y = x
      BY <1>0, <2>5, <3>1, Zenon DEF Wait, ThrottlerTypeOK
    <3>3. Refilled - n \in Int
      <4>1. enabled /\ tokens' = Refilled - n
        BY <2>5, Zenon DEF Wait
      <4> QED BY <2>5, <4>1, WaitUses, Zenon
    <3> QED BY <3>1, <3>2, <3>3
  <2> QED BY <2>2, <2>3, <2>4, <2>5, Zenon
<1>2. enabled /\ tokens' = Refilled - n
  BY <1>1, Zenon DEF Wait
<1>3. /\ tokens' \in Int /\ tokens' <= Rate /\ n \in Nat \ {0} /\ Used \in Int /\ Used' \in Int
      /\ Used + n <= Used' /\ Used' = Budget(now, period.since) - tokens'
  BY <1>1, <1>2, WaitUses, Zenon
<1>4. PICK t \in Int : t = tokens' /\ t < 0
  BY <1>1, <1>2, <1>3, Zenon
<1>5. PICK debt \in Nat : debt = -t
  BY <1>4, DebtIsNat, Zenon
<1>6. PICK k \in Int : k = Repaid(debt) /\ debt <= Rate * k /\ Rate * k <= debt + Rate - 1
  BY RepaidCovers, Zenon
<1>7. PICK u \in Int : u = now + k /\ now \in Int /\ period.since \in Int
  BY <1>0 DEF ThrottlerTypeOK
<1>8. caller'[x].until = u
  <2>1. caller' = [caller EXCEPT ![x] =
                    [sleeps |-> TRUE, until |-> now + Repaid(-(Refilled - n)), released |-> FALSE, size |-> n]]
    BY <1>1, <1>2, <1>3, <1>4, Zenon DEF Wait
  <2>2. -(Refilled - n) = debt
    BY <1>2, <1>4, <1>5, Zenon
  <2> QED BY <1>0, <1>6, <1>7, <2>1, <2>2, Zenon DEF ThrottlerTypeOK
<1>9. PICK v \in Int : v = caller[w].until
  BY <1>0, Zenon DEF ThrottlerTypeOK, CallerStates
<1>10. Budget(v, period.since) <= Used + Rate - 1
  BY <1>0, <1>2, <1>9, Zenon DEF ThrottlerInv, Account
<1>11. /\ Budget(u, period.since) = Budget(now, period.since) + Rate * k /\ Rate * k \in Int
       /\ Budget(now, period.since) \in Int /\ Budget(v, period.since) \in Int
  BY <1>0, <1>7 DEF Budget
<1>12. Used' <= Budget(u, period.since)
  BY <1>3, <1>4, <1>5, <1>6, <1>11
<1>13. Budget(v, period.since) < Budget(u, period.since) + Rate
  BY <1>0, <1>3, <1>10, <1>11, <1>12
<1>14. v <= u
  BY <1>7, <1>9, <1>13, BudgetGrows, Zenon
<1> QED BY <1>8, <1>9, <1>14, Zenon

\* ThrottleIsFair for all rates, sizes and callers: a throttled device gets no more than one burst
\* and its rate although every report refreshes the rates, later callers queue, and nobody sleeps
\* once Disable has run.
THEOREM ThrottleAlwaysFair == ThrottlerSpec => ThrottleIsFair
<1>1. ThrottlerInit => ThrottlerInv
  <2> SUFFICES ASSUME ThrottlerInit PROVE ThrottlerInv
    BY Zenon
  <2>1. Charged(caller) = {}
    BY Zenon DEF ThrottlerInit, Charged, Idle
  <2>2. caller \in [Callers -> CallerStates]
    BY DEF ThrottlerInit, Idle, CallerStates
  <2>3. ThrottlerTypeOK
    <3>1. period \in [since : Nat, through : Nat]
      BY Zenon DEF ThrottlerInit
    <3>2. /\ now \in Nat /\ enabled \in BOOLEAN /\ tokens \in Int /\ lastRefill \in Nat
          /\ lastRefill <= now
      <4>1. now = 0 /\ tokens = 0 /\ lastRefill = 0
        BY Zenon DEF ThrottlerInit
      <4>2. enabled \in BOOLEAN
        BY Zenon DEF ThrottlerInit
      <4>3. now \in Nat /\ tokens \in Int /\ lastRefill \in Nat /\ lastRefill <= now
        BY <4>1
      <4> QED BY <4>2, <4>3, Zenon
    <3> QED BY <2>2, <3>1, <3>2, Zenon DEF ThrottlerTypeOK
  <2> QED BY <2>1, <2>3, Zenon DEF ThrottlerInit, ThrottlerInv
<1>2. ThrottlerInv => RateHolds
  <2> SUFFICES ASSUME ThrottlerInv, enabled PROVE period.through <= Rate * (1 + now - period.since)
    BY Zenon DEF RateHolds
  <2>1. PICK gone, end : Account(caller, period, now, Used, gone, end)
    BY Zenon DEF ThrottlerInv
  <2>2. Used \in Int
    <3>1. lastRefill \in Int /\ period.since \in Int /\ tokens \in Int
      BY DEF ThrottlerInv, ThrottlerTypeOK
    <3>2. Budget(lastRefill, period.since) \in Int
      BY <3>1, BudgetIsInt, Zenon
    <3> QED BY <3>1, <3>2 DEF Used
  <2>3. ThrottlerTypeOK /\ period.since <= now
    BY DEF ThrottlerInv, ThrottlerTypeOK
  <2>4. period.through <= Budget(now, period.since)
    BY <2>1, <2>2, <2>3, AccountHolds, Zenon
  <2> QED BY <2>4, Zenon DEF Budget
<1>3. ThrottlerInv => NobodySleepsUnthrottled
  BY Zenon DEF ThrottlerInv, NobodySleepsUnthrottled, Charged, Sleeping
<1>4. ThrottlerInv /\ [ThrottlerNext]_throttlerVars => [QueuesBehind]_throttlerVars
  BY SleepersQueue, Zenon
<1>5. [][QueuesBehind]_throttlerVars => LaterCallersQueue
  BY PTL DEF QueuesBehind, LaterCallersQueue
<1> QED
  BY <1>1, <1>2, <1>3, <1>4, <1>5, ThrottlerStep, PTL DEF ThrottlerSpec, ThrottleIsFair

(***************************************************************************)
(* The client's context over packets: payload passes clean.                *)
(***************************************************************************)
PacketsInv ==
    /\ air \subseteq Packets \cup Frames
    /\ passed \in Seq(Packets)
    /\ cached # <<>> => /\ passed = <<>> /\ reader = "open"
                        /\ firstWas \in Packets /\ cached = <<firstWas>>
    /\ reader # "open" => passed = <<>> /\ cached = <<>>
    /\ reader = "open" /\ cached = <<>> /\ firstWas \in Packets =>
          passed # <<>> /\ passed[1] = firstWas

\* Every step keeps the invariant.
LEMMA PacketsStep == PacketsInv /\ [PacketsNext]_packetVars => PacketsInv'
<1> SUFFICES ASSUME PacketsInv, [PacketsNext]_packetVars PROVE PacketsInv'
  BY Zenon
<1> USE DEF PacketsInv
<1>1. ASSUME NEW p \in Packets \cup Frames, Send(p) PROVE PacketsInv'
  BY <1>1, Zenon DEF Send
<1>2. ASSUME NEW p \in Packets \cup Frames, ReadInfo(p) PROVE PacketsInv'
  <2>1. CASE p \in Frames
    BY <1>2, <2>1, PacketsAssumption, Zenon DEF ReadInfo, Arrives
  <2>2. CASE p \notin Frames
    BY <1>2, <2>2 DEF ReadInfo, Arrives
  <2> QED BY <2>1, <2>2, Zenon
<1>3. ASSUME NEW p \in Packets \cup Frames, ReadPacket(p) PROVE PacketsInv'
  <2>1. CASE p \in Frames
    <3>1. passed' = passed
      BY <1>3, <2>1 DEF ReadPacket, Forwards
    <3> QED BY <1>3, <3>1, Zenon DEF ReadPacket, Arrives
  <2>2. CASE p \notin Frames
    <3>1. passed' = passed \o <<p>> /\ p \in Packets /\ cached = <<>>
      BY <1>3, <2>2, Zenon DEF ReadPacket, Forwards, ReplayFirst
    <3>2. passed' \in Seq(Packets) /\ passed' # <<>> /\ (passed # <<>> => passed'[1] = passed[1])
      BY <3>1
    <3> QED BY <1>3, <3>1, <3>2, Zenon DEF ReadPacket, Arrives
  <2> QED BY <2>1, <2>2
<1>4. CASE ReadInfoFails
  BY <1>4, Zenon DEF ReadInfoFails
<1>5. CASE Replay
  <2>1. passed' = <<firstWas>> /\ firstWas \in Packets /\ cached' = <<>>
    <3>1. passed = <<>> /\ firstWas \in Packets /\ cached = <<firstWas>>
      BY <1>5, Zenon DEF Replay
    <3>2. <<>> \o <<firstWas>> = <<firstWas>>
      BY <3>1
    <3> QED BY <1>5, <3>1, <3>2, Zenon DEF Replay
  <2> QED BY <1>5, <2>1 DEF Replay
<1>6. CASE UNCHANGED packetVars
  BY <1>6, Zenon DEF packetVars
<1> QED BY <1>1, <1>2, <1>3, <1>4, <1>5, <1>6, Zenon DEF PacketsNext

\* PacketsPassClean for all packets and frames: no client info reaches the destination, however
\* late or often it comes, and the packet that was read to look for it comes first.
THEOREM PacketsAlwaysPassClean == PacketsSpec => []PacketsPassClean
<1>1. PacketsInit => PacketsInv
  BY DEF PacketsInit, PacketsInv
<1>2. PacketsInv => PacketsPassClean
  BY DEF PacketsInv, PacketsPassClean
<1> QED BY <1>1, <1>2, PacketsStep, PTL DEF PacketsSpec

(***************************************************************************)
(* The usage reporter: every counted byte is somewhere, once.              *)
(***************************************************************************)
\* Adding to one entry's count adds as much to the total.
LEMMA UnitsAdded ==
    ASSUME NEW count \in [Entries -> Nat], NEW e \in Entries, NEW n \in Nat, IsFiniteSet(Units(count))
    PROVE  /\ IsFiniteSet(Units([count EXCEPT ![e] = @ + n]))
           /\ Held([count EXCEPT ![e] = @ + n]) = Held(count) + n
<1> DEFINE more == [count EXCEPT ![e] = @ + n]
           new == {e} \X ((count[e] + 1)..(count[e] + n))
<1>1. Units(more) = Units(count) \cup new
  <2>1. ASSUME NEW x \in Units(more) PROVE x \in Units(count) \cup new
    <3>1. PICK f \in Entries : x \in {f} \X (1..more[f])
      BY <2>1, Zenon DEF Units
    <3>2. CASE f = e
      BY <3>1, <3>2 DEF Units
    <3>3. CASE f # e
      BY <3>1, <3>3, Zenon DEF Units
    <3>4. QED
      BY <3>2, <3>3, Zenon
  <2>2. ASSUME NEW x \in Units(count) PROVE x \in Units(more)
    <3>1. PICK f \in Entries : x \in {f} \X (1..count[f])
      BY <2>2, Zenon DEF Units
    <3>2. count[f] \in Nat /\ more[f] \in Nat /\ count[f] <= more[f]
      OBVIOUS
    <3>3. x \in {f} \X (1..more[f])
      BY <3>1, <3>2
    <3>4. QED
      BY <3>3, Zenon DEF Units
  <2>3. ASSUME NEW x \in new PROVE x \in Units(more)
    <3>1. x \in {e} \X (1..more[e])
      BY <2>3
    <3>2. QED
      BY <3>1, Zenon DEF Units
  <2>4. QED
    BY <2>1, <2>2, <2>3, Zenon
<1>2. Units(count) \cap new = {}
  <2>1. SUFFICES ASSUME NEW x \in Units(count), x \in new PROVE FALSE
    BY Zenon
  <2>2. PICK f \in Entries : x \in {f} \X (1..count[f])
    BY <2>1, Zenon DEF Units
  <2>3. QED
    BY <2>1, <2>2
<1>3. IsFiniteSet(new) /\ Cardinality(new) = n
  <2>1. count[e] \in Nat
    BY Zenon
  <2>2. PICK a : a = count[e] + 1
    BY Zenon
  <2>3. PICK b : b = count[e] + n
    BY Zenon
  <2>4. IsFiniteSet(a..b) /\ Cardinality(a..b) = n
    BY <2>1, <2>2, <2>3, FS_Interval
  <2>5. IsFiniteSet({e}) /\ Cardinality({e}) = 1
    BY FS_Singleton, Zenon
  <2>6. IsFiniteSet({e} \X (a..b)) /\ Cardinality({e} \X (a..b)) = 1 * n
    BY <2>4, <2>5, FS_Product, Zenon
  <2>7. QED
    BY <2>2, <2>3, <2>6
<1> HIDE DEF more, new
<1>4. IsFiniteSet(Units(count) \cup new)
  BY <1>3, FS_Union, Zenon
<1>5. Cardinality(Units(count) \cup new)
          = Cardinality(Units(count)) + Cardinality(new) - Cardinality(Units(count) \cap new)
  BY <1>3, FS_Union, Zenon
<1>6. Cardinality(Units(count)) \in Nat /\ Cardinality(Units(count) \cap new) = 0
  BY <1>2, FS_CardinalityType, FS_EmptySet, Zenon
<1>7. Held(more) = Held(count) + n
  BY <1>1, <1>3, <1>5, <1>6 DEF Held
<1>8. QED
  BY <1>1, <1>4, <1>7, Zenon DEF more

\* Taking from one entry's count takes as much from the total.
LEMMA UnitsTaken ==
    ASSUME NEW count \in [Entries -> Nat], NEW e \in Entries, NEW n \in Nat, n <= count[e],
           IsFiniteSet(Units(count))
    PROVE  /\ IsFiniteSet(Units([count EXCEPT ![e] = @ - n]))
           /\ Held([count EXCEPT ![e] = @ - n]) = Held(count) - n
<1>1. PICK less : less = [count EXCEPT ![e] = @ - n]
  BY Zenon
<1>2. less \in [Entries -> Nat] /\ count = [less EXCEPT ![e] = @ + n]
  <2>1. less \in [Entries -> Nat]
    BY <1>1
  <2>2. less[e] + n = count[e]
    BY <1>1
  <2>3. ASSUME NEW f \in Entries PROVE count[f] = [less EXCEPT ![e] = @ + n][f]
    BY <1>1, <2>1, <2>2, Zenon
  <2>4. QED
    BY <2>1, <2>3, Zenon
<1>3. Units(less) \subseteq Units(count)
  <2>1. SUFFICES ASSUME NEW x \in Units(less) PROVE x \in Units(count)
    BY Zenon
  <2>2. PICK f \in Entries : x \in {f} \X (1..less[f])
    BY <2>1, Zenon DEF Units
  <2>3. count[f] \in Nat /\ less[f] \in Nat /\ less[f] <= count[f]
    BY <1>1
  <2>4. x \in {f} \X (1..count[f])
    BY <2>2, <2>3
  <2>5. QED
    BY <2>4, Zenon DEF Units
<1>4. IsFiniteSet(Units(less))
  BY <1>3, FS_Subset, Zenon
<1>5. Held([less EXCEPT ![e] = @ + n]) = Held(less) + n
  BY <1>2, <1>4, UnitsAdded, Zenon
<1>6. Held(less) \in Nat
  BY <1>4, FS_CardinalityType, Zenon DEF Held
<1>7. QED
  BY <1>1, <1>2, <1>4, <1>5, <1>6

\* Entries that hold nothing hold nothing together.
LEMMA NoUnits ==
    ASSUME NEW count, \A e \in Entries : count[e] = 0
    PROVE  IsFiniteSet(Units(count)) /\ Held(count) = 0
<1>1. Units(count) = {}
  BY DEF Units
<1>2. QED
  BY <1>1, FS_EmptySet, Zenon DEF Held

EntryType == [open : Nat, idle : BOOLEAN, bytes : Nat, both : Nat]
ConnType == [entry : 0..MaxEntries, seen : SUBSET Directions, counted : BOOLEAN,
             open : BOOLEAN, busy : SUBSET Directions, counting : SUBSET Directions]

\* Reads and writes counted on e as bidirectional whose bytes are still to come.
Counting(e) == {x \in Conns \X Directions : conns[x[1]].entry = e /\ x[2] \in conns[x[1]].counting}

OpenOn(e) == {c \in Conns : conns[c].open /\ conns[c].entry = e}

\* The bytes of a flush that has not taken the connections yet.
Pending(e) == IF flush = "taking" /\ taken.entry = e THEN taken.bytes ELSE 0

OpenIsCounted == \A e \in Entries : usage[e].open = Cardinality(OpenOn(e))

ConnsAreSane ==
    \A c \in Conns :
        /\ conns[c].open => conns[c].entry = listed
        /\ conns[c].entry = 0 => ~conns[c].open /\ conns[c].busy = {}
        /\ conns[c].counting \subseteq conns[c].busy

AlwaysCarried ==
    \A e \in Entries : usage[e].both <= usage[e].bytes + Pending(e) + Cardinality(Counting(e))

Busy(e) == \E c \in Conns : conns[c].entry = e /\ conns[c].busy # {}

NeverStranded ==
    \A e \in Entries :
        e \notin late /\ e # listed =>
            /\ usage[e].bytes = 0
            /\ (flush = "taking" /\ taken.entry = e) \/ usage[e].both = 0 \/ Busy(e)

StoppedIsQuiet ==
    reporter # "running" => \A c \in Conns : ~conns[c].open /\ conns[c].busy = {}

FlushIsSane ==
    /\ flush = "none" => taken = Nothing
    /\ flush # "none" => taken.entry \in Entries
    /\ flush = "taking" => taken.both = 0 /\ listed \in {0, taken.entry}
    /\ flush = "posting" => taken.both <= taken.bytes
    /\ reporter = "done" => flush = "none"
    /\ reporter = "final" => flush # "none" /\ ~failed

LastFlushTakesAll ==
    /\ reporter = "final" /\ flush = "taking" /\ late = {} =>
          \A e \in Entries : usage[e].bytes = 0 /\ (e # taken.entry => usage[e].both = 0)
    /\ reporter = "final" /\ flush = "posting" /\ late = {} =>
          \A e \in Entries : usage[e].bytes = 0 /\ usage[e].both = 0
    /\ reporter = "done" /\ ~failed /\ late = {} =>
          \A e \in Entries : usage[e].bytes = 0 /\ usage[e].both = 0

UnitsAreCounted == IsFiniteSet(Units(Bytes)) /\ IsFiniteSet(Units(Both)) /\ UsageIsConserved

UsageInv ==
    /\ UsageTypeOK /\ UnitsAreCounted /\ OpenIsCounted /\ ConnsAreSane /\ AlwaysCarried
    /\ NeverStranded /\ StoppedIsQuiet /\ FlushIsSane /\ LastFlushTakesAll

\* The invariant holds before the first connection.
LEMMA UsageInitially == UsageInit => UsageInv
<1> SUFFICES ASSUME UsageInit PROVE UsageInv
  BY Zenon
<1> USE UsageAssumption DEF UsageInit
<1>1. UsageTypeOK
  <2>1. NoUsage \in EntryType /\ NoConn \in ConnType
    BY DEF NoUsage, NoConn, EntryType, ConnType
  <2>2. usage \in [Entries -> EntryType] /\ conns \in [Conns -> ConnType]
    BY <2>1, Zenon
  <2>3. listed \in 0..MaxEntries /\ taken \in [entry : 0..MaxEntries, bytes : Nat, both : Nat]
    BY DEF Nothing
  <2>4. owed \in [bytes : Nat, both : Nat]
    BY Zenon
  <2>5. QED
    BY <2>2, <2>3, <2>4, Zenon DEF UsageTypeOK, EntryType, ConnType
<1>2. \A e \in Entries : Bytes[e] = 0 /\ Both[e] = 0
  BY Zenon DEF Bytes, Both, NoUsage
<1>3. UnitsAreCounted
  BY <1>2, NoUnits DEF UnitsAreCounted, UsageIsConserved, Nothing
<1>4. \A e \in Entries : OpenOn(e) = {} /\ Counting(e) = {}
  BY Zenon DEF OpenOn, Counting, NoConn
<1>5. OpenIsCounted /\ AlwaysCarried
  <2>1. \A e \in Entries : Cardinality(OpenOn(e)) = 0 /\ Cardinality(Counting(e)) = 0
    BY <1>4, FS_EmptySet, Zenon
  <2>2. \A e \in Entries : usage[e].open = 0 /\ usage[e].both = 0 /\ usage[e].bytes = 0 /\ Pending(e) = 0
    BY Zenon DEF NoUsage, Pending
  <2>3. QED
    BY <2>1, <2>2 DEF OpenIsCounted, AlwaysCarried
<1>6. QED
  BY <1>1, <1>3, <1>5, Zenon DEF UsageInv, ConnsAreSane, NeverStranded, StoppedIsQuiet, FlushIsSane,
     LastFlushTakesAll, NoConn, NoUsage

\* The sets counted are finite.
LEMMA CountsAreFinite ==
    ASSUME NEW e
    PROVE  IsFiniteSet(OpenOn(e)) /\ IsFiniteSet(Counting(e))
<1>1. IsFiniteSet(Directions)
  <2>1. IsFiniteSet({"read"}) /\ IsFiniteSet({"read"} \cup {"write"})
    BY FS_Singleton, FS_AddElement, Zenon
  <2>2. QED
    BY <2>1, Zenon DEF Directions
<1>2. IsFiniteSet(Conns \X Directions)
  BY <1>1, UsageAssumption, FS_Product, Zenon
<1>3. QED
  BY <1>2, UsageAssumption, FS_Subset, Zenon DEF OpenOn, Counting

\* A connection is acquired.
LEMMA AcquireKeeps ==
    ASSUME UsageInv, NEW c \in Conns, Acquire(c)
    PROVE  UsageInv'
<1> USE UsageAssumption
<1>1. UsageTypeOK /\ conns[c] = NoConn /\ flush # "taking" /\ reporter = "running"
      /\ UNCHANGED <<flush, taken, reporter, owed, late, failed>>
  BY Zenon DEF UsageInv, Acquire
<1>2. PICK e \in IF listed # 0 THEN {listed} ELSE Fresh :
          /\ listed' = e
          /\ usage' = [usage EXCEPT ![e].open = @ + 1]
          /\ conns' = [conns EXCEPT ![c] = [NoConn EXCEPT !.entry = e, !.open = TRUE]]
  BY Zenon DEF Acquire
<1>3. e \in Entries /\ e # 0 /\ e \in 0..MaxEntries
  BY <1>1, <1>2 DEF Fresh, Entries, UsageTypeOK
<1>4. /\ usage' \in [Entries -> EntryType]
      /\ \A f \in Entries : /\ usage'[f].bytes = usage[f].bytes /\ usage'[f].both = usage[f].both
                            /\ usage'[f].open = IF f = e THEN usage[f].open + 1 ELSE usage[f].open
  BY <1>1, <1>2, <1>3 DEF UsageTypeOK, EntryType
<1>5. PICK new : new = [NoConn EXCEPT !.entry = e, !.open = TRUE]
  BY Zenon
<1>6. /\ new \in ConnType /\ new.entry = e /\ new.open = TRUE /\ new.busy = {} /\ new.counting = {}
  BY <1>3, <1>5, Zenon DEF NoConn, ConnType
<1>7. /\ conns' \in [Conns -> ConnType]
      /\ conns'[c] = new /\ \A d \in Conns : d # c => conns'[d] = conns[d]
  BY <1>1, <1>2, <1>5, <1>6 DEF UsageTypeOK, ConnType
<1>8. UsageTypeOK'
  BY <1>1, <1>2, <1>3, <1>4, <1>7, Zenon DEF UsageTypeOK, EntryType, ConnType
<1>9. UnitsAreCounted'
  <2>1. Bytes' = Bytes /\ Both' = Both
    BY <1>4, Zenon DEF Bytes, Both
  <2>2. QED
    BY <1>1, <2>1, Zenon DEF UsageInv, UnitsAreCounted, UsageIsConserved, Units, Held
<1>10. \A f \in Entries : Counting(f)' = Counting(f)
  <2>1. ASSUME NEW f \in Entries, NEW x \in Conns \X Directions
        PROVE  (conns'[x[1]].entry = f /\ x[2] \in conns'[x[1]].counting)
                 <=> (conns[x[1]].entry = f /\ x[2] \in conns[x[1]].counting)
    BY <1>1, <1>6, <1>7 DEF NoConn
  <2>2. QED
    BY <2>1, Zenon DEF Counting
<1>11. OpenIsCounted'
  <2>1. SUFFICES ASSUME NEW f \in Entries PROVE usage'[f].open = Cardinality(OpenOn(f)')
    BY Zenon DEF OpenIsCounted
  <2>2. usage[f].open = Cardinality(OpenOn(f)) /\ IsFiniteSet(OpenOn(f))
    BY CountsAreFinite, Zenon DEF UsageInv, OpenIsCounted
  <2>3. CASE f = e
    <3>1. OpenOn(f)' = OpenOn(f) \cup {c} /\ c \notin OpenOn(f)
      BY <1>1, <1>6, <1>7, <2>3 DEF OpenOn, NoConn
    <3>2. Cardinality(OpenOn(f) \cup {c}) = Cardinality(OpenOn(f)) + 1
      BY <2>2, <3>1, FS_AddElement, Zenon
    <3>3. usage'[f].open = usage[f].open + 1
      BY <1>4, <2>3, Zenon
    <3>4. QED
      BY <2>2, <3>1, <3>2, <3>3, Zenon
  <2>4. CASE f # e
    <3>1. OpenOn(f)' = OpenOn(f)
      BY <1>1, <1>6, <1>7, <2>4 DEF OpenOn, NoConn
    <3>2. QED
      BY <1>4, <2>2, <2>4, <3>1, Zenon
  <2>5. QED
    BY <2>3, <2>4, Zenon
<1>12. ConnsAreSane'
  BY <1>1, <1>2, <1>3, <1>6, <1>7 DEF UsageInv, ConnsAreSane
<1>13. AlwaysCarried'
  BY <1>1, <1>4, <1>10, Zenon DEF UsageInv, AlwaysCarried, Pending
<1>14. NeverStranded'
  <2>1. ASSUME NEW f \in Entries, Busy(f) PROVE Busy(f)'
    BY <1>1, <1>7, <2>1 DEF Busy, NoConn
  <2>2. ASSUME listed # 0 PROVE listed = e
    BY <1>2, <2>2, Zenon
  <2>3. QED
    BY <1>1, <1>2, <1>3, <1>4, <2>1, <2>2 DEF UsageInv, NeverStranded, Entries
<1>15. QED
  BY <1>1, <1>8, <1>9, <1>11, <1>12, <1>13, <1>14, Zenon
     DEF UsageInv, StoppedIsQuiet, FlushIsSane, LastFlushTakesAll

\* A byte is counted on an entry: the accounts hold.
LEMMA ByteCounted ==
    ASSUME UsageInv, NEW e \in Entries,
           usage' = [usage EXCEPT ![e].bytes = @ + 1],
           owed' = [owed EXCEPT !.bytes = @ + 1], taken' = taken
    PROVE  /\ usage' \in [Entries -> EntryType]
           /\ \A f \in Entries :
                  /\ usage'[f].open = usage[f].open /\ usage'[f].both = usage[f].both
                  /\ usage'[f].bytes = IF f = e THEN usage[f].bytes + 1 ELSE usage[f].bytes
           /\ owed' \in [bytes : Nat, both : Nat]
           /\ UnitsAreCounted'
<1>1. UsageTypeOK
  BY Zenon DEF UsageInv
<1>2. /\ usage' \in [Entries -> EntryType]
      /\ \A f \in Entries :
             /\ usage'[f].open = usage[f].open /\ usage'[f].both = usage[f].both
             /\ usage'[f].bytes = IF f = e THEN usage[f].bytes + 1 ELSE usage[f].bytes
  BY <1>1 DEF UsageTypeOK, EntryType
<1>3. owed' \in [bytes : Nat, both : Nat] /\ owed'.bytes = owed.bytes + 1 /\ owed'.both = owed.both
  BY <1>1 DEF UsageTypeOK
<1>4. Both' = Both /\ Bytes' = [Bytes EXCEPT ![e] = @ + 1]
  BY <1>2, Zenon DEF Bytes, Both
<1>5. Bytes \in [Entries -> Nat] /\ IsFiniteSet(Units(Bytes))
  BY <1>1, Zenon DEF UsageInv, UnitsAreCounted, Bytes, UsageTypeOK
<1>6. PICK more : more = [Bytes EXCEPT ![e] = @ + 1]
  BY Zenon
<1>7. IsFiniteSet(Units(more)) /\ Held(more) = Held(Bytes) + 1
  BY <1>5, <1>6, UnitsAdded, Zenon
<1>8. Held(Bytes) \in Nat /\ taken.bytes \in Nat
  BY <1>1, <1>5, FS_CardinalityType, Zenon DEF Held, UsageTypeOK
<1>9. UsageIsConserved'
  <2>1. owed.bytes = Held(Bytes) + taken.bytes /\ owed.both = Held(Both) + taken.both
    BY Zenon DEF UsageInv, UnitsAreCounted, UsageIsConserved
  <2>2. owed'.bytes = Held(more) + taken'.bytes
    BY <1>3, <1>7, <1>8, <2>1
  <2>3. owed'.both = Held(Both) + taken'.both
    BY <1>3, <2>1, Zenon
  <2>4. QED
    BY <1>4, <1>6, <2>2, <2>3, Zenon DEF UsageIsConserved, Held, Units
<1>10. QED
  BY <1>2, <1>3, <1>4, <1>6, <1>7, <1>9 DEF UsageInv, UnitsAreCounted, Units

\* A datagram is counted.
LEMMA PacketIOKeeps ==
    ASSUME UsageInv, NEW c \in Conns, PacketIO(c)
    PROVE  UsageInv'
<1> USE UsageAssumption
<1>1. PICK e : e = conns[c].entry
  BY Zenon
<1>2. /\ UsageTypeOK /\ conns[c].open
      /\ usage' = [usage EXCEPT ![e].bytes = @ + 1]
      /\ owed' = [owed EXCEPT !.bytes = @ + 1]
      /\ UNCHANGED <<listed, conns, flush, taken, reporter, late, failed>>
  BY <1>1, Zenon DEF UsageInv, PacketIO
<1>3. e = listed /\ e \in Entries
  BY <1>1, <1>2 DEF UsageInv, UsageTypeOK, ConnsAreSane, Entries, ConnType
<1>4. /\ usage' \in [Entries -> EntryType]
      /\ \A f \in Entries :
             /\ usage'[f].open = usage[f].open /\ usage'[f].both = usage[f].both
             /\ usage'[f].bytes = IF f = e THEN usage[f].bytes + 1 ELSE usage[f].bytes
      /\ owed' \in [bytes : Nat, both : Nat]
      /\ UnitsAreCounted'
  BY <1>2, <1>3, ByteCounted, Zenon
<1>5. UsageTypeOK'
  BY <1>2, <1>4, Zenon DEF UsageTypeOK, EntryType
<1>6. \A f \in Entries : OpenOn(f)' = OpenOn(f) /\ Counting(f)' = Counting(f)
                         /\ Pending(f)' = Pending(f) /\ (Busy(f)' <=> Busy(f))
  BY <1>2, Zenon DEF OpenOn, Counting, Pending, Busy
<1>7. OpenIsCounted'
  BY <1>4, <1>6, Zenon DEF UsageInv, OpenIsCounted
<1>8. AlwaysCarried'
  <2>1. SUFFICES ASSUME NEW f \in Entries
                 PROVE  usage'[f].both <= usage'[f].bytes + Pending(f)' + Cardinality(Counting(f)')
    BY Zenon DEF AlwaysCarried
  <2>2. /\ usage[f].both <= usage[f].bytes + Pending(f) + Cardinality(Counting(f))
        /\ Pending(f) \in Nat /\ usage[f].both \in Nat /\ usage[f].bytes \in Nat
    BY <1>2, Zenon DEF UsageInv, AlwaysCarried, Pending, UsageTypeOK
  <2>3. Cardinality(Counting(f)) \in Nat
    BY CountsAreFinite, FS_CardinalityType, Zenon
  <2>4. QED
    BY <1>4, <1>6, <2>2, <2>3
<1>9. NeverStranded'
  BY <1>2, <1>3, <1>4, <1>6, Zenon DEF UsageInv, NeverStranded
<1>10. reporter = "running"
  BY <1>2, Zenon DEF UsageInv, StoppedIsQuiet, UsageTypeOK
<1>11. QED
  BY <1>2, <1>4, <1>5, <1>7, <1>8, <1>9, <1>10, Zenon
     DEF UsageInv, ConnsAreSane, StoppedIsQuiet, FlushIsSane, LastFlushTakesAll

\* A read or write begins.
LEMMA IOBeginsKeeps ==
    ASSUME UsageInv, NEW c \in Conns, NEW dir \in Directions, IOBegins(c, dir)
    PROVE  UsageInv'
<1> USE UsageAssumption
<1>1. PICK e : e = conns[c].entry
  BY Zenon
<1>2. PICK n : n = IF BecomesBidirectional(c, dir) THEN 1 ELSE 0
  BY Zenon
<1>3. /\ UsageTypeOK /\ conns[c].open /\ dir \notin conns[c].busy
      /\ conns' = [conns EXCEPT ![c].seen = @ \cup {dir}, ![c].counted = @ \/ n = 1,
                                ![c].busy = @ \cup {dir},
                                ![c].counting = IF n = 1 THEN @ \cup {dir} ELSE @]
      /\ usage' = [usage EXCEPT ![e].both = @ + n]
      /\ owed' = [owed EXCEPT !.both = @ + n]
      /\ UNCHANGED <<listed, flush, taken, reporter, late, failed>>
  BY <1>1, <1>2, Zenon DEF UsageInv, IOBegins
<1>4. n \in Nat /\ (n = 0 \/ n = 1)
  BY <1>2, Zenon
<1>5. e = listed /\ e \in Entries /\ e # 0
  BY <1>1, <1>3 DEF UsageInv, UsageTypeOK, ConnsAreSane, Entries, ConnType
<1>6. /\ usage' \in [Entries -> EntryType]
      /\ \A f \in Entries : /\ usage'[f].bytes = usage[f].bytes /\ usage'[f].open = usage[f].open
                            /\ usage'[f].both = IF f = e THEN usage[f].both + n ELSE usage[f].both
  BY <1>3, <1>4, <1>5 DEF UsageTypeOK, EntryType
<1>7. PICK new : /\ new \in ConnType /\ new.entry = e /\ new.open = TRUE
                 /\ new.busy = conns[c].busy \cup {dir}
                 /\ new.counting = IF n = 1 THEN conns[c].counting \cup {dir} ELSE conns[c].counting
                 /\ conns' = [conns EXCEPT ![c] = new]
  <2> DEFINE k1 == [conns[c] EXCEPT !.seen = @ \cup {dir}]
             k2 == [k1 EXCEPT !.counted = @ \/ n = 1]
             k3 == [k2 EXCEPT !.busy = @ \cup {dir}]
             k4 == [k3 EXCEPT !.counting = IF n = 1 THEN @ \cup {dir} ELSE @]
  <2>1. conns' = [conns EXCEPT ![c] = k4]
    BY <1>3 DEF UsageTypeOK
  <2>2. conns[c] \in ConnType /\ conns[c].entry = e /\ conns[c].open = TRUE
    BY <1>1, <1>3, Zenon DEF UsageTypeOK, ConnType
  <2>3. /\ k1 \in ConnType /\ k1.entry = e /\ k1.open = TRUE
        /\ k1.busy = conns[c].busy /\ k1.counting = conns[c].counting
    BY <2>2, Zenon DEF ConnType
  <2> HIDE DEF k1
  <2>4. /\ k2 \in ConnType /\ k2.entry = e /\ k2.open = TRUE
        /\ k2.busy = conns[c].busy /\ k2.counting = conns[c].counting
    BY <2>3, Zenon DEF ConnType
  <2> HIDE DEF k2
  <2>5. /\ k3 \in ConnType /\ k3.entry = e /\ k3.open = TRUE
        /\ k3.busy = conns[c].busy \cup {dir} /\ k3.counting = conns[c].counting
    BY <2>4, Zenon DEF ConnType
  <2> HIDE DEF k3
  <2>6. /\ k4 \in ConnType /\ k4.entry = e /\ k4.open = TRUE
        /\ k4.busy = conns[c].busy \cup {dir}
        /\ k4.counting = IF n = 1 THEN conns[c].counting \cup {dir} ELSE conns[c].counting
    BY <2>5, Zenon DEF ConnType
  <2> HIDE DEF k4
  <2>7. QED
    BY <2>1, <2>6, Zenon
<1>8. /\ conns' \in [Conns -> ConnType]
      /\ conns'[c] = new /\ \A d \in Conns : d # c => conns'[d] = conns[d]
  BY <1>3, <1>7 DEF UsageTypeOK, ConnType
<1>9. /\ owed' \in [bytes : Nat, both : Nat]
      /\ owed'.bytes = owed.bytes /\ owed'.both = owed.both + n
  BY <1>3, <1>4 DEF UsageTypeOK
<1>10. UsageTypeOK'
  BY <1>3, <1>6, <1>8, <1>9, Zenon DEF UsageTypeOK, EntryType, ConnType
<1>11. UnitsAreCounted'
  <2>1. Bytes' = Bytes /\ Both' = [Both EXCEPT ![e] = @ + n]
    BY <1>5, <1>6, Zenon DEF Bytes, Both
  <2>2. Both \in [Entries -> Nat] /\ IsFiniteSet(Units(Both))
    BY <1>3, Zenon DEF UsageInv, UnitsAreCounted, Both, UsageTypeOK
  <2>3. PICK more : more = [Both EXCEPT ![e] = @ + n]
    BY Zenon
  <2>4. IsFiniteSet(Units(more)) /\ Held(more) = Held(Both) + n
    BY <1>4, <1>5, <2>2, <2>3, UnitsAdded, Zenon
  <2>5. Held(Both) \in Nat /\ taken.both \in Nat /\ taken' = taken
    BY <1>3, <2>2, FS_CardinalityType, Zenon DEF Held, UsageTypeOK
  <2>6. UsageIsConserved'
    <3>1. owed.bytes = Held(Bytes) + taken.bytes /\ owed.both = Held(Both) + taken.both
      BY Zenon DEF UsageInv, UnitsAreCounted, UsageIsConserved
    <3>2. owed'.both = Held(more) + taken'.both
      BY <1>4, <1>9, <2>4, <2>5, <3>1
    <3>3. owed'.bytes = Held(Bytes) + taken'.bytes
      BY <1>9, <2>5, <3>1, Zenon
    <3>4. QED
      BY <2>1, <2>3, <3>2, <3>3, Zenon DEF UsageIsConserved, Held, Units
  <2>7. QED
    BY <2>1, <2>3, <2>4, <2>6 DEF UsageInv, UnitsAreCounted, Units
<1>12. OpenIsCounted'
  <2>1. \A d \in Conns : (conns'[d].open <=> conns[d].open) /\ conns'[d].entry = conns[d].entry
    BY <1>1, <1>3, <1>7, <1>8, Zenon
  <2>2. \A f \in Entries : OpenOn(f)' = OpenOn(f)
    BY <2>1, Zenon DEF OpenOn
  <2>3. QED
    BY <1>6, <2>2, Zenon DEF UsageInv, OpenIsCounted
<1>13. ConnsAreSane'
  <2>1. conns[c].counting \subseteq conns[c].busy
    BY Zenon DEF UsageInv, ConnsAreSane
  <2>2. new.counting \subseteq new.busy
    BY <1>4, <1>7, <2>1, Zenon
  <2>3. new.entry = listed' /\ new.entry # 0
    BY <1>3, <1>5, <1>7, Zenon
  <2>4. QED
    BY <1>3, <1>8, <2>2, <2>3 DEF UsageInv, ConnsAreSane
<1>14. AlwaysCarried'
  <2>1. SUFFICES ASSUME NEW f \in Entries
                 PROVE  usage'[f].both <= usage'[f].bytes + Pending(f)' + Cardinality(Counting(f)')
    BY Zenon DEF AlwaysCarried
  <2>2. /\ usage[f].both <= usage[f].bytes + Pending(f) + Cardinality(Counting(f))
        /\ Pending(f)' = Pending(f) /\ Pending(f) \in Nat
        /\ usage[f].both \in Nat /\ usage[f].bytes \in Nat
    BY <1>3, Zenon DEF UsageInv, AlwaysCarried, Pending, UsageTypeOK
  <2>3. IsFiniteSet(Counting(f)) /\ Cardinality(Counting(f)) \in Nat
    BY CountsAreFinite, FS_CardinalityType, Zenon
  <2>4. CASE f = e /\ n = 1
    <3>1. dir \notin conns[c].counting
      BY <1>3, Zenon DEF UsageInv, ConnsAreSane
    <3>2. Counting(f)' = Counting(f) \cup {<<c, dir>>} /\ <<c, dir>> \notin Counting(f)
      BY <1>1, <1>7, <1>8, <2>4, <3>1 DEF Counting
    <3>3. Cardinality(Counting(f) \cup {<<c, dir>>}) = Cardinality(Counting(f)) + 1
      BY <2>3, <3>2, FS_AddElement, Zenon
    <3>4. QED
      BY <1>6, <2>2, <2>3, <2>4, <3>2, <3>3
  <2>5. CASE f # e \/ n # 1
    <3>1. Counting(f)' = Counting(f)
      BY <1>1, <1>7, <1>8, <2>5 DEF Counting
    <3>2. usage'[f].both = usage[f].both
      BY <1>4, <1>6, <2>2, <2>5
    <3>3. QED
      BY <1>6, <2>2, <2>3, <3>1, <3>2, Zenon
  <2>6. QED
    BY <2>4, <2>5, Zenon
<1>15. NeverStranded'
  <2>1. ASSUME NEW f \in Entries, Busy(f) PROVE Busy(f)'
    BY <1>1, <1>7, <1>8, <2>1 DEF Busy
  <2>2. QED
    BY <1>3, <1>5, <1>6, <2>1, Zenon DEF UsageInv, NeverStranded
<1>16. reporter = "running"
  BY <1>3, Zenon DEF UsageInv, StoppedIsQuiet, UsageTypeOK
<1>17. QED
  BY <1>3, <1>10, <1>11, <1>12, <1>13, <1>14, <1>15, <1>16, Zenon
     DEF UsageInv, StoppedIsQuiet, FlushIsSane, LastFlushTakesAll

\* The bytes of a read or write are counted.
LEMMA IOEndsKeeps ==
    ASSUME UsageInv, NEW c \in Conns, NEW dir \in Directions, IOEnds(c, dir)
    PROVE  UsageInv'
<1> USE UsageAssumption
<1>1. PICK e : e = conns[c].entry
  OBVIOUS
<1>2. /\ UsageTypeOK /\ dir \in conns[c].busy
      /\ conns' = [conns EXCEPT ![c].busy = @ \ {dir}, ![c].counting = @ \ {dir}]
      /\ usage' = [usage EXCEPT ![e].bytes = @ + 1]
      /\ owed' = [owed EXCEPT !.bytes = @ + 1]
      /\ late' = IF e = listed THEN late ELSE late \cup {e}
      /\ UNCHANGED <<listed, flush, taken, reporter, failed>>
  BY <1>1, Zenon DEF UsageInv, IOEnds, LateOn
<1>3. e \in Entries
  BY <1>1, <1>2 DEF UsageInv, UsageTypeOK, ConnsAreSane, Entries
<1>4. /\ usage' \in [Entries -> EntryType]
      /\ \A f \in Entries :
             /\ usage'[f].open = usage[f].open /\ usage'[f].both = usage[f].both
             /\ usage'[f].bytes = IF f = e THEN usage[f].bytes + 1 ELSE usage[f].bytes
      /\ owed' \in [bytes : Nat, both : Nat]
      /\ UnitsAreCounted'
  BY <1>2, <1>3, ByteCounted, Zenon
<1>5. PICK new : /\ new \in ConnType /\ new.entry = e /\ new.open = conns[c].open
                 /\ new.busy = conns[c].busy \ {dir} /\ new.counting = conns[c].counting \ {dir}
                 /\ conns' = [conns EXCEPT ![c] = new]
  <2> DEFINE k1 == [conns[c] EXCEPT !.busy = @ \ {dir}]
             k2 == [k1 EXCEPT !.counting = @ \ {dir}]
  <2>1. conns' = [conns EXCEPT ![c] = k2]
    BY <1>2, ZenonT(60) DEF UsageTypeOK
  <2>2. conns[c] \in ConnType /\ conns[c].entry = e
    BY <1>1, <1>2, Zenon DEF UsageTypeOK, ConnType
  <2>3. /\ k1 \in ConnType /\ k1.entry = e /\ k1.open = conns[c].open
        /\ k1.busy = conns[c].busy \ {dir} /\ k1.counting = conns[c].counting
    BY <2>2, Zenon DEF ConnType
  <2> HIDE DEF k1
  <2>4. /\ k2 \in ConnType /\ k2.entry = e /\ k2.open = conns[c].open
        /\ k2.busy = conns[c].busy \ {dir} /\ k2.counting = conns[c].counting \ {dir}
    BY <2>3, Zenon DEF ConnType
  <2> HIDE DEF k2
  <2>5. QED
    BY <2>1, <2>4, Zenon
<1>6. /\ conns' \in [Conns -> ConnType]
      /\ conns'[c] = new /\ \A d \in Conns : d # c => conns'[d] = conns[d]
  <2>1. conns \in [Conns -> ConnType]
    BY <1>2, Zenon DEF UsageTypeOK, ConnType
  <2>2. QED
    BY <1>5, <2>1, Zenon
<1>7. UsageTypeOK'
  BY <1>2, <1>3, <1>4, <1>6, Zenon DEF UsageTypeOK, EntryType, ConnType
<1>8. OpenIsCounted'
  <2>1. \A d \in Conns : conns'[d].open = conns[d].open /\ conns'[d].entry = conns[d].entry
    BY <1>1, <1>5, <1>6, Zenon
  <2>2. \A f \in Entries : OpenOn(f)' = OpenOn(f)
    BY <2>1, Zenon DEF OpenOn
  <2>3. QED
    BY <1>4, <2>2, Zenon DEF UsageInv, OpenIsCounted
<1>9. ConnsAreSane'
  <2>1. conns[c].counting \subseteq conns[c].busy
    BY DEF UsageInv, ConnsAreSane
  <2>2. new.counting \subseteq new.busy
    BY <1>5, <2>1, Zenon
  <2>3. (new.open => new.entry = listed') /\ new.entry # 0
    BY <1>1, <1>2, <1>3, <1>5, Zenon DEF UsageInv, ConnsAreSane, Entries
  <2>4. QED
    BY <1>2, <1>6, <2>2, <2>3, Zenon DEF UsageInv, ConnsAreSane
<1>10. AlwaysCarried'
  <2>1. SUFFICES ASSUME NEW f \in Entries
                 PROVE  usage'[f].both <= usage'[f].bytes + Pending(f)' + Cardinality(Counting(f)')
    BY DEF AlwaysCarried
  <2>2. /\ usage[f].both <= usage[f].bytes + Pending(f) + Cardinality(Counting(f))
        /\ Pending(f)' = Pending(f) /\ Pending(f) \in Nat
        /\ usage[f].both \in Nat /\ usage[f].bytes \in Nat
    BY <1>2, Zenon DEF UsageInv, AlwaysCarried, Pending, UsageTypeOK
  <2>3. IsFiniteSet(Counting(f)) /\ Cardinality(Counting(f)) \in Nat
    BY CountsAreFinite, FS_CardinalityType
  <2>4. CASE f = e
    <3>1. Counting(f)' = Counting(f) \ {<<c, dir>>}
      BY <1>1, <1>5, <1>6, <2>4 DEF Counting
    <3>2. Cardinality(Counting(f) \ {<<c, dir>>}) >= Cardinality(Counting(f)) - 1
          /\ Cardinality(Counting(f) \ {<<c, dir>>}) \in Nat
      <4>1. PICK s : s = Counting(f)
        BY Zenon
      <4>2. PICK x : x = <<c, dir>>
        BY Zenon
      <4>3. IsFiniteSet(s \ {x})
            /\ Cardinality(s \ {x}) = IF x \in s THEN Cardinality(s) - 1 ELSE Cardinality(s)
        BY <2>3, <4>1, FS_RemoveElement, Zenon
      <4>4. Cardinality(s \ {x}) \in Nat
        BY <4>3, FS_CardinalityType, Zenon
      <4>5. QED
        BY <2>3, <4>1, <4>2, <4>3, <4>4
    <3>3. usage'[f].bytes = usage[f].bytes + 1 /\ usage'[f].both = usage[f].both
      BY <1>4, <2>4, Zenon
    <3>4. QED
      BY <2>2, <2>3, <3>1, <3>2, <3>3
  <2>5. CASE f # e
    <3>1. Counting(f)' = Counting(f)
      BY <1>1, <1>5, <1>6, <2>5, Zenon DEF Counting
    <3>2. QED
      BY <1>4, <2>2, <2>3, <2>5, <3>1, Zenon
  <2>6. QED
    BY <2>4, <2>5, Zenon
<1>11. NeverStranded'
  <2>1. ASSUME NEW f \in Entries, f # e, Busy(f) PROVE Busy(f)'
    BY <1>1, <1>5, <1>6, <2>1, Zenon DEF Busy
  <2>2. QED
    BY <1>2, <1>4, <2>1, Zenon DEF UsageInv, NeverStranded
<1>12. reporter = "running"
  BY <1>2, Zenon DEF UsageInv, StoppedIsQuiet, UsageTypeOK
<1>13. QED
  BY <1>2, <1>4, <1>7, <1>8, <1>9, <1>10, <1>11, <1>12, Zenon
     DEF UsageInv, StoppedIsQuiet, FlushIsSane, LastFlushTakesAll

\* A connection is closed.
LEMMA CloseKeeps ==
    ASSUME UsageInv, NEW c \in Conns, CloseCounted(c)
    PROVE  UsageInv'
<1> USE UsageAssumption
<1>1. PICK e : e = conns[c].entry
  OBVIOUS
<1>2. /\ UsageTypeOK /\ conns[c].open
      /\ conns' = [conns EXCEPT ![c].open = FALSE]
      /\ usage' = [usage EXCEPT ![e].open = @ - 1]
      /\ UNCHANGED <<listed, flush, taken, reporter, owed, late, failed>>
  BY <1>1, Zenon DEF UsageInv, CloseCounted
<1>3. e = listed /\ e \in Entries /\ e # 0
  BY <1>1, <1>2 DEF UsageInv, UsageTypeOK, ConnsAreSane, Entries, ConnType
<1>4. \A f \in Entries : /\ usage[f].open = Cardinality(OpenOn(f)) /\ IsFiniteSet(OpenOn(f))
                         /\ usage[f].open \in Nat
  BY <1>2, CountsAreFinite, Zenon DEF UsageInv, OpenIsCounted, UsageTypeOK
<1>5. PICK s : s = OpenOn(e)
  BY Zenon
<1>6. c \in s /\ IsFiniteSet(s)
  BY <1>1, <1>2, <1>3, <1>4, <1>5, Zenon DEF OpenOn
<1>7. IsFiniteSet(s \ {c}) /\ Cardinality(s \ {c}) = Cardinality(s) - 1
  BY <1>6, FS_RemoveElement, Zenon
<1>8. Cardinality(s) - 1 \in Nat
  BY <1>7, FS_CardinalityType, Zenon
<1>9. /\ usage' \in [Entries -> EntryType]
      /\ \A f \in Entries : /\ usage'[f].bytes = usage[f].bytes /\ usage'[f].both = usage[f].both
                            /\ usage'[f].open = IF f = e THEN usage[f].open - 1 ELSE usage[f].open
  BY <1>2, <1>3, <1>4, <1>5, <1>8 DEF UsageTypeOK, EntryType
<1>10. PICK new : /\ new \in ConnType /\ new.entry = e /\ new.open = FALSE
                  /\ new.busy = conns[c].busy /\ new.counting = conns[c].counting
                  /\ conns' = [conns EXCEPT ![c] = new]
  <2> DEFINE k1 == [conns[c] EXCEPT !.open = FALSE]
  <2>1. conns' = [conns EXCEPT ![c] = k1]
    BY <1>2, Zenon DEF UsageTypeOK
  <2>2. conns[c] \in ConnType /\ conns[c].entry = e
    BY <1>1, <1>2, Zenon DEF UsageTypeOK, ConnType
  <2>3. /\ k1 \in ConnType /\ k1.entry = e /\ k1.open = FALSE
        /\ k1.busy = conns[c].busy /\ k1.counting = conns[c].counting
    BY <2>2, Zenon DEF ConnType
  <2> HIDE DEF k1
  <2>4. QED
    BY <2>1, <2>3, Zenon
<1>11. /\ conns' \in [Conns -> ConnType]
       /\ conns'[c] = new /\ \A d \in Conns : d # c => conns'[d] = conns[d]
  <2>1. conns \in [Conns -> ConnType]
    BY <1>2, Zenon DEF UsageTypeOK, ConnType
  <2>2. QED
    BY <1>10, <2>1, Zenon
<1>12. UsageTypeOK'
  BY <1>2, <1>9, <1>11, Zenon DEF UsageTypeOK, EntryType, ConnType
<1>13. UnitsAreCounted'
  <2>1. Bytes' = Bytes /\ Both' = Both
    BY <1>9, Zenon DEF Bytes, Both
  <2>2. QED
    BY <1>2, <2>1, Zenon DEF UsageInv, UnitsAreCounted, UsageIsConserved, Units, Held
<1>14. \A d \in Conns : /\ conns'[d].entry = conns[d].entry /\ conns'[d].busy = conns[d].busy
                        /\ conns'[d].counting = conns[d].counting
                        /\ conns'[d].open => conns[d].open
  BY <1>1, <1>10, <1>11, Zenon
<1>15. \A f \in Entries : Counting(f)' = Counting(f) /\ (Busy(f)' <=> Busy(f)) /\ Pending(f)' = Pending(f)
  <2>1. \A f \in Entries : Counting(f)' = Counting(f)
    BY <1>14, Zenon DEF Counting
  <2>2. QED
    BY <1>2, <1>14, <2>1 DEF Busy, Pending
<1>16. OpenIsCounted'
  <2>1. SUFFICES ASSUME NEW f \in Entries PROVE usage'[f].open = Cardinality(OpenOn(f)')
    BY Zenon DEF OpenIsCounted
  <2>2. CASE f = e
    <3>1. OpenOn(f)' = s \ {c}
      BY <1>1, <1>5, <1>10, <1>11, <2>2, Zenon DEF OpenOn
    <3>2. QED
      BY <1>4, <1>5, <1>7, <1>9, <2>2, <3>1, Zenon
  <2>3. CASE f # e
    <3>1. OpenOn(f)' = OpenOn(f)
      BY <1>1, <1>10, <1>11, <2>3, Zenon DEF OpenOn
    <3>2. QED
      BY <1>4, <1>9, <2>3, <3>1, Zenon
  <2>4. QED
    BY <2>2, <2>3, Zenon
<1>17. ConnsAreSane'
  BY <1>2, <1>3, <1>10, <1>11, <1>14 DEF UsageInv, ConnsAreSane
<1>18. AlwaysCarried'
  BY <1>9, <1>15, Zenon DEF UsageInv, AlwaysCarried
<1>19. NeverStranded'
  BY <1>2, <1>9, <1>15 DEF UsageInv, NeverStranded
<1>20. reporter = "running"
  BY <1>2, Zenon DEF UsageInv, StoppedIsQuiet, UsageTypeOK
<1>21. QED
  BY <1>2, <1>12, <1>13, <1>16, <1>17, <1>18, <1>19, <1>20, Zenon
     DEF UsageInv, StoppedIsQuiet, FlushIsSane, LastFlushTakesAll

\* A flush takes the bytes.
LEMMA FlushBeginsKeeps ==
    ASSUME UsageInv, FlushBegins
    PROVE  UsageInv'
<1> USE UsageAssumption
<1>1. PICK e : e = listed
  BY Zenon
<1>2. PICK n : n = usage[e].bytes
  BY Zenon
<1>3. /\ UsageTypeOK /\ flush = "none" /\ e # 0 /\ flush' = "taking"
      /\ usage' = [usage EXCEPT ![e].idle = (usage[e].open = 0), ![e].bytes = 0]
      /\ listed' = IF Dropped(e) THEN 0 ELSE e
      /\ taken' = [entry |-> e, bytes |-> n, both |-> 0]
      /\ failed' = FALSE
      /\ UNCHANGED <<conns, owed, late>>
  BY <1>1, <1>2, Zenon DEF UsageInv, FlushBegins
<1>4. /\ reporter \in {"running", "stopping"}
      /\ reporter' \in {reporter, "final"} /\ (reporter' = "final" => reporter = "stopping")
  BY Zenon DEF FlushBegins
<1>5. e \in Entries /\ e \in 0..MaxEntries /\ n \in Nat
  BY <1>1, <1>2, <1>3 DEF UsageTypeOK, Entries
<1>6. /\ usage' \in [Entries -> EntryType]
      /\ \A f \in Entries : /\ usage'[f].open = usage[f].open /\ usage'[f].both = usage[f].both
                            /\ usage'[f].bytes = IF f = e THEN 0 ELSE usage[f].bytes
  <2> DEFINE k1 == [usage[e] EXCEPT !.idle = (usage[e].open = 0)]
             k2 == [k1 EXCEPT !.bytes = 0]
  <2>1. usage \in [Entries -> EntryType] /\ usage[e] \in EntryType
    BY <1>3, <1>5, Zenon DEF UsageTypeOK, EntryType
  <2>2. usage' = [usage EXCEPT ![e] = k2]
    BY <1>3, <1>5, <2>1, Zenon
  <2>3. k1 \in EntryType /\ k1.open = usage[e].open /\ k1.both = usage[e].both
    BY <2>1, Zenon DEF EntryType
  <2> HIDE DEF k1
  <2>4. k2 \in EntryType /\ k2.open = usage[e].open /\ k2.both = usage[e].both /\ k2.bytes = 0
    BY <2>3, Zenon DEF EntryType
  <2> HIDE DEF k2
  <2>5. QED
    BY <1>5, <2>1, <2>2, <2>4, Zenon
<1>7. UsageTypeOK'
  <2>1. taken' \in [entry : 0..MaxEntries, bytes : Nat, both : Nat]
    BY <1>3, <1>5, Zenon
  <2>2. listed' \in 0..MaxEntries
    BY <1>3, <1>5
  <2>3. reporter' \in {"running", "stopping", "final", "done"} /\ flush' \in {"none", "taking", "posting"}
    BY <1>3, <1>4, Zenon
  <2>4. QED
    BY <1>3, <1>6, <2>1, <2>2, <2>3, Zenon DEF UsageTypeOK, EntryType
<1>8. taken = Nothing
  BY <1>3, Zenon DEF UsageInv, FlushIsSane
<1>9. UnitsAreCounted'
  <2>1. Bytes \in [Entries -> Nat] /\ IsFiniteSet(Units(Bytes)) /\ Bytes[e] = n
    BY <1>2, <1>3, <1>5, Zenon DEF UsageInv, UnitsAreCounted, Bytes, UsageTypeOK
  <2>2. Both' = Both /\ Bytes' = [Bytes EXCEPT ![e] = 0]
    BY <1>5, <1>6, Zenon DEF Bytes, Both
  <2>3. [Bytes EXCEPT ![e] = 0] = [Bytes EXCEPT ![e] = @ - n]
    BY <1>5, <2>1
  <2>4. PICK less : less = [Bytes EXCEPT ![e] = @ - n]
    BY Zenon
  <2>5. IsFiniteSet(Units(less)) /\ Held(less) = Held(Bytes) - n
    <3>1. n <= Bytes[e]
      BY <1>5, <2>1
    <3>2. QED
      BY <1>5, <2>1, <2>4, <3>1, UnitsTaken, Zenon
  <2>6. Held(Bytes) \in Nat
    BY <2>1, FS_CardinalityType, Zenon DEF Held
  <2>7. UsageIsConserved'
    <3>1. owed.bytes = Held(Bytes) + taken.bytes /\ owed.both = Held(Both) + taken.both
      BY Zenon DEF UsageInv, UnitsAreCounted, UsageIsConserved
    <3>2. owed'.bytes = Held(less) + taken'.bytes
      BY <1>3, <1>5, <1>8, <2>5, <2>6, <3>1 DEF Nothing
    <3>3. owed'.both = Held(Both) + taken'.both
      BY <1>3, <1>8, <3>1, Zenon DEF Nothing
    <3>4. QED
      BY <2>2, <2>3, <2>4, <3>2, <3>3, ZenonT(60) DEF UsageIsConserved, Held, Units
  <2>8. QED
    BY <2>2, <2>3, <2>4, <2>5, <2>7, ZenonT(60) DEF UsageInv, UnitsAreCounted, Units
<1>10. \A f \in Entries : OpenOn(f)' = OpenOn(f) /\ Counting(f)' = Counting(f) /\ (Busy(f)' <=> Busy(f))
  BY <1>3, Zenon DEF OpenOn, Counting, Busy
<1>11. OpenIsCounted'
  BY <1>6, <1>10, Zenon DEF UsageInv, OpenIsCounted
<1>12. ConnsAreSane'
  <2>1. ASSUME Dropped(e), NEW c \in Conns, conns[c].open PROVE FALSE
    <3>1. c \in OpenOn(e)
      BY <1>1, <2>1, Zenon DEF OpenOn, UsageInv, ConnsAreSane
    <3>2. Cardinality(OpenOn(e)) = 0 /\ IsFiniteSet(OpenOn(e))
      BY <1>5, <2>1, CountsAreFinite, Zenon DEF Dropped, UsageInv, OpenIsCounted
    <3>3. OpenOn(e) = {}
      BY <3>2, FS_EmptySet, Zenon
    <3>4. QED
      BY <3>1, <3>3, Zenon
  <2>2. QED
    BY <1>1, <1>3, <2>1, Zenon DEF UsageInv, ConnsAreSane
<1>13. AlwaysCarried'
  <2>1. SUFFICES ASSUME NEW f \in Entries
                 PROVE  usage'[f].both <= usage'[f].bytes + Pending(f)' + Cardinality(Counting(f)')
    BY Zenon DEF AlwaysCarried
  <2>2. /\ usage[f].both <= usage[f].bytes + Pending(f) + Cardinality(Counting(f)) /\ Pending(f) = 0
        /\ usage[f].both \in Nat /\ usage[f].bytes \in Nat
    BY <1>3, Zenon DEF UsageInv, AlwaysCarried, Pending, UsageTypeOK
  <2>3. Cardinality(Counting(f)) \in Nat
    BY CountsAreFinite, FS_CardinalityType, Zenon
  <2>4. Pending(f)' = IF f = e THEN n ELSE 0
    BY <1>3, Zenon DEF Pending
  <2>5. CASE f = e
    <3>1. /\ usage'[f].both = usage[f].both /\ usage'[f].bytes = 0 /\ usage[f].bytes = n
          /\ Pending(f)' = n /\ Counting(f)' = Counting(f)
      BY <1>2, <1>5, <1>6, <1>10, <2>4, <2>5, Zenon
    <3>2. QED
      BY <2>2, <2>3, <3>1
  <2>6. CASE f # e
    <3>1. /\ usage'[f].both = usage[f].both /\ usage'[f].bytes = usage[f].bytes
          /\ Pending(f)' = 0 /\ Counting(f)' = Counting(f)
      BY <1>6, <1>10, <2>4, <2>6, Zenon
    <3>2. QED
      BY <2>2, <3>1, Zenon
  <2>7. QED
    BY <2>5, <2>6, Zenon
<1>14. NeverStranded'
  <2>1. taken'.entry = e
    BY <1>3, Zenon
  <2>2. QED
    BY <1>1, <1>3, <1>6, <1>10, <2>1, Zenon DEF UsageInv, NeverStranded
<1>15. StoppedIsQuiet' /\ FlushIsSane'
  BY <1>3, <1>4, <1>5, Zenon DEF UsageInv, StoppedIsQuiet, FlushIsSane
<1>16. LastFlushTakesAll'
  <2>1. ASSUME reporter' = "final", late' = {}, NEW f \in Entries
        PROVE  usage'[f].bytes = 0 /\ (f # e => usage'[f].both = 0)
    <3>1. ~Busy(f)
      BY <1>4, <2>1, Zenon DEF UsageInv, StoppedIsQuiet, Busy
    <3>2. QED
      BY <1>1, <1>3, <1>6, <2>1, <3>1, Zenon DEF UsageInv, NeverStranded
  <2>2. QED
    BY <1>3, <1>4, <2>1, Zenon DEF LastFlushTakesAll
<1>17. QED
  BY <1>7, <1>9, <1>11, <1>12, <1>13, <1>14, <1>15, <1>16, Zenon DEF UsageInv

\* And then the connections.
LEMMA FlushTakesKeeps ==
    ASSUME UsageInv, FlushTakes
    PROVE  UsageInv'
<1> USE UsageAssumption
<1>1. PICK e : e = taken.entry
  BY Zenon
<1>2. PICK n : n = Taken(usage[e].both, taken.bytes)
  BY Zenon
<1>3. /\ UsageTypeOK /\ flush = "taking"
      /\ usage' = [usage EXCEPT ![e].both = @ - n]
      /\ IF taken.bytes > 0
         THEN flush' = "posting" /\ taken' = [taken EXCEPT !.both = n] /\ UNCHANGED reporter
         ELSE flush' = "none" /\ taken' = Nothing /\ reporter' = AfterFlush
      /\ UNCHANGED <<listed, conns, owed, late, failed>>
  BY <1>1, <1>2, Zenon DEF UsageInv, FlushTakes
<1>4. /\ e \in Entries /\ taken.both = 0 /\ listed \in {0, e}
      /\ reporter # "done" /\ (reporter = "final" => ~failed)
  BY <1>1, <1>3, Zenon DEF UsageInv, FlushIsSane
<1>5. taken.bytes \in Nat /\ usage[e].both \in Nat /\ usage[e] \in EntryType
  BY <1>3, <1>4, Zenon DEF UsageTypeOK, EntryType
<1>6. n \in Nat /\ n <= usage[e].both /\ n <= taken.bytes /\ (n = usage[e].both \/ n = taken.bytes)
  BY <1>2, <1>5 DEF Taken
<1>7. /\ usage' \in [Entries -> EntryType]
      /\ \A f \in Entries : /\ usage'[f].open = usage[f].open /\ usage'[f].bytes = usage[f].bytes
                            /\ usage'[f].both = IF f = e THEN usage[f].both - n ELSE usage[f].both
  <2>1. usage[e].both - n \in Nat
    BY <1>5, <1>6
  <2>2. QED
    BY <1>3, <1>4, <2>1 DEF UsageTypeOK, EntryType
<1>8. /\ taken' \in [entry : 0..MaxEntries, bytes : Nat, both : Nat]
      /\ taken'.bytes = taken.bytes /\ taken'.both = n
  <2>1. CASE taken.bytes > 0
    BY <1>3, <1>6, <2>1, Zenon DEF UsageTypeOK
  <2>2. CASE ~(taken.bytes > 0)
    <3>1. taken.bytes = 0 /\ n = 0
      BY <1>5, <1>6, <2>2
    <3>2. QED
      BY <1>3, <2>2, <3>1 DEF Nothing
  <2>3. QED
    BY <2>1, <2>2, Zenon
<1>9. /\ flush' \in {"none", "posting"}
      /\ flush' = "none" => taken' = Nothing /\ reporter' = AfterFlush
      /\ flush' = "posting" => taken'.entry = e /\ reporter' = reporter
  BY <1>1, <1>3, Zenon DEF UsageTypeOK
<1>10. UsageTypeOK'
  <2>1. reporter' \in {"running", "stopping", "final", "done"}
    BY <1>3, <1>9, Zenon DEF AfterFlush, UsageTypeOK
  <2>2. QED
    BY <1>3, <1>7, <1>8, <1>9, <2>1, Zenon DEF UsageTypeOK, EntryType
<1>11. UnitsAreCounted'
  <2>1. Both \in [Entries -> Nat] /\ IsFiniteSet(Units(Both)) /\ Both[e] = usage[e].both
    BY <1>3, <1>4, Zenon DEF UsageInv, UnitsAreCounted, Both, UsageTypeOK
  <2>2. Bytes' = Bytes /\ Both' = [Both EXCEPT ![e] = @ - n]
    BY <1>4, <1>7, Zenon DEF Bytes, Both
  <2>3. PICK less : less = [Both EXCEPT ![e] = @ - n]
    BY Zenon
  <2>4. n <= Both[e]
    BY <1>6, <2>1, Zenon
  <2>5. IsFiniteSet(Units(less)) /\ Held(less) = Held(Both) - n
    BY <1>4, <1>6, <2>1, <2>3, <2>4, UnitsTaken, Zenon
  <2>6. Held(Both) \in Nat
    BY <2>1, FS_CardinalityType, Zenon DEF Held
  <2>7. UsageIsConserved'
    <3>1. owed.bytes = Held(Bytes) + taken.bytes /\ owed.both = Held(Both) + taken.both
      BY DEF UsageInv, UnitsAreCounted, UsageIsConserved
    <3>2. owed'.both = Held(less) + taken'.both
      BY <1>3, <1>4, <1>6, <1>8, <2>5, <2>6, <3>1
    <3>3. owed'.bytes = Held(Bytes) + taken'.bytes
      BY <1>3, <1>8, <3>1, Zenon
    <3>4. QED
      BY <2>2, <2>3, <3>2, <3>3, Zenon DEF UsageIsConserved, Held, Units
  <2>8. QED
    BY <2>2, <2>3, <2>5, <2>7, Zenon DEF UsageInv, UnitsAreCounted, Units
<1>12. \A f \in Entries : OpenOn(f)' = OpenOn(f) /\ Counting(f)' = Counting(f) /\ (Busy(f)' <=> Busy(f))
  BY <1>3, Zenon DEF OpenOn, Counting, Busy
<1>13. OpenIsCounted' /\ ConnsAreSane'
  BY <1>3, <1>7, <1>12, Zenon DEF UsageInv, OpenIsCounted, ConnsAreSane
<1>14. \A f \in Entries : usage'[f].both <= usage'[f].bytes + Cardinality(Counting(f))
  <2>1. SUFFICES ASSUME NEW f \in Entries
                 PROVE  usage'[f].both <= usage'[f].bytes + Cardinality(Counting(f))
    BY Zenon
  <2>2. /\ usage[f].both <= usage[f].bytes + Pending(f) + Cardinality(Counting(f))
        /\ Pending(f) = IF f = e THEN taken.bytes ELSE 0
        /\ usage[f].both \in Nat /\ usage[f].bytes \in Nat
    BY <1>1, <1>3, Zenon DEF UsageInv, AlwaysCarried, Pending, UsageTypeOK
  <2>3. Cardinality(Counting(f)) \in Nat
    BY CountsAreFinite, FS_CardinalityType
  <2>4. QED
    BY <1>5, <1>6, <1>7, <2>2, <2>3
<1>15. AlwaysCarried'
  <2>1. \A f \in Entries : Pending(f)' = 0 /\ usage'[f].bytes \in Nat /\ Cardinality(Counting(f)) \in Nat
    BY <1>9, <1>10, CountsAreFinite, FS_CardinalityType, Zenon DEF Pending, UsageTypeOK
  <2>2. QED
    BY <1>12, <1>14, <2>1 DEF AlwaysCarried
<1>16. \A f \in Entries : usage'[f].bytes = 0 /\ ~Busy(f) => usage'[f].both = 0
  <2>1. SUFFICES ASSUME NEW f \in Entries, usage'[f].bytes = 0, ~Busy(f) PROVE usage'[f].both = 0
    BY Zenon
  <2>2. Counting(f) = {}
    BY <2>1, Zenon DEF Counting, Busy, UsageInv, ConnsAreSane
  <2>3. Cardinality(Counting(f)) = 0 /\ usage'[f].both \in Nat
    BY <1>10, <2>2, FS_EmptySet, Zenon DEF UsageTypeOK
  <2>4. QED
    BY <1>14, <2>1, <2>3
<1>17. NeverStranded'
  BY <1>3, <1>7, <1>12, <1>16 DEF UsageInv, NeverStranded
<1>18. StoppedIsQuiet'
  BY <1>3, <1>9, Zenon DEF UsageInv, StoppedIsQuiet, AfterFlush
<1>19. FlushIsSane'
  BY <1>3, <1>4, <1>6, <1>8, <1>9, Zenon DEF UsageInv, FlushIsSane, AfterFlush
<1>20. LastFlushTakesAll'
  <2>1. ASSUME reporter = "final", late = {}, NEW f \in Entries
        PROVE  usage'[f].bytes = 0 /\ usage'[f].both = 0
    <3>1. ~Busy(f)
      BY <2>1, Zenon DEF UsageInv, StoppedIsQuiet, Busy
    <3>2. usage[f].bytes = 0
      BY <1>3, <2>1, Zenon DEF UsageInv, LastFlushTakesAll
    <3>3. QED
      BY <1>7, <1>16, <3>1, <3>2, Zenon
  <2>2. QED
    BY <1>3, <1>4, <1>9, <2>1, Zenon DEF LastFlushTakesAll, AfterFlush
<1>21. QED
  BY <1>10, <1>11, <1>13, <1>15, <1>17, <1>18, <1>19, <1>20, Zenon DEF UsageInv

\* The sidecar confirms the report.
LEMMA ReportedKeeps ==
    ASSUME UsageInv, Reported
    PROVE  UsageInv'
<1> USE UsageAssumption
<1>1. /\ UsageTypeOK /\ flush = "posting"
      /\ owed' = [bytes |-> owed.bytes - taken.bytes, both |-> owed.both - taken.both]
      /\ flush' = "none" /\ taken' = Nothing /\ reporter' = AfterFlush
      /\ UNCHANGED <<usage, listed, conns, late, failed>>
  BY Zenon DEF UsageInv, Reported
<1>2. /\ IsFiniteSet(Units(Bytes)) /\ IsFiniteSet(Units(Both))
      /\ owed.bytes = Held(Bytes) + taken.bytes /\ owed.both = Held(Both) + taken.both
  BY Zenon DEF UsageInv, UnitsAreCounted, UsageIsConserved
<1>3. Held(Bytes) \in Nat /\ Held(Both) \in Nat /\ taken.bytes \in Nat /\ taken.both \in Nat
  BY <1>1, <1>2, FS_CardinalityType, Zenon DEF Held, UsageTypeOK
<1>4. owed' = [bytes |-> Held(Bytes), both |-> Held(Both)]
  BY <1>1, <1>2, <1>3
<1>5. Bytes' = Bytes /\ Both' = Both
  BY <1>1, Zenon DEF Bytes, Both
<1>6. UnitsAreCounted'
  <2>1. owed'.bytes = Held(Bytes) + taken'.bytes /\ owed'.both = Held(Both) + taken'.both
    BY <1>1, <1>3, <1>4 DEF Nothing
  <2>2. QED
    BY <1>2, <1>5, <2>1, Zenon DEF UnitsAreCounted, UsageIsConserved, Units, Held
<1>7. UsageTypeOK'
  <2>1. owed' \in [bytes : Nat, both : Nat] /\ taken' \in [entry : 0..MaxEntries, bytes : Nat, both : Nat]
    BY <1>1, <1>3, <1>4 DEF Nothing
  <2>2. reporter' \in {"running", "stopping", "final", "done"}
    BY <1>1, Zenon DEF AfterFlush, UsageTypeOK
  <2>3. QED
    BY <1>1, <2>1, <2>2, Zenon DEF UsageTypeOK
<1>8. \A f \in Entries : /\ OpenOn(f)' = OpenOn(f) /\ Counting(f)' = Counting(f) /\ (Busy(f)' <=> Busy(f))
                         /\ Pending(f)' = Pending(f)
  BY <1>1, Zenon DEF OpenOn, Counting, Busy, Pending
<1>9. OpenIsCounted' /\ ConnsAreSane' /\ AlwaysCarried' /\ NeverStranded'
  BY <1>1, <1>8, Zenon DEF UsageInv, OpenIsCounted, ConnsAreSane, AlwaysCarried, NeverStranded
<1>10. StoppedIsQuiet' /\ FlushIsSane'
  BY <1>1, Zenon DEF UsageInv, StoppedIsQuiet, FlushIsSane, AfterFlush
<1>11. LastFlushTakesAll'
  BY <1>1, Zenon DEF UsageInv, LastFlushTakesAll, FlushIsSane, AfterFlush
<1>12. QED
  BY <1>6, <1>7, <1>9, <1>10, <1>11, Zenon DEF UsageInv

\* A report that fails is put back.
LEMMA ReportFailsKeeps ==
    ASSUME UsageInv, ReportFails
    PROVE  UsageInv'
<1> USE UsageAssumption
<1>1. PICK g : g = IF listed # 0 THEN listed ELSE taken.entry
  BY Zenon
<1>2. PICK n : n = taken.bytes
  BY Zenon
<1>3. PICK m : m = taken.both
  BY Zenon
<1>4. /\ UsageTypeOK /\ flush = "posting"
      /\ usage' = [usage EXCEPT ![g].bytes = @ + n, ![g].both = @ + m]
      /\ listed' = g
      /\ flush' = "none" /\ taken' = Nothing /\ reporter' = AfterFlush
      /\ failed' = TRUE
      /\ UNCHANGED <<conns, owed, late>>
  BY <1>1, <1>2, <1>3, Zenon DEF UsageInv, ReportFails, Restored, Relisted
<1>5. /\ g \in Entries /\ g \in 0..MaxEntries /\ g # 0
      /\ n \in Nat /\ m \in Nat /\ m <= n
  BY <1>1, <1>2, <1>3, <1>4 DEF UsageInv, FlushIsSane, UsageTypeOK, Entries
<1>6. /\ usage' \in [Entries -> EntryType]
      /\ \A f \in Entries : /\ usage'[f].open = usage[f].open
                            /\ usage'[f].bytes = IF f = g THEN usage[f].bytes + n ELSE usage[f].bytes
                            /\ usage'[f].both = IF f = g THEN usage[f].both + m ELSE usage[f].both
  <2> DEFINE k1 == [usage[g] EXCEPT !.bytes = @ + n]
             k2 == [k1 EXCEPT !.both = @ + m]
  <2>1. usage \in [Entries -> EntryType] /\ usage[g] \in EntryType
    BY <1>4, <1>5, Zenon DEF UsageTypeOK, EntryType
  <2>2. usage' = [usage EXCEPT ![g] = k2]
    BY <1>4, <1>5, <2>1, Zenon
  <2>3. /\ k1 \in EntryType /\ k1.open = usage[g].open /\ k1.both = usage[g].both
        /\ k1.bytes = usage[g].bytes + n
    BY <1>5, <2>1 DEF EntryType
  <2> HIDE DEF k1
  <2>4. /\ k2 \in EntryType /\ k2.open = usage[g].open /\ k2.both = usage[g].both + m
        /\ k2.bytes = usage[g].bytes + n
    BY <1>5, <2>3 DEF EntryType
  <2> HIDE DEF k2
  <2>5. QED
    BY <1>5, <2>1, <2>2, <2>4, Zenon
<1>7. UsageTypeOK'
  <2>1. taken' \in [entry : 0..MaxEntries, bytes : Nat, both : Nat]
    BY <1>4 DEF Nothing
  <2>2. reporter' \in {"running", "stopping", "final", "done"}
    BY <1>4, Zenon DEF AfterFlush, UsageTypeOK
  <2>3. QED
    BY <1>4, <1>5, <1>6, <2>1, <2>2, Zenon DEF UsageTypeOK, EntryType
<1>8. UnitsAreCounted'
  <2>1. /\ Bytes \in [Entries -> Nat] /\ IsFiniteSet(Units(Bytes))
        /\ Both \in [Entries -> Nat] /\ IsFiniteSet(Units(Both))
    BY <1>4, Zenon DEF UsageInv, UnitsAreCounted, Both, Bytes, UsageTypeOK
  <2>2. PICK moreBytes : moreBytes = [Bytes EXCEPT ![g] = @ + n]
    BY Zenon
  <2>3. PICK moreBoth : moreBoth = [Both EXCEPT ![g] = @ + m]
    BY Zenon
  <2>4. Bytes' = moreBytes /\ Both' = moreBoth
    BY <1>5, <1>6, <2>2, <2>3, Zenon DEF Bytes, Both
  <2>5. IsFiniteSet(Units(moreBytes)) /\ Held(moreBytes) = Held(Bytes) + n
    BY <1>5, <2>1, <2>2, UnitsAdded, Zenon
  <2>6. IsFiniteSet(Units(moreBoth)) /\ Held(moreBoth) = Held(Both) + m
    BY <1>5, <2>1, <2>3, UnitsAdded, Zenon
  <2>7. Held(Bytes) \in Nat /\ Held(Both) \in Nat
    BY <2>1, FS_CardinalityType, Zenon DEF Held
  <2>8. owed.bytes = Held(Bytes) + n /\ owed.both = Held(Both) + m
    BY <1>2, <1>3, Zenon DEF UsageInv, UnitsAreCounted, UsageIsConserved
  <2>9. owed'.bytes = Held(moreBytes) + taken'.bytes /\ owed'.both = Held(moreBoth) + taken'.both
    BY <1>4, <1>5, <2>5, <2>6, <2>7, <2>8 DEF Nothing
  <2>10. QED
    BY <2>4, <2>5, <2>6, <2>9, Zenon DEF UnitsAreCounted, UsageIsConserved, Units, Held
<1>9. \A f \in Entries : /\ OpenOn(f)' = OpenOn(f) /\ Counting(f)' = Counting(f) /\ (Busy(f)' <=> Busy(f))
                         /\ Pending(f)' = 0 /\ Pending(f) = 0
  BY <1>4, Zenon DEF OpenOn, Counting, Busy, Pending
<1>10. OpenIsCounted'
  BY <1>6, <1>9, Zenon DEF UsageInv, OpenIsCounted
<1>11. ConnsAreSane'
  BY <1>1, <1>4, <1>5, Zenon DEF UsageInv, ConnsAreSane
<1>12. AlwaysCarried'
  <2>1. SUFFICES ASSUME NEW f \in Entries
                 PROVE  usage'[f].both <= usage'[f].bytes + Pending(f)' + Cardinality(Counting(f)')
    BY DEF AlwaysCarried
  <2>2. /\ usage[f].both <= usage[f].bytes + Pending(f) + Cardinality(Counting(f))
        /\ usage[f].both \in Nat /\ usage[f].bytes \in Nat
    BY <1>4, Zenon DEF UsageInv, AlwaysCarried, UsageTypeOK
  <2>3. Cardinality(Counting(f)) \in Nat
    BY CountsAreFinite, FS_CardinalityType
  <2>4. /\ Pending(f)' = 0 /\ Pending(f) = 0 /\ Counting(f)' = Counting(f)
        /\ n \in Nat /\ m \in Nat /\ m <= n
    BY <1>5, <1>9, Zenon
  <2>5. CASE f = g
    <3>1. usage'[f].bytes = usage[f].bytes + n /\ usage'[f].both = usage[f].both + m
      BY <1>6, <2>5, Zenon
    <3>2. QED
      BY <2>2, <2>3, <2>4, <3>1
  <2>6. CASE f # g
    <3>1. usage'[f].bytes = usage[f].bytes /\ usage'[f].both = usage[f].both
      BY <1>6, <2>6, Zenon
    <3>2. QED
      BY <2>2, <2>4, <3>1, Zenon
  <2>7. QED
    BY <2>5, <2>6, Zenon
<1>13. NeverStranded'
  <2>1. \A f \in Entries : f # g => f # listed
    BY <1>1 DEF Entries
  <2>2. QED
    BY <1>4, <1>6, <1>9, <2>1, Zenon DEF UsageInv, NeverStranded
<1>14. StoppedIsQuiet' /\ FlushIsSane' /\ LastFlushTakesAll'
  BY <1>4, Zenon DEF UsageInv, StoppedIsQuiet, FlushIsSane, LastFlushTakesAll, AfterFlush
<1>15. QED
  BY <1>7, <1>8, <1>10, <1>11, <1>12, <1>13, <1>14, Zenon DEF UsageInv

\* What changes nothing but the reporter and its verdict keeps the accounts.
LEMMA AccountsStay ==
    ASSUME UsageInv, UNCHANGED <<usage, listed, conns, flush, taken, owed, late>>
    PROVE  UnitsAreCounted' /\ OpenIsCounted' /\ ConnsAreSane' /\ AlwaysCarried' /\ NeverStranded'
<1>1. Bytes' = Bytes /\ Both' = Both
  BY Zenon DEF Bytes, Both
<1>2. UnitsAreCounted'
  BY <1>1, Zenon DEF UsageInv, UnitsAreCounted, UsageIsConserved, Units, Held
<1>3. \A f \in Entries : /\ OpenOn(f)' = OpenOn(f) /\ Counting(f)' = Counting(f) /\ (Busy(f)' <=> Busy(f))
                         /\ Pending(f)' = Pending(f)
  BY Zenon DEF OpenOn, Counting, Busy, Pending
<1>4. QED
  BY <1>2, <1>3, Zenon DEF UsageInv, OpenIsCounted, ConnsAreSane, AlwaysCarried, NeverStranded

\* The reporter stops.
LEMMA StopKeeps ==
    ASSUME UsageInv, CloseReporter \/ FinalFlushEmpty \/ UNCHANGED usageVars
    PROVE  UsageInv'
<1>1. UNCHANGED <<usage, listed, conns, flush, taken, owed, late>>
  BY Zenon DEF CloseReporter, FinalFlushEmpty, usageVars
<1>2. UnitsAreCounted' /\ OpenIsCounted' /\ ConnsAreSane' /\ AlwaysCarried' /\ NeverStranded'
  BY <1>1, AccountsStay, Zenon
<1>3. UsageTypeOK' /\ StoppedIsQuiet' /\ FlushIsSane'
  <2>1. reporter' \in {"running", "stopping", "final", "done"} /\ failed' \in BOOLEAN
    BY Zenon DEF UsageInv, UsageTypeOK, CloseReporter, FinalFlushEmpty, usageVars
  <2>2. UsageTypeOK'
    BY <1>1, <2>1, Zenon DEF UsageInv, UsageTypeOK
  <2>3. StoppedIsQuiet'
    BY <1>1, Zenon DEF UsageInv, StoppedIsQuiet, CloseReporter, FinalFlushEmpty, usageVars
  <2>4. FlushIsSane'
    BY <1>1 DEF UsageInv, FlushIsSane, CloseReporter, FinalFlushEmpty, usageVars
  <2>5. QED
    BY <2>2, <2>3, <2>4, Zenon
<1>4. LastFlushTakesAll'
  <2>1. CASE CloseReporter
    BY <1>1, <2>1, Zenon DEF LastFlushTakesAll, CloseReporter
  <2>2. CASE FinalFlushEmpty
    <3>1. ASSUME late = {}, NEW f \in Entries PROVE usage[f].bytes = 0 /\ usage[f].both = 0
      <4>1. ~Busy(f) /\ f # listed /\ flush = "none"
        BY <2>2 DEF UsageInv, StoppedIsQuiet, Busy, FinalFlushEmpty, Entries
      <4>2. QED
        BY <3>1, <4>1, Zenon DEF UsageInv, NeverStranded
    <3>2. QED
      BY <2>2, <3>1, Zenon DEF LastFlushTakesAll, FinalFlushEmpty
  <2>3. CASE UNCHANGED usageVars
    BY <2>3, Zenon DEF UsageInv, LastFlushTakesAll, usageVars
  <2>4. QED
    BY <2>1, <2>2, <2>3, Zenon
<1>5. QED
  BY <1>2, <1>3, <1>4, Zenon DEF UsageInv

\* The invariant says what is promised.
LEMMA AccountsSuffice == UsageInv => UsageIsAccounted
<1> SUFFICES ASSUME UsageInv PROVE UsageIsAccounted
  BY Zenon
<1> USE UsageAssumption
<1>1. ConnectionsAreCarried
  <2>1. SUFFICES ASSUME flush = "none", NEW e \in Entries
                 PROVE  usage[e].both <= usage[e].bytes + Cardinality(Counting(e))
    BY Zenon DEF ConnectionsAreCarried, Counting
  <2>2. /\ usage[e].both <= usage[e].bytes + Pending(e) + Cardinality(Counting(e)) /\ Pending(e) = 0
        /\ usage[e].bytes \in Nat
    BY <2>1, Zenon DEF UsageInv, AlwaysCarried, Pending, UsageTypeOK
  <2>3. QED
    BY <2>2
<1>2. NothingIsStranded
  BY Zenon DEF UsageInv, NeverStranded, NothingIsStranded, Busy
<1>3. CloseReportsEverything
  <2>1. SUFFICES ASSUME reporter = "done", ~failed, late = {} PROVE owed.bytes = 0 /\ owed.both = 0
    BY Zenon DEF CloseReportsEverything
  <2>2. \A e \in Entries : Bytes[e] = 0 /\ Both[e] = 0
    BY <2>1, Zenon DEF UsageInv, LastFlushTakesAll, Bytes, Both
  <2>3. Held(Bytes) = 0 /\ Held(Both) = 0
    BY <2>2, NoUnits, Zenon
  <2>4. taken.bytes = 0 /\ taken.both = 0
    BY <2>1 DEF UsageInv, FlushIsSane, Nothing
  <2>5. QED
    BY <2>3, <2>4 DEF UsageInv, UnitsAreCounted, UsageIsConserved
<1>4. QED
  BY <1>1, <1>2, <1>3, Zenon DEF UsageInv, UsageIsAccounted, UnitsAreCounted, FlushIsSane, ReportIsAcceptable

\* Neither a byte nor a bidirectional connection is lost or reported twice, and what is counted
\* before Close is reported, for any number of connections, entries and unconfirmed bytes.
THEOREM UsageAlwaysAccounted == UsageSpec => []UsageIsAccounted
<1>1. UsageInv /\ [UsageNext]_usageVars => UsageInv'
  <2>1. SUFFICES ASSUME UsageInv, [UsageNext]_usageVars PROVE UsageInv'
    BY Zenon
  <2>2. CASE UNCHANGED usageVars
    BY <2>1, <2>2, StopKeeps, Zenon
  <2>3. ASSUME NEW c \in Conns, Acquire(c) \/ CloseCounted(c) \/ PacketIO(c) PROVE UsageInv'
    BY <2>1, <2>3, AcquireKeeps, CloseKeeps, PacketIOKeeps, Zenon
  <2>4. ASSUME NEW c \in Conns, NEW dir \in Directions, IOBegins(c, dir) \/ IOEnds(c, dir)
        PROVE  UsageInv'
    BY <2>1, <2>4, IOBeginsKeeps, IOEndsKeeps, Zenon
  <2>5. CASE FlushBegins \/ FlushTakes
    BY <2>1, <2>5, FlushBeginsKeeps, FlushTakesKeeps, Zenon
  <2>6. CASE Reported \/ ReportFails
    BY <2>1, <2>6, ReportedKeeps, ReportFailsKeeps, Zenon
  <2>7. CASE CloseReporter \/ FinalFlushEmpty
    BY <2>1, <2>7, StopKeeps, Zenon
  <2>8. QED
    BY <2>1, <2>2, <2>3, <2>4, <2>5, <2>6, <2>7, Zenon DEF UsageNext
<1>2. QED
  BY <1>1, UsageInitially, AccountsSuffice, PTL DEF UsageSpec
=============================================================================
