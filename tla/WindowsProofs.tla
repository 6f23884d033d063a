---------------------------- MODULE WindowsProofs ---------------------------
(***************************************************************************)
(* Proofs about MCWindows: the rate limiter, the velocity counter, the     *)
(* expiring counter, the types of the stream processor and the             *)
(* notification service each have an inductive invariant of their own, and *)
(* every step of the composition is a step or a stutter of each.           *)
(***************************************************************************)
EXTENDS MCWindows, CountingLemmas, SequenceTheorems, TLAPS
-----------------------------------------------------------------------------
(* Sums over a bag of seconds *)
\* f[t] is what bag has from the second from up to t.
IsUpto(m, bag, from, f) ==
  f = [t \in 0..m |-> (IF t = 0 THEN 0 ELSE f[t - 1]) + (IF t >= from THEN bag[t] ELSE 0)]

\* There is such a function.
LEMMA UptoExists ==
  ASSUME NEW m \in Nat, NEW bag \in [0..m -> Nat], NEW from \in Int
  PROVE  \E f : IsUpto(m, bag, from, f)
<1> DEFINE share(t) == IF t >= from THEN bag[t] ELSE 0
           G == [i \in Nat |-> [v \in Nat |-> v + (IF i + 1 <= m THEN share(i + 1) ELSE 0)]]
<1>1. \A t \in 0..m : share(t) \in Nat
  OBVIOUS
<1>2. \A i \in Nat : i + 1 <= m => i + 1 \in 0..m
  OBVIOUS
<1> HIDE DEF share
<1>3. G \in [Nat -> [Nat -> Nat]]
  BY <1>1, <1>2
<1>4. share(0) \in Nat
  BY <1>1
<1>5. PICK f : Steps(m, share(0), G, Nat, f)
  BY <1>3, <1>4, StepsExist
<1>6. f \in [0..m -> Nat] /\ f[0] = share(0) /\ \A i \in 0..(m - 1) : f[i + 1] = G[i][f[i]]
  BY <1>5 DEF Steps
<1>7. ASSUME NEW t \in 0..m PROVE f[t] = (IF t = 0 THEN 0 ELSE f[t - 1]) + share(t)
  <2>1. CASE t = 0
    BY <1>1, <1>6, <2>1
  <2>2. CASE t # 0
    <3>1. t - 1 \in 0..(m - 1) /\ (t - 1) + 1 = t /\ t - 1 \in Nat /\ t <= m
      BY <2>2
    <3>2. f[t] = G[t - 1][f[t - 1]] /\ f[t - 1] \in Nat
      BY <1>6, <3>1, SMTT(30)
    <3> QED BY <2>2, <3>1, <3>2
  <2> QED BY <2>1, <2>2
<1>8. f = [t \in 0..m |-> (IF t = 0 THEN 0 ELSE f[t - 1]) + share(t)]
  BY <1>6, <1>7
<1> QED BY <1>8 DEF IsUpto, share

\* Its values are naturals, each the one before and what its own second adds.
LEMMA UptoStep ==
  ASSUME NEW m \in Nat, NEW bag \in [0..m -> Nat], NEW from \in Int, NEW f, IsUpto(m, bag, from, f)
  PROVE  /\ f[0] = IF 0 >= from THEN bag[0] ELSE 0
         /\ \A t \in 1..m : f[t] = f[t - 1] + (IF t >= from THEN bag[t] ELSE 0)
         /\ \A t \in 0..m : f[t] \in Nat
<1>1. \A t \in 0..m : f[t] = (IF t = 0 THEN 0 ELSE f[t - 1]) + (IF t >= from THEN bag[t] ELSE 0)
  BY DEF IsUpto
<1>2. f[0] = (IF 0 >= from THEN bag[0] ELSE 0)
  BY <1>1
<1>3. \A t \in 1..m : f[t] = f[t - 1] + (IF t >= from THEN bag[t] ELSE 0)
  BY <1>1
<1> DEFINE S == {t \in Nat : t <= m => f[t] \in Nat}
<1>4. 0 \in S
  BY <1>2
<1>5. ASSUME NEW n \in Nat, n \in S PROVE n + 1 \in S
  <2> SUFFICES ASSUME n + 1 <= m PROVE f[n + 1] \in Nat
    OBVIOUS
  <2>1. n + 1 \in 1..m /\ (n + 1) - 1 = n /\ f[n] \in Nat /\ n + 1 \in 0..m
    BY <1>5
  <2>2. f[n + 1] = f[n] + (IF n + 1 >= from THEN bag[n + 1] ELSE 0)
    BY <1>3, <2>1
  <2> QED BY <2>1, <2>2
<1> HIDE DEF S
<1>6. Nat \subseteq S
  BY <1>4, <1>5, SetInduction
<1>7. \A t \in 0..m : f[t] \in Nat
  BY <1>6 DEF S
<1> QED BY <1>2, <1>3, <1>7

\* Second by second no more is no more in all.
LEMMA UptoOrder ==
  ASSUME NEW m \in Nat, NEW bag \in [0..m -> Nat], NEW from \in Int, NEW f, IsUpto(m, bag, from, f),
         NEW other \in [0..m -> Nat], NEW since \in Int, NEW g, IsUpto(m, other, since, g),
         \A t \in 0..m : t >= from => (bag[t] = 0 \/ (t >= since /\ bag[t] <= other[t]))
  PROVE  f[m] <= g[m]
<1>1. /\ f[0] = IF 0 >= from THEN bag[0] ELSE 0
      /\ \A t \in 1..m : f[t] = f[t - 1] + (IF t >= from THEN bag[t] ELSE 0)
      /\ \A t \in 0..m : f[t] \in Nat
  BY UptoStep
<1>2. /\ g[0] = IF 0 >= since THEN other[0] ELSE 0
      /\ \A t \in 1..m : g[t] = g[t - 1] + (IF t >= since THEN other[t] ELSE 0)
      /\ \A t \in 0..m : g[t] \in Nat
  BY UptoStep
<1>3. \A t \in 0..m : (IF t >= from THEN bag[t] ELSE 0) <= (IF t >= since THEN other[t] ELSE 0)
  OBVIOUS
<1> DEFINE S == {t \in Nat : t <= m => f[t] <= g[t]}
<1>4. 0 \in S
  BY <1>1, <1>2, <1>3
<1>5. ASSUME NEW n \in Nat, n \in S PROVE n + 1 \in S
  <2> SUFFICES ASSUME n + 1 <= m PROVE f[n + 1] <= g[n + 1]
    OBVIOUS
  <2>1. n + 1 \in 1..m /\ (n + 1) - 1 = n /\ f[n] <= g[n] /\ n \in 0..m /\ n + 1 \in 0..m
    BY <1>5
  <2> DEFINE a == IF n + 1 >= from THEN bag[n + 1] ELSE 0
             b == IF n + 1 >= since THEN other[n + 1] ELSE 0
  <2>2. f[n + 1] = f[n] + a /\ g[n + 1] = g[n] + b
    BY <1>1, <1>2, <2>1
  <2>3. a <= b /\ a \in Nat /\ b \in Nat
    BY <1>3, <2>1
  <2> HIDE DEF a, b
  <2>4. f[n] \in Nat /\ g[n] \in Nat
    BY <1>1, <1>2, <2>1
  <2>5. \A p, q, u, v \in Nat : p <= q /\ u <= v => p + u <= q + v
    OBVIOUS
  <2>6. f[n] <= g[n]
    BY <2>1
  <2>7. f[n] + a <= g[n] + b
    BY <2>3, <2>4, <2>5, <2>6
  <2> QED BY <2>2, <2>7
<1> HIDE DEF S
<1>6. Nat \subseteq S
  BY <1>4, <1>5, SetInduction
<1> QED BY <1>6 DEF S

\* other is bag with one more in the second x.
OneMore(m, bag, x, other) ==
  /\ x \in 0..m /\ other \in [0..m -> Nat]
  /\ other[x] = bag[x] + 1 /\ \A t \in 0..m : t # x => other[t] = bag[t]
More(x, from) == IF x >= from THEN 1 ELSE 0

\* One more in a second is one more in all, if the second is not too early.
LEMMA UptoMore ==
  ASSUME NEW m \in Nat, NEW bag \in [0..m -> Nat], NEW from \in Int, NEW f, IsUpto(m, bag, from, f),
         NEW x, NEW other, OneMore(m, bag, x, other),
         NEW g, IsUpto(m, other, from, g)
  PROVE  g[m] = f[m] + More(x, from)
<1>0. /\ x \in 0..m /\ other \in [0..m -> Nat]
      /\ other[x] = bag[x] + 1 /\ \A t \in 0..m : t # x => other[t] = bag[t]
  BY DEF OneMore
<1>1. /\ f[0] = IF 0 >= from THEN bag[0] ELSE 0
      /\ \A t \in 1..m : f[t] = f[t - 1] + (IF t >= from THEN bag[t] ELSE 0)
      /\ \A t \in 0..m : f[t] \in Nat
  BY UptoStep
<1>2. /\ g[0] = IF 0 >= from THEN other[0] ELSE 0
      /\ \A t \in 1..m : g[t] = g[t - 1] + (IF t >= from THEN other[t] ELSE 0)
      /\ \A t \in 0..m : g[t] \in Nat
  BY <1>0, UptoStep
<1> DEFINE S == {t \in Nat : t <= m => g[t] = f[t] + (IF x <= t /\ x >= from THEN 1 ELSE 0)}
<1>4. 0 \in S
  <2>1. CASE x = 0
    BY <1>0, <1>1, <1>2, <2>1
  <2>2. CASE x # 0
    BY <1>0, <1>1, <1>2, <2>2
  <2> QED BY <2>1, <2>2
<1>5. ASSUME NEW n \in Nat, n \in S PROVE n + 1 \in S
  <2> SUFFICES ASSUME n + 1 <= m PROVE g[n + 1] = f[n + 1] + (IF x <= n + 1 /\ x >= from THEN 1 ELSE 0)
    OBVIOUS
  <2>1. n + 1 \in 1..m /\ (n + 1) - 1 = n /\ n \in 0..m /\ n + 1 \in 0..m
        /\ g[n] = f[n] + (IF x <= n /\ x >= from THEN 1 ELSE 0)
    BY <1>5
  <2> DEFINE a == IF n + 1 >= from THEN bag[n + 1] ELSE 0
             b == IF n + 1 >= from THEN other[n + 1] ELSE 0
  <2>2. f[n + 1] = f[n] + a /\ g[n + 1] = g[n] + b
    BY <1>1, <1>2, <2>1
  <2>3. b = a + (IF x = n + 1 /\ x >= from THEN 1 ELSE 0) /\ a \in Nat /\ b \in Nat
    BY <1>0, <2>1
  <2> DEFINE c == IF x <= n /\ x >= from THEN 1 ELSE 0
             d == IF x = n + 1 /\ x >= from THEN 1 ELSE 0
             e == IF x <= n + 1 /\ x >= from THEN 1 ELSE 0
  <2>4. f[n] \in Nat /\ g[n] \in Nat
    BY <1>1, <1>2, <2>1
  <2>5. e = c + d /\ c \in Nat /\ d \in Nat
    BY <1>0, <2>1
  <2>6. g[n] = f[n] + c
    BY <2>1
  <2>7. b = a + d
    BY <2>3
  <2> HIDE DEF a, b, c, d, e
  <2>8. g[n + 1] = f[n + 1] + e
    <3>1. a \in Nat /\ c \in Nat /\ d \in Nat
      BY <2>3, <2>5
    <3>2. g[n + 1] = (f[n] + c) + (a + d) /\ f[n + 1] + e = (f[n] + a) + (c + d)
      BY <2>2, <2>5, <2>6, <2>7
    <3> DEFINE p == f[n]
    <3>3. p \in Nat
      BY <2>4
    <3> HIDE DEF p
    <3>4. (p + c) + (a + d) = (p + a) + (c + d)
      BY <3>1, <3>3
    <3> QED BY <3>2, <3>4 DEF p
  <2> QED BY <2>8 DEF e
<1> HIDE DEF S
<1>6. Nat \subseteq S
  BY <1>4, <1>5, SetInduction
<1> QED BY <1>0, <1>6 DEF S, More

\* No second has more than all of them.
LEMMA UptoCovers ==
  ASSUME NEW m \in Nat, NEW bag \in [0..m -> Nat], NEW from \in Int, NEW f, IsUpto(m, bag, from, f),
         NEW x \in 0..m, x >= from
  PROVE  bag[x] <= f[m]
<1>1. /\ f[0] = IF 0 >= from THEN bag[0] ELSE 0
      /\ \A t \in 1..m : f[t] = f[t - 1] + (IF t >= from THEN bag[t] ELSE 0)
      /\ \A t \in 0..m : f[t] \in Nat
  BY UptoStep
<1> DEFINE S == {t \in Nat : t <= m /\ x <= t => bag[x] <= f[t]}
<1>4. 0 \in S
  BY <1>1
<1>5. ASSUME NEW n \in Nat, n \in S PROVE n + 1 \in S
  <2> SUFFICES ASSUME n + 1 <= m, x <= n + 1 PROVE bag[x] <= f[n + 1]
    OBVIOUS
  <2>1. n + 1 \in 1..m /\ (n + 1) - 1 = n /\ n \in 0..m /\ n + 1 \in 0..m
        /\ (x <= n => bag[x] <= f[n])
    BY <1>5
  <2> DEFINE a == IF n + 1 >= from THEN bag[n + 1] ELSE 0
  <2>2. f[n + 1] = f[n] + a
    BY <1>1, <2>1
  <2>3. (x = n + 1 => a = bag[x]) /\ a \in Nat
    BY <2>1
  <2> HIDE DEF a
  <2>4. f[n] \in Nat /\ bag[x] \in Nat
    BY <1>1, <2>1
  <2> QED BY <2>1, <2>2, <2>3, <2>4
<1> HIDE DEF S
<1>6. Nat \subseteq S
  BY <1>4, <1>5, SetInduction
<1> QED BY <1>6 DEF S

\* Nothing is counted from a second that is later than all.
LEMMA UptoNone ==
  ASSUME NEW m \in Nat, NEW bag \in [0..m -> Nat], NEW from \in Int, NEW f, IsUpto(m, bag, from, f),
         \A t \in 0..m : t >= from => bag[t] = 0
  PROVE  f[m] = 0
<1>1. /\ f[0] = IF 0 >= from THEN bag[0] ELSE 0
      /\ \A t \in 1..m : f[t] = f[t - 1] + (IF t >= from THEN bag[t] ELSE 0)
  BY UptoStep
<1> DEFINE S == {t \in Nat : t <= m => f[t] = 0}
<1>4. 0 \in S
  BY <1>1
<1>5. ASSUME NEW n \in Nat, n \in S PROVE n + 1 \in S
  <2> SUFFICES ASSUME n + 1 <= m PROVE f[n + 1] = 0
    OBVIOUS
  <2>1. n + 1 \in 1..m /\ (n + 1) - 1 = n /\ f[n] = 0 /\ n + 1 \in 0..m
    BY <1>5
  <2> QED BY <1>1, <2>1
<1> HIDE DEF S
<1>6. Nat \subseteq S
  BY <1>4, <1>5, SetInduction
<1> QED BY <1>6 DEF S

\* What a bag has from the second from on.
SumFrom(m, bag, from) == (CHOOSE f : IsUpto(m, bag, from, f))[m]

\* The sum is the value of such a function.
LEMMA SumPick ==
  ASSUME NEW m \in Nat, NEW bag \in [0..m -> Nat], NEW from \in Int
  PROVE  \E f : IsUpto(m, bag, from, f) /\ SumFrom(m, bag, from) = f[m]
<1>1. \E f : IsUpto(m, bag, from, f)
  BY UptoExists
<1> QED BY <1>1 DEF SumFrom

\* No more in every second that counts is no more in all.
LEMMA SumOrder ==
  ASSUME NEW m \in Nat, NEW bag \in [0..m -> Nat], NEW from \in Int,
         NEW other \in [0..m -> Nat], NEW since \in Int,
         \A t \in 0..m : t >= from => (bag[t] = 0 \/ (t >= since /\ bag[t] <= other[t]))
  PROVE  /\ SumFrom(m, bag, from) <= SumFrom(m, other, since)
         /\ SumFrom(m, bag, from) \in Nat /\ SumFrom(m, other, since) \in Nat
<1>1. PICK f : IsUpto(m, bag, from, f) /\ SumFrom(m, bag, from) = f[m]
  BY SumPick
<1>2. PICK g : IsUpto(m, other, since, g) /\ SumFrom(m, other, since) = g[m]
  BY SumPick
<1>3. f[m] <= g[m]
  BY <1>1, <1>2, UptoOrder
<1>0. m \in 0..m
  OBVIOUS
<1>4. f[m] \in Nat
  <2>1. \A t \in 0..m : f[t] \in Nat
    BY <1>1, UptoStep
  <2> QED BY <1>0, <2>1
<1>5. g[m] \in Nat
  <2>1. \A t \in 0..m : g[t] \in Nat
    BY <1>2, UptoStep
  <2> QED BY <1>0, <2>1
<1> QED BY <1>1, <1>2, <1>3, <1>4, <1>5

\* One more at one second is one more of the sum, if the second counts.
LEMMA SumMore ==
  ASSUME NEW m \in Nat, NEW bag \in [0..m -> Nat], NEW from \in Int, NEW x, NEW other,
         OneMore(m, bag, x, other)
  PROVE  SumFrom(m, other, from) = SumFrom(m, bag, from) + More(x, from)
<1>0. other \in [0..m -> Nat]
  BY DEF OneMore
<1>1. PICK f : IsUpto(m, bag, from, f) /\ SumFrom(m, bag, from) = f[m]
  BY SumPick
<1>2. PICK g : IsUpto(m, other, from, g) /\ SumFrom(m, other, from) = g[m]
  BY <1>0, SumPick
<1>3. g[m] = f[m] + More(x, from)
  BY <1>1, <1>2, UptoMore
<1> QED BY <1>1, <1>2, <1>3

\* A bag that has no less from its own start on has no smaller sum.
LEMMA SumCovers ==
  ASSUME NEW m \in Nat, NEW bag \in [0..m -> Nat], NEW x \in 0..m
  PROVE  bag[x] <= SumFrom(m, bag, 0)
<1>1. PICK f : IsUpto(m, bag, 0, f) /\ SumFrom(m, bag, 0) = f[m]
  BY SumPick
<1>2. x >= 0
  OBVIOUS
<1> QED BY <1>1, <1>2, UptoCovers

\* Nothing is counted from a second after the last.
LEMMA SumNone ==
  ASSUME NEW m \in Nat, NEW bag \in [0..m -> Nat], NEW from \in Int,
         \A t \in 0..m : t >= from => bag[t] = 0
  PROVE  SumFrom(m, bag, from) = 0
<1>1. PICK f : IsUpto(m, bag, from, f) /\ SumFrom(m, bag, from) = f[m]
  BY SumPick
<1> QED BY <1>1, UptoNone
-----------------------------------------------------------------------------
(* RateLimiter *)
\* A timestamp that was counted is still in the set, or was pruned by one that is,
\* or the key could expire since.
Remembered(i, s) ==
  \/ s \in members[i]
  \/ \E m \in members[i] : m >= s + Window
  \/ clock >= s + Window + KeySlack
\* What holds of the timestamp s of a client i that was counted.
Noted(i, s) == s <= clock /\ Remembered(i, s) /\ expiry[i] >= s + Window + KeySlack
SentInPast == \A c \in Calls : call[c].stamp <= clock
AdmittedInv == \A d \in admitted : Noted(call[d].id, call[d].stamp)
Instants(i, t) == {call[d].stamp : d \in Admitted(i, t)}
InstantsInv ==
  \A i \in ClientIds, t \in 0..MaxClock :
    Admitted(i, t) \cap late = {} => Cardinality(Instants(i, t)) <= Limit
RateShape == [at : {"new", "sent", "passed", "refused"}, id : ClientIds, stamp : 0..MaxClock,
              waited : BOOLEAN]
RateInv == RateTypeOK /\ SentInPast /\ AdmittedInv /\ InstantsInv

\* The invariant of the limiter holds at the start.
LEMMA RateInitial == RateAssumption /\ RateInit => RateInv
<1> SUFFICES ASSUME RateAssumption, RateInit PROVE RateInv
  OBVIOUS
<1>1. NewCall.id \in ClientIds
  BY DEF NewCall, ClientIds, RateAssumption
<1>2. NewCall \in RateShape /\ NewCall.stamp = 0
  BY <1>1 DEF NewCall, RateAssumption, RateShape
<1>3. RateTypeOK
  BY <1>2 DEF RateTypeOK, RateShape, RateInit, RateAssumption
<1>4. SentInPast /\ AdmittedInv
  BY <1>2 DEF SentInPast, AdmittedInv, RateInit
<1>5. InstantsInv
  <2> SUFFICES ASSUME NEW i \in ClientIds, NEW t \in 0..MaxClock
               PROVE  Cardinality(Instants(i, t)) <= Limit
    BY DEF InstantsInv
  <2>1. Instants(i, t) = {}
    BY DEF Instants, Admitted, RateInit
  <2> QED BY <2>1, FS_EmptySet DEF RateAssumption
<1> QED BY <1>3, <1>4, <1>5 DEF RateInv

\* No call has a timestamp of the future, and an admitted one is over.
LEMMA CallFacts ==
  ASSUME RateAssumption, RateInv
  PROVE  /\ clock \in 0..MaxClock /\ Window \in Nat \ {0} /\ KeySlack \in Nat /\ MaxClock \in Nat
         /\ Limit \in Nat /\ Second \in Nat
         /\ members \in [ClientIds -> SUBSET (0..MaxClock)]
         /\ expiry \in [ClientIds -> 0..MaxClock + Window + KeySlack]
         /\ call \in [Calls -> RateShape]
         /\ resets \in [ClientIds -> 0..MaxClock + Window + Second]
         /\ \A d \in Calls : /\ call[d] \in RateShape /\ call[d].id \in ClientIds
                             /\ call[d].stamp \in 0..MaxClock /\ call[d].stamp <= clock
         /\ admitted \subseteq Calls /\ \A d \in admitted : call[d].at = "passed"
         /\ late \subseteq admitted
<1>1. call \in [Calls -> RateShape]
  BY DEF RateInv, RateTypeOK, RateShape
<1>2. \A d \in Calls : /\ call[d] \in RateShape /\ call[d].id \in ClientIds
                       /\ call[d].stamp \in 0..MaxClock /\ call[d].stamp <= clock
  BY <1>1 DEF RateShape, RateInv, SentInPast
<1> QED BY <1>1, <1>2 DEF RateInv, RateTypeOK, RateAssumption

\* A call that is not admitted may change without a change to what was admitted.
LEMMA HistoryKept ==
  ASSUME RateAssumption, RateInv, NEW c \in Calls, call[c].at # "passed",
         NEW x, call' = [call EXCEPT ![c] = x], UNCHANGED <<admitted, late>>
  PROVE  /\ InstantsInv'
         /\ \A d \in admitted : call'[d] = call[d]
<1>1. \A d \in admitted : d # c /\ d \in Calls
  BY CallFacts
<1>2. \A d \in admitted : call'[d] = call[d]
  BY <1>1, CallFacts
<1>3. ASSUME NEW i \in ClientIds, NEW t \in 0..MaxClock
      PROVE  Admitted(i, t)' = Admitted(i, t) /\ Instants(i, t)' = Instants(i, t)
  BY <1>2 DEF Admitted, Instants
<1> QED BY <1>2, <1>3 DEF InstantsInv, RateInv

\* A pipeline that executes with the timestamp now forgets nothing.
LEMMA PipelineRemembers ==
  ASSUME RateAssumption, RateInv, NEW i \in ClientIds, NEW now \in 0..MaxClock, now <= clock,
         members' = [members EXCEPT ![i] = {s \in members[i] : s > now - Window} \cup {now}],
         expiry' = [expiry EXCEPT ![i] = clock + Window + KeySlack],
         clock' = clock
  PROVE  /\ members' \in [ClientIds -> SUBSET (0..MaxClock)]
         /\ expiry' \in [ClientIds -> 0..MaxClock + Window + KeySlack]
         /\ \A j \in ClientIds, s \in 0..MaxClock : Noted(j, s) => Noted(j, s)'
         /\ Noted(i, now)'
<1>0. /\ clock \in 0..MaxClock /\ Window \in Nat \ {0} /\ KeySlack \in Nat /\ MaxClock \in Nat
      /\ members \in [ClientIds -> SUBSET (0..MaxClock)]
      /\ expiry \in [ClientIds -> 0..MaxClock + Window + KeySlack]
  BY CallFacts
<1>1. /\ members' \in [ClientIds -> SUBSET (0..MaxClock)]
      /\ members'[i] = {s \in members[i] : s > now - Window} \cup {now}
      /\ \A j \in ClientIds \ {i} : members'[j] = members[j]
  BY <1>0
<1>2. clock + Window + KeySlack \in 0..MaxClock + Window + KeySlack
  BY <1>0
<1>3. /\ expiry' \in [ClientIds -> 0..MaxClock + Window + KeySlack]
      /\ expiry'[i] = clock + Window + KeySlack
      /\ \A j \in ClientIds \ {i} : expiry'[j] = expiry[j]
  BY <1>0, <1>2
<1>4. ASSUME NEW j \in ClientIds, NEW s \in 0..MaxClock, Noted(j, s) PROVE Noted(j, s)'
  <2>1. s <= clock /\ Remembered(j, s) /\ expiry[j] >= s + Window + KeySlack
    BY <1>4 DEF Noted
  <2>2. CASE j # i
    BY <1>1, <1>3, <2>1, <2>2 DEF Remembered, Noted
  <2>3. CASE j = i
    <3>1. expiry'[i] >= s + Window + KeySlack
      BY <1>0, <1>3, <2>1
    <3>2. CASE s \in members[i]
      <4>1. s \in members'[i] \/ now >= s + Window
        BY <1>0, <1>1, <3>2
      <4>2. now \in members'[i]
        BY <1>1
      <4> QED BY <2>1, <2>3, <3>1, <4>1, <4>2 DEF Remembered, Noted
    <3>3. CASE \E m \in members[i] : m >= s + Window
      <4>1. PICK m \in members[i] : m >= s + Window
        BY <3>3
      <4>2. m \in members'[i] \/ now >= s + Window
        BY <1>0, <1>1, <4>1
      <4>3. now \in members'[i]
        BY <1>1
      <4> QED BY <2>1, <2>3, <3>1, <4>1, <4>2, <4>3 DEF Remembered, Noted
    <3>4. CASE clock >= s + Window + KeySlack
      BY <2>1, <2>3, <3>1, <3>4 DEF Remembered, Noted
    <3> QED BY <2>1, <2>3, <3>2, <3>3, <3>4 DEF Remembered
  <2> QED BY <2>2, <2>3
<1>5. Noted(i, now)'
  <2>1. now \in members'[i]
    BY <1>1
  <2> QED BY <1>0, <1>3, <2>1 DEF Remembered, Noted
<1> QED BY <1>1, <1>3, <1>4, <1>5

\* A check of the limit keeps it.
LEMMA CheckKeeps == ASSUME RateAssumption, RateInv, NEW c \in Calls, CheckRateLimit(c) PROVE RateInv'
<1>01. PICK i \in ClientIds, now \in 0..MaxClock : i = call[c].id /\ now = call[c].stamp
  BY CallFacts
<1> DEFINE kept == {s \in members[i] : s > now - Window} \cup {now}
<1>0. /\ clock \in 0..MaxClock /\ Window \in Nat \ {0} /\ KeySlack \in Nat /\ MaxClock \in Nat
      /\ members \in [ClientIds -> SUBSET (0..MaxClock)] /\ Limit \in Nat /\ Second \in Nat
      /\ call \in [Calls -> RateShape] /\ admitted \subseteq Calls /\ late \subseteq admitted
      /\ i \in ClientIds /\ now \in 0..MaxClock /\ now <= clock
      /\ call[c].at = "sent"
  BY <1>01, CallFacts DEF CheckRateLimit
<1>1. /\ members' = [members EXCEPT ![i] = kept]
      /\ expiry' = [expiry EXCEPT ![i] = clock + Window + KeySlack]
      /\ clock' = clock
  BY <1>01 DEF CheckRateLimit
<1>2. \/ /\ Cardinality(kept) > Limit
         /\ call' = [call EXCEPT ![c].at = "refused"]
         /\ resets' = [resets EXCEPT ![i] = clock + RetryAfter(now)]
         /\ UNCHANGED <<admitted, late>>
      \/ /\ ~(Cardinality(kept) > Limit)
         /\ call' = [call EXCEPT ![c].at = "passed"]
         /\ admitted' = admitted \cup {c}
         /\ late' = IF clock > now + KeySlack \/ \E s \in kept : s > now THEN late \cup {c} ELSE late
         /\ UNCHANGED resets
  BY <1>01 DEF CheckRateLimit
<1>3. /\ members' \in [ClientIds -> SUBSET (0..MaxClock)]
      /\ expiry' \in [ClientIds -> 0..MaxClock + Window + KeySlack]
      /\ \A j \in ClientIds, s \in 0..MaxClock : Noted(j, s) => Noted(j, s)'
      /\ Noted(i, now)'
  BY <1>0, <1>1, PipelineRemembers
<1>4. c \notin admitted /\ admitted' \subseteq admitted \cup {c} /\ admitted' \subseteq Calls
  BY <1>0, <1>2, CallFacts
<1>5. /\ call' \in [Calls -> RateShape]
      /\ \A d \in Calls : call'[d].id = call[d].id /\ call'[d].stamp = call[d].stamp
      /\ \A d \in Calls \ {c} : call'[d] = call[d]
  <2>1. PICK w \in {"refused", "passed"} : call' = [call EXCEPT ![c].at = w]
    BY <1>2
  <2> DEFINE x == [call[c] EXCEPT !.at = w]
  <2>2. x \in RateShape /\ x.id = call[c].id /\ x.stamp = call[c].stamp
    BY <1>0 DEF RateShape
  <2>3. call' = [call EXCEPT ![c] = x]
    BY <2>1
  <2> HIDE DEF x
  <2> QED BY <1>0, <2>2, <2>3
<1>6. AdmittedInv'
  <2> SUFFICES ASSUME NEW d \in admitted' PROVE Noted(call[d].id, call[d].stamp)'
    BY DEF AdmittedInv
  <2>1. d \in Calls /\ call'[d].id = call[d].id /\ call'[d].stamp = call[d].stamp
    BY <1>4, <1>5
  <2>2. \A j \in ClientIds, s \in 0..MaxClock :
          j = call[d].id /\ s = call[d].stamp => Noted(j, s)'
    <3>1. CASE d \in admitted
      BY <1>3, <3>1 DEF RateInv, AdmittedInv
    <3>2. CASE d = c
      BY <1>01, <1>3, <3>2
    <3> QED BY <1>4, <3>1, <3>2
  <2>3. call[d].id \in ClientIds /\ call[d].stamp \in 0..MaxClock
    BY <2>1, CallFacts
  <2>4. PICK j \in ClientIds, s \in 0..MaxClock : j = call[d].id /\ s = call[d].stamp
    BY <2>3
  <2>5. Noted(j, s)'
    BY <2>2, <2>4
  <2> QED BY <2>1, <2>4, <2>5 DEF Noted, Remembered
<1>7. SentInPast'
  BY <1>1, <1>5 DEF RateInv, SentInPast
<1>8. resets' \in [ClientIds -> 0..MaxClock + Window + Second]
  <2>1. resets \in [ClientIds -> 0..MaxClock + Window + Second]
    BY CallFacts
  <2>2. RetryAfter(now) = Second
    BY <1>0 DEF RetryAfter, RateAssumption
  <2>3. clock + Second \in 0..MaxClock + Window + Second
    BY <1>0
  <2> QED BY <1>2, <2>1, <2>2, <2>3
<1>9. admitted' \subseteq {d \in Calls : call'[d].at = "passed"} /\ late' \subseteq admitted'
  <2>1. CASE UNCHANGED <<admitted, late>>
    BY <1>0, <1>4, <1>5, <2>1, CallFacts
  <2>2. CASE admitted' = admitted \cup {c} /\ call' = [call EXCEPT ![c].at = "passed"]
             /\ late' \in {late, late \cup {c}}
    <3>1. call'[c].at = "passed"
      BY <1>0, <2>2 DEF RateShape
    <3> QED BY <1>0, <1>4, <1>5, <2>2, <3>1, CallFacts
  <2> QED BY <1>2, <2>1, <2>2
<1>10. RateTypeOK'
  BY <1>0, <1>1, <1>3, <1>5, <1>8, <1>9 DEF RateTypeOK, RateShape
<1>11. InstantsInv'
  <2> SUFFICES ASSUME NEW j \in ClientIds, NEW t \in 0..MaxClock,
                      Admitted(j, t)' \cap late' = {}
               PROVE  Cardinality(Instants(j, t)') <= Limit
    BY DEF InstantsInv
  <2> DEFINE was == Admitted(j, t)
             is == {d \in admitted' : call[d].id = j /\ call[d].stamp \in t - Window + 1 .. t}
             stamps == {call[d].stamp : d \in is}
  <2>1. is = Admitted(j, t)' /\ stamps = Instants(j, t)'
    BY <1>4, <1>5 DEF Admitted, Instants
  <2>2. late \subseteq late' /\ admitted \subseteq admitted'
    BY <1>2
  <2>3. CASE is = was
    <3>1. was \cap late = {} /\ stamps = Instants(j, t)
      BY <2>1, <2>2, <2>3 DEF Instants
    <3> QED BY <2>1, <3>1 DEF RateInv, InstantsInv
  <2>4. CASE is # was
    <3>1. /\ admitted' = admitted \cup {c} /\ ~(Cardinality(kept) > Limit)
          /\ late' = IF clock > now + KeySlack \/ \E s \in kept : s > now THEN late \cup {c} ELSE late
      BY <1>2, <2>4 DEF Admitted
    <3>2. c \in is /\ j = i /\ now \in t - Window + 1 .. t
      BY <1>01, <2>4, <3>1 DEF Admitted
    <3>3. c \notin late'
      BY <2>1, <3>2
    <3>4. ~(clock > now + KeySlack) /\ \A s \in kept : ~(s > now)
      BY <3>1, <3>3
    <3>5. ASSUME NEW d \in is PROVE call[d].stamp \in kept
      <4>1. CASE d = c
        BY <1>01, <4>1
      <4>2. CASE d # c
        <5> DEFINE s == call[d].stamp
        <5>1. d \in admitted /\ call[d].id = i /\ s \in t - Window + 1 .. t
          BY <3>1, <3>2, <4>2
        <5>2. Noted(i, s) /\ s \in 0..MaxClock
          BY <1>0, <5>1, CallFacts DEF RateInv, AdmittedInv
        <5> HIDE DEF s
        <5>3. s > now - Window /\ now < s + Window
          BY <1>0, <3>2, <5>1, <5>2
        <5>4. ~(clock >= s + Window + KeySlack)
          BY <1>0, <3>4, <5>2, <5>3
        <5>5. ASSUME NEW m \in members[i], m >= s + Window PROVE FALSE
          <6>1. m \in kept /\ m > now
            BY <1>0, <5>2, <5>3, <5>5
          <6> QED BY <3>4, <6>1
        <5>6. s \in members[i]
          BY <5>2, <5>4, <5>5 DEF Noted, Remembered
        <5>7. s \in kept
          BY <5>3, <5>6
        <5> QED BY <5>7 DEF s
      <4> QED BY <4>1, <4>2
    <3>6. IsFiniteSet(kept) /\ Cardinality(kept) \in Nat
      <4>1. IsFiniteSet(0..MaxClock)
        BY <1>0, FS_Interval
      <4>2. kept \subseteq 0..MaxClock
        BY <1>0
      <4> QED BY <4>1, <4>2, FS_Subset, FS_CardinalityType
    <3>7. stamps \subseteq kept
      BY <3>5
    <3>8. Cardinality(stamps) <= Cardinality(kept) /\ Cardinality(stamps) \in Nat
      <4> HIDE DEF kept, stamps
      <4> QED BY <3>6, <3>7, FS_Subset, FS_CardinalityType
    <3> HIDE DEF kept, stamps
    <3> QED BY <1>0, <2>1, <3>1, <3>6, <3>8
  <2> QED BY <2>3, <2>4
<1> QED BY <1>6, <1>7, <1>10, <1>11 DEF RateInv

\* A tick that passes keeps it.
LEMMA PassKeeps == ASSUME RateAssumption, RateInv, Pass PROVE RateInv'
<1>0. /\ clock \in 0..MaxClock /\ Window \in Nat \ {0} /\ KeySlack \in Nat /\ MaxClock \in Nat
      /\ members \in [ClientIds -> SUBSET (0..MaxClock)]
      /\ expiry \in [ClientIds -> 0..MaxClock + Window + KeySlack]
  BY CallFacts
<1>1. /\ clock < MaxClock /\ clock' = clock + 1
      /\ members' = [i \in ClientIds |-> IF expiry[i] <= clock' THEN {} ELSE members[i]]
      /\ UNCHANGED <<expiry, call, admitted, late, resets>>
  BY DEF Pass
<1>2. clock' \in 0..MaxClock /\ members' \in [ClientIds -> SUBSET (0..MaxClock)]
  BY <1>0, <1>1
<1>3. RateTypeOK'
  BY <1>1, <1>2 DEF RateInv, RateTypeOK
<1>4. SentInPast'
  <2>1. \A c \in Calls : call[c].stamp <= clock /\ call[c].stamp \in 0..MaxClock
    BY CallFacts
  <2> QED BY <1>0, <1>1, <2>1 DEF SentInPast
<1>5. AdmittedInv'
  <2>1. ASSUME NEW j \in ClientIds, NEW s \in 0..MaxClock, Noted(j, s) PROVE Noted(j, s)'
    <3>1. /\ s <= clock /\ Remembered(j, s) /\ expiry[j] >= s + Window + KeySlack
          /\ expiry[j] \in 0..MaxClock + Window + KeySlack /\ s <= clock'
      BY <1>0, <1>1, <2>1 DEF Noted
    <3>2. CASE expiry[j] <= clock'
      <4>1. clock' >= s + Window + KeySlack
        BY <1>0, <1>2, <3>1, <3>2
      <4> QED BY <1>1, <3>1, <4>1 DEF Remembered, Noted
    <3>3. CASE ~(expiry[j] <= clock')
      <4>1. members'[j] = members[j]
        BY <1>1, <3>3
      <4> QED BY <1>0, <1>1, <3>1, <4>1 DEF Remembered, Noted
    <3> QED BY <3>2, <3>3
  <2> SUFFICES ASSUME NEW d \in admitted PROVE Noted(call[d].id, call[d].stamp)'
    BY <1>1 DEF AdmittedInv
  <2>2. /\ call[d].id \in ClientIds /\ call[d].stamp \in 0..MaxClock
        /\ Noted(call[d].id, call[d].stamp)
    BY CallFacts DEF RateInv, AdmittedInv
  <2>3. PICK j \in ClientIds, s \in 0..MaxClock : j = call[d].id /\ s = call[d].stamp
    BY <2>2
  <2>4. Noted(j, s)'
    BY <2>1, <2>2, <2>3
  <2> QED BY <1>1, <2>3, <2>4 DEF Noted, Remembered
<1>6. InstantsInv'
  BY <1>1 DEF RateInv, InstantsInv, Instants, Admitted
<1> QED BY <1>3, <1>4, <1>5, <1>6 DEF RateInv

\* A call that was not admitted and moves on keeps it, with a timestamp of the past.
LEMMA MoveKeeps ==
  ASSUME RateAssumption, RateInv, NEW c \in Calls, call[c].at # "passed",
         NEW x \in RateShape, x.stamp <= clock, call' = [call EXCEPT ![c] = x],
         UNCHANGED <<clock, admitted, late>>,
         members' \in [ClientIds -> SUBSET (0..MaxClock)],
         expiry' \in [ClientIds -> 0..MaxClock + Window + KeySlack],
         \A j \in ClientIds, s \in 0..MaxClock : Noted(j, s) => Noted(j, s)',
         resets' \in [ClientIds -> 0..MaxClock + Window + Second]
  PROVE  RateInv'
<1>1. call' \in [Calls -> RateShape] /\ \A d \in Calls : call'[d] = IF d = c THEN x ELSE call[d]
  BY CallFacts
<1>2. InstantsInv' /\ \A d \in admitted : call'[d] = call[d]
  BY HistoryKept
<1>3. RateTypeOK'
  BY <1>1, <1>2 DEF RateInv, RateTypeOK, RateShape
<1>4. SentInPast'
  BY <1>1 DEF SentInPast, RateInv
<1>5. AdmittedInv'
  <2> SUFFICES ASSUME NEW d \in admitted PROVE Noted(call[d].id, call[d].stamp)'
    BY DEF AdmittedInv
  <2>1. /\ call[d].id \in ClientIds /\ call[d].stamp \in 0..MaxClock
        /\ Noted(call[d].id, call[d].stamp)
    BY CallFacts DEF RateInv, AdmittedInv
  <2>2. PICK j \in ClientIds, s \in 0..MaxClock : j = call[d].id /\ s = call[d].stamp
    BY <2>1
  <2>3. Noted(j, s)'
    BY <2>1, <2>2
  <2> QED BY <1>2, <2>2, <2>3 DEF Noted, Remembered
<1> QED BY <1>2, <1>3, <1>4, <1>5 DEF RateInv

\* A call that is dispatched keeps it.
LEMMA DispatchKeeps == ASSUME RateAssumption, RateInv, NEW c \in Calls, Dispatch(c) PROVE RateInv'
<1>0. /\ call[c] \in RateShape /\ call[c].stamp <= clock /\ clock \in 0..MaxClock
      /\ resets \in [ClientIds -> 0..MaxClock + Window + Second]
      /\ MaxClock \in Nat /\ Window \in Nat /\ Second \in Nat
  BY CallFacts
<1>1. UNCHANGED <<clock, members, expiry, admitted, late>> /\ call[c].at # "passed"
  BY DEF Dispatch
<1>2. PICK o \in Origins :
        LET i == ClientId(o)
            alone == \A d \in Calls : ~(call[d].at = "sent" /\ call[d].id = i)
        IN \/ call' = [call EXCEPT ![c].at = "passed", ![c].id = i] /\ UNCHANGED resets
           \/ /\ call' = [call EXCEPT ![c] = [at |-> "sent", id |-> i, stamp |-> clock,
                                              waited |-> alone /\ resets[i] \in 1..clock]]
              /\ resets' = [resets EXCEPT ![i] = 0]
  BY DEF Dispatch
<1> DEFINE i == ClientId(o)
<1>3. i \in ClientIds
  BY DEF ClientIds
<1> HIDE DEF i
<1>4. /\ members' \in [ClientIds -> SUBSET (0..MaxClock)]
      /\ expiry' \in [ClientIds -> 0..MaxClock + Window + KeySlack]
      /\ \A j \in ClientIds, s \in 0..MaxClock : Noted(j, s) => Noted(j, s)'
  BY <1>1, CallFacts DEF Noted, Remembered
<1>5. CASE call' = [call EXCEPT ![c].at = "passed", ![c].id = i] /\ UNCHANGED resets
  <2> DEFINE x == [call[c] EXCEPT !.at = "passed", !.id = i]
  <2>1. x \in RateShape /\ x.stamp = call[c].stamp
    BY <1>0, <1>3 DEF RateShape
  <2>2. call' = [call EXCEPT ![c] = x]
    BY <1>5
  <2> HIDE DEF x
  <2> QED BY <1>0, <1>1, <1>4, <1>5, <2>1, <2>2, MoveKeeps
<1>6. ASSUME NEW b \in BOOLEAN,
             call' = [call EXCEPT ![c] = [at |-> "sent", id |-> i, stamp |-> clock, waited |-> b]],
             resets' = [resets EXCEPT ![i] = 0]
      PROVE  RateInv'
  <2> DEFINE x == [at |-> "sent", id |-> i, stamp |-> clock, waited |-> b]
  <2>1. x \in RateShape /\ x.stamp = clock
    BY <1>0, <1>3 DEF RateShape
  <2> HIDE DEF x
  <2>2. call' = [call EXCEPT ![c] = x]
    BY <1>6 DEF x
  <2>3. resets' \in [ClientIds -> 0..MaxClock + Window + Second]
    <3>1. 0 \in 0..MaxClock + Window + Second
      BY <1>0
    <3> QED BY <1>0, <1>6, <3>1
  <2>4. x.stamp <= clock
    BY <1>0, <2>1
  <2> QED BY <1>1, <1>4, <2>1, <2>2, <2>3, <2>4, MoveKeeps
<1> QED BY <1>2, <1>5, <1>6 DEF i

\* So does one that is let through without a check.
LEMMA LetThroughKeeps ==
  ASSUME RateAssumption, RateInv, NEW c \in Calls, DispatchRaises(c) PROVE RateInv'
<1> DEFINE i == call[c].id
           now == call[c].stamp
           x == [call[c] EXCEPT !.at = "passed"]
<1>0. /\ i \in ClientIds /\ now \in 0..MaxClock /\ now <= clock /\ call[c] \in RateShape
      /\ call[c].at # "passed"
  BY CallFacts DEF DispatchRaises
<1>1. /\ call' = [call EXCEPT ![c].at = "passed"] /\ UNCHANGED <<clock, admitted, late, resets>>
      /\ \/ UNCHANGED <<members, expiry>>
         \/ /\ members' = [members EXCEPT ![i] = {s \in members[i] : s > now - Window} \cup {now}]
            /\ expiry' = [expiry EXCEPT ![i] = clock + Window + KeySlack]
  <2>1. members \in [ClientIds -> SUBSET (0..MaxClock)]
    BY CallFacts
  <2> QED BY <1>0, <2>1 DEF DispatchRaises
<1>2. x \in RateShape /\ x.stamp <= clock /\ call' = [call EXCEPT ![c] = x]
  BY <1>0, <1>1 DEF RateShape
<1>3. /\ members' \in [ClientIds -> SUBSET (0..MaxClock)]
      /\ expiry' \in [ClientIds -> 0..MaxClock + Window + KeySlack]
      /\ \A j \in ClientIds, s \in 0..MaxClock : Noted(j, s) => Noted(j, s)'
  <2>1. CASE UNCHANGED <<members, expiry>>
    BY <1>1, <2>1, CallFacts DEF Noted, Remembered
  <2>2. CASE /\ members' = [members EXCEPT ![i] = {s \in members[i] : s > now - Window} \cup {now}]
             /\ expiry' = [expiry EXCEPT ![i] = clock + Window + KeySlack]
    <3> HIDE DEF i, now
    <3> QED BY <1>0, <1>1, <2>2, PipelineRemembers
  <2> QED BY <1>1, <2>1, <2>2
<1>4. resets' \in [ClientIds -> 0..MaxClock + Window + Second]
  BY <1>1, CallFacts
<1> HIDE DEF x
<1> QED BY <1>0, <1>1, <1>2, <1>3, <1>4, MoveKeeps

\* The invariant of the limiter is inductive.
LEMMA RatePreserved == RateAssumption /\ RateInv /\ [RateNext]_rateVars => RateInv'
<1> SUFFICES ASSUME RateAssumption, RateInv, [RateNext]_rateVars PROVE RateInv'
  OBVIOUS
<1>1. CASE UNCHANGED rateVars
  <2>1. RateTypeOK' /\ SentInPast'
    BY <1>1 DEF rateVars, RateInv, RateTypeOK, SentInPast
  <2>2. AdmittedInv'
    BY <1>1 DEF rateVars, RateInv, AdmittedInv, Noted, Remembered
  <2>3. InstantsInv'
    BY <1>1 DEF rateVars, RateInv, InstantsInv, Instants, Admitted
  <2> QED BY <2>1, <2>2, <2>3 DEF RateInv
<1> QED BY <1>1, PassKeeps, DispatchKeeps, LetThroughKeeps, CheckKeeps DEF RateNext

\* Requests of different timestamps are no more than their timestamps.
LEMMA LimitHolds == RateAssumption /\ RateInv => LimitNeedsDelay
<1> SUFFICES ASSUME RateAssumption, RateInv, NEW i \in ClientIds, NEW t \in 0..MaxClock,
                    Admitted(i, t) \cap late = {}
             PROVE  /\ Cardinality(Instants(i, t)) <= Limit
                    /\ \/ Cardinality(Admitted(i, t)) <= Limit
                       \/ \E c, d \in Admitted(i, t) : c # d /\ call[c].stamp = call[d].stamp
  BY DEF LimitNeedsDelay, Instants
<1>1. Cardinality(Instants(i, t)) <= Limit
  BY DEF RateInv, InstantsInv
<1>2. ASSUME \A c, d \in Admitted(i, t) : call[c].stamp = call[d].stamp => c = d
      PROVE  Cardinality(Admitted(i, t)) <= Limit
  <2> DEFINE S == Admitted(i, t)
             T == Instants(i, t)
             f == [d \in S |-> call[d].stamp]
  <2>1. IsFiniteSet(T)
    <3>1. T \subseteq 0..MaxClock
      BY CallFacts DEF Instants, Admitted
    <3>2. IsFiniteSet(0..MaxClock)
      BY CallFacts, FS_Interval
    <3> QED BY <3>1, <3>2, FS_Subset
  <2>2. f \in Injection(S, T)
    <3>1. f \in [S -> T]
      BY DEF Instants
    <3>2. \A c, d \in S : f[c] = f[d] => c = d
      BY <1>2
    <3> HIDE DEF f, S, T
    <3> QED BY <3>1, <3>2 DEF Injection, IsInjective
  <2>3. Cardinality(S) <= Cardinality(T) /\ Cardinality(S) \in Nat /\ Cardinality(T) \in Nat
    <3> HIDE DEF f, S, T
    <3> QED BY <2>1, <2>2, FS_Injection, FS_CardinalityType
  <2>4. Cardinality(T) <= Limit /\ Limit \in Nat
    BY <1>1, CallFacts
  <2> HIDE DEF S, T
  <2>5. Cardinality(S) <= Limit
    BY <2>3, <2>4
  <2> QED BY <2>5 DEF S
<1> QED BY <1>1, <1>2
-----------------------------------------------------------------------------
(* ExpiringCounter *)
Bag == [Seconds -> Nat]
\* What Counted is, of any history.
CountedIn(bag, from) == SumFrom(MaxSecond, bag, from)

\* Counted is such a sum.
LEMMA CountedIs == \A from : Counted(from) = CountedIn(counted, from)
BY DEF Counted, CountedIn, SumFrom, IsUpto, Seconds

\* An earlier start counts no less.
LEMMA CountedOrder ==
  ASSUME MaxSecond \in Nat, NEW bag \in Bag, NEW from \in Int, NEW other \in Bag, NEW since \in Int,
         \A t \in Seconds : t >= from => (bag[t] = 0 \/ (t >= since /\ bag[t] <= other[t]))
  PROVE  /\ CountedIn(bag, from) <= CountedIn(other, since)
         /\ CountedIn(bag, from) \in Nat /\ CountedIn(other, since) \in Nat
BY SumOrder DEF CountedIn, Bag, Seconds

\* One increment more.
LEMMA CountedMore ==
  ASSUME MaxSecond \in Nat, NEW bag \in Bag, NEW from \in Int, NEW x \in Seconds, NEW other \in Bag,
         other[x] = bag[x] + 1, \A t \in Seconds : t # x => other[t] = bag[t]
  PROVE  CountedIn(other, from) = CountedIn(bag, from) + More(x, from)
<1>1. OneMore(MaxSecond, bag, x, other) /\ bag \in [0..MaxSecond -> Nat]
  BY DEF Bag, Seconds, OneMore
<1> QED BY <1>1, SumMore DEF CountedIn

\* What covers the seconds that count has no smaller sum.
LEMMA CountedCovers ==
  ASSUME MaxSecond \in Nat, NEW bag \in Bag, NEW x \in Seconds
  PROVE  bag[x] <= CountedIn(bag, 0)
BY SumCovers DEF CountedIn, Bag, Seconds
-----------------------------------------------------------------------------
UserShape == [at : {"idle", "expire", "answered"}, span : Spans \cup {NoTTL}, since : Seconds,
              got : 0..MaxIncr]
\* While every EXPIRE was in time, the key was created no earlier than its expiry
\* says, and its value counts what fell since then.
Pending == \A u \in Users : user[u].at = "expire" =>
  /\ user[u].since = instant /\ value > 0 /\ expires = NoTTL /\ user[u].span # NoTTL
  /\ \A v \in Users : user[v].at = "expire" => v = u
Undated == expires = NoTTL /\ value > 0 =>
  value <= CountedIn(counted, instant) /\ \E u \in Users : user[u].at = "expire"
Dated == expires # NoTTL =>
  /\ value > 0 /\ expires > instant /\ expires - longest <= instant
  /\ value <= CountedIn(counted, expires - longest)
TimelyKey == Pending /\ Undated /\ Dated
Answer(u) ==
  use = "check_velocity" /\ user[u].at # "idle" =>
    /\ user[u].span # NoTTL
    /\ longest <= user[u].span => user[u].got <= CountedIn(counted, user[u].since - user[u].span + 1)
CounterInv ==
  /\ CounterTypeOK
  /\ CountedIn(counted, 0) <= MaxIncr /\ value <= CountedIn(counted, 0)
  /\ ~untimely => TimelyKey /\ \A u \in Users : Answer(u)

\* The invariant of the counter holds at the start.
LEMMA CounterInitial == CounterAssumption /\ CounterInit => CounterInv
<1> SUFFICES ASSUME CounterAssumption, CounterInit PROVE CounterInv
  OBVIOUS
<1>0. MaxSecond \in Nat /\ MaxIncr \in Nat /\ 0 \in Seconds /\ counted \in Bag
  BY DEF CounterAssumption, CounterInit, Seconds, Bag
<1>1. CounterTypeOK
  <2>1. Free \in UserShape
    BY <1>0 DEF Free, UserShape
  <2>2. user \in [Users -> UserShape]
    BY <2>1 DEF CounterInit
  <2>3. counted \in [Seconds -> 0..MaxIncr]
    BY <1>0 DEF CounterInit
  <2> QED BY <1>0, <2>2, <2>3 DEF CounterTypeOK, CounterInit, UserShape, NoTTL
<1>2. CountedIn(counted, 0) <= 0 /\ CountedIn(counted, 0) \in Nat
  <2>1. counted \in [0..MaxSecond -> Nat] /\ \A t \in 0..MaxSecond : counted[t] = 0
    BY <1>0 DEF CounterInit, Bag, Seconds
  <2> QED BY <1>0, <2>1, SumNone DEF CountedIn
<1>3. CountedIn(counted, 0) <= MaxIncr /\ value <= CountedIn(counted, 0)
  BY <1>0, <1>2 DEF CounterInit
<1>4. TimelyKey /\ \A u \in Users : Answer(u)
  BY DEF TimelyKey, Pending, Undated, Dated, Answer, CounterInit, Free, NoTTL
<1> QED BY <1>1, <1>3, <1>4 DEF CounterInv

\* The facts about the types that every step uses.
LEMMA CounterTypes ==
  ASSUME CounterAssumption, CounterTypeOK
  PROVE  /\ MaxSecond \in Nat /\ MaxIncr \in Nat /\ Spans \subseteq Nat \ {0} /\ counted \in Bag
         /\ instant \in Seconds /\ Seconds \subseteq Nat /\ value \in Nat /\ expires \in Nat
         /\ longest \in Nat /\ untimely \in BOOLEAN /\ user \in [Users -> UserShape]
         /\ \A u \in Users : /\ user[u].span \in Nat /\ user[u].since \in Nat /\ user[u].got \in Nat
                             /\ user[u].span \in Spans \cup {NoTTL}
                             /\ user[u].at \in {"idle", "expire", "answered"}
         /\ \A from \in Int : CountedIn(counted, from) \in Nat
         /\ \A from, since \in Int :
              from <= since => CountedIn(counted, since) <= CountedIn(counted, from)
<1>1. /\ MaxSecond \in Nat /\ MaxIncr \in Nat /\ Spans \subseteq Nat \ {0} /\ counted \in Bag
      /\ instant \in Seconds /\ Seconds \subseteq Nat /\ value \in Nat /\ expires \in Nat
      /\ longest \in Nat /\ untimely \in BOOLEAN
  BY DEF CounterAssumption, CounterTypeOK, Bag, Seconds
<1>2. user \in [Users -> UserShape] /\ NoTTL \in Nat
  BY DEF CounterTypeOK, UserShape, NoTTL
<1>3. ASSUME NEW u \in Users
      PROVE  /\ user[u].span \in Nat /\ user[u].since \in Nat /\ user[u].got \in Nat
             /\ user[u].span \in Spans \cup {NoTTL}
             /\ user[u].at \in {"idle", "expire", "answered"}
  <2>1. user[u] \in UserShape
    BY <1>2
  <2>2. user[u].span \in Spans \cup {NoTTL} /\ user[u].since \in Seconds /\ user[u].got \in 0..MaxIncr
        /\ user[u].at \in {"idle", "expire", "answered"}
    BY <2>1 DEF UserShape
  <2>3. user[u].span \in Nat
    BY <1>1, <1>2, <2>2
  <2>4. user[u].since \in Nat
    BY <1>1, <2>2
  <2>5. 0..MaxIncr \subseteq Nat
    BY <1>1
  <2>6. user[u].got \in Nat
    BY <2>2, <2>5
  <2> QED BY <2>2, <2>3, <2>4, <2>6
<1>4. ASSUME NEW from \in Int, NEW since \in Int, from <= since
      PROVE  CountedIn(counted, since) <= CountedIn(counted, from) /\ CountedIn(counted, from) \in Nat
  <2>1. \A t \in Seconds : counted[t] \in Nat
    BY <1>1 DEF Bag
  <2>2. \A t \in Seconds : t >= since => (counted[t] = 0 \/ (t >= from /\ counted[t] <= counted[t]))
    BY <1>1, <1>4, <2>1
  <2> QED BY <1>1, <2>2, CountedOrder
<1>5. \A from \in Int : from <= from
  OBVIOUS
<1> QED BY <1>1, <1>2, <1>3, <1>4, <1>5

\* A second that passes, and may expire the key, keeps it.
LEMMA StrikeKeeps == ASSUME CounterAssumption, CounterInv, Strike PROVE CounterInv'
<1>0. CounterTypeOK
  BY DEF CounterInv
<1>t. /\ MaxSecond \in Nat /\ MaxIncr \in Nat /\ counted \in Bag
      /\ instant \in Seconds /\ value \in Nat /\ expires \in Nat
      /\ longest \in Nat /\ untimely \in BOOLEAN
      /\ \A from \in Int : CountedIn(counted, from) \in Nat
      /\ \A from, since \in Int :
              from <= since => CountedIn(counted, since) <= CountedIn(counted, from)
  BY <1>0, CounterTypes
<1>1. /\ instant < MaxSecond /\ instant' = instant + 1
      /\ use' = use /\ user' = user /\ counted' = counted /\ longest' = longest
      /\ untimely' = (untimely \/ \E u \in Users : user[u].at = "expire")
      /\ \/ expires # NoTTL /\ expires <= instant' /\ value' = 0 /\ expires' = NoTTL
         \/ ~(expires # NoTTL /\ expires <= instant') /\ value' = value /\ expires' = expires
  BY DEF Strike
<1>3. CountedIn(counted, 0) <= MaxIncr /\ value' <= CountedIn(counted, 0)
  BY <1>1, <1>t DEF CounterInv
<1>4. CounterTypeOK'
  <2>1. instant' \in Seconds
    BY <1>1, <1>t DEF Seconds
  <2>2. value' \in 0..MaxIncr /\ expires' \in Nat
    BY <1>0, <1>1, <1>t DEF CounterTypeOK, NoTTL
  <2>3. untimely' \in BOOLEAN
    BY <1>1, <1>t
  <2> QED BY <1>0, <1>1, <2>1, <2>2, <2>3 DEF CounterTypeOK
<1>5. ASSUME ~untimely' PROVE TimelyKey' /\ \A u \in Users : Answer(u)'
  <2>1. ~untimely /\ \A u \in Users : user[u].at # "expire"
    BY <1>1, <1>5
  <2>2. Undated /\ Dated /\ \A u \in Users : Answer(u)
    BY <2>1 DEF CounterInv, TimelyKey
  <2>3. \A u \in Users : Answer(u)'
    BY <1>1, <2>2 DEF Answer
  <2>4. expires = NoTTL => value = 0
    BY <1>t, <2>1, <2>2 DEF Undated
  <2>5. Pending'
    BY <1>1, <2>1 DEF Pending
  <2>6. Undated'
    <3>1. expires' = NoTTL => value' = 0
      BY <1>1, <2>4
    <3> QED BY <3>1 DEF Undated
  <2>7. Dated'
    <3>1. instant \in Nat /\ instant' \in Nat
      BY <1>1, <1>t DEF Seconds
    <3>2. ASSUME expires' # NoTTL
          PROVE  expires' = expires /\ value' = value /\ expires > instant' /\ expires # NoTTL
      BY <1>1, <1>t, <3>1, <3>2
    <3>3. expires' # NoTTL => expires - longest <= instant'
      BY <1>1, <1>t, <2>2, <3>1, <3>2 DEF Dated
    <3> QED BY <1>1, <2>2, <3>2, <3>3 DEF Dated
  <2> QED BY <2>3, <2>5, <2>6, <2>7 DEF TimelyKey
<1> QED BY <1>1, <1>3, <1>4, <1>5 DEF CounterInv

\* An increment, whether it has to set the expiry or not.
LEMMA IncrKeeps ==
  ASSUME CounterAssumption, CounterInv, NEW u \in Users,
         NEW span \in Spans \cup {NoTTL}, NEW waits \in BOOLEAN, IncrWith(u, span, waits),
         untimely' = (untimely \/ (span = NoTTL /\ value = 0)),
         span # NoTTL => (waits <=> value = 0), span = NoTTL => use = "incr" /\ ~waits
  PROVE  CounterInv'
<1>0. CounterTypeOK
  BY DEF CounterInv
<1>t. /\ MaxSecond \in Nat /\ MaxIncr \in Nat /\ Spans \subseteq Nat \ {0} /\ counted \in Bag
      /\ instant \in Seconds /\ Seconds \subseteq Nat /\ value \in Nat /\ expires \in Nat
      /\ longest \in Nat /\ untimely \in BOOLEAN /\ user \in [Users -> UserShape]
      /\ \A v \in Users : user[v].span \in Nat /\ user[v].since \in Nat /\ user[v].got \in Nat
      /\ \A from \in Int : CountedIn(counted, from) \in Nat
      /\ \A from, since \in Int :
              from <= since => CountedIn(counted, since) <= CountedIn(counted, from)
  BY <1>0, CounterTypes
<1>i. instant \in Nat /\ instant \in Int /\ 0 \in Int
  BY <1>t
<1> DEFINE k == [at |-> IF waits THEN "expire" ELSE "answered", span |-> span, since |-> instant,
                 got |-> value + 1]
<1>1. /\ user[u].at # "expire" /\ CountedIn(counted, 0) < MaxIncr /\ value' = value + 1
      /\ counted' = [counted EXCEPT ![instant] = counted[instant] + 1]
      /\ user' = [user EXCEPT ![u] = k]
      /\ use' = use /\ instant' = instant /\ expires' = expires /\ longest' = longest
  <2>1. value' = value + 1 /\ counted' = [counted EXCEPT ![instant] = counted[instant] + 1]
    BY DEF IncrWith
  <2>2. user' = [user EXCEPT ![u] = [at |-> IF waits THEN "expire" ELSE "answered", span |-> span,
                                     since |-> instant, got |-> value']]
    BY DEF IncrWith
  <2> QED BY <2>1, <2>2, CountedIs DEF IncrWith
<1>2. /\ counted' \in Bag /\ counted'[instant] = counted[instant] + 1
      /\ \A t \in Seconds : t # instant => counted'[t] = counted[t]
  BY <1>1, <1>t DEF Bag
<1>3. ASSUME NEW from \in Int
      PROVE  CountedIn(counted', from) = CountedIn(counted, from) + More(instant, from)
  BY <1>t, <1>2, CountedMore
<1>4. More(instant, 0) = 1 /\ \A from : More(instant, from) \in {0, 1}
  BY <1>i DEF More
<1>5. ASSUME NEW from \in Int
      PROVE  CountedIn(counted', from) \in Nat /\ CountedIn(counted, from) <= CountedIn(counted', from)
             /\ CountedIn(counted, from) \in Nat
  BY <1>t, <1>3, <1>4
<1>6. CountedIn(counted', 0) = CountedIn(counted, 0) + 1
  BY <1>i, <1>3, <1>4
<1>7. value <= CountedIn(counted, 0) /\ CountedIn(counted, 0) \in Nat
  BY <1>t DEF CounterInv
<1>8. CountedIn(counted', 0) <= MaxIncr /\ value' <= CountedIn(counted', 0) /\ value' \in 0..MaxIncr
  BY <1>1, <1>6, <1>7, <1>t
<1>9. \A t \in Seconds : counted'[t] \in 0..MaxIncr
  <2>1. ASSUME NEW t \in Seconds PROVE counted'[t] <= CountedIn(counted', 0) /\ counted'[t] \in Nat
    BY <1>t, <1>2, <2>1, CountedCovers DEF Bag
  <2>2. CountedIn(counted', 0) \in Nat
    BY <1>5
  <2> QED BY <1>8, <1>t, <2>1, <2>2
<1>10. /\ k.at = (IF waits THEN "expire" ELSE "answered") /\ k.span = span /\ k.since = instant
       /\ k.got = value + 1 /\ k \in UserShape
  BY <1>1, <1>8, <1>t DEF UserShape
<1> HIDE DEF k
<1>11. /\ user' \in [Users -> UserShape] /\ user'[u] = k
       /\ \A v \in Users : v # u => user'[v] = user[v]
  BY <1>1, <1>10, <1>t
<1>12. CounterTypeOK'
  <2>1. counted' \in [Seconds -> 0..MaxIncr]
    BY <1>2, <1>9 DEF Bag
  <2>2. untimely' \in BOOLEAN
    BY <1>t
  <2> QED BY <1>0, <1>1, <1>8, <1>11, <2>1, <2>2 DEF CounterTypeOK, UserShape
<1>13. ASSUME ~untimely' PROVE TimelyKey' /\ \A v \in Users : Answer(v)'
  <2>1. ~untimely /\ (span = NoTTL => value # 0)
    BY <1>13
  <2>2. Pending /\ Undated /\ Dated /\ \A v \in Users : Answer(v)
    BY <2>1 DEF CounterInv, TimelyKey
  <2>3. waits => value = 0 /\ span # NoTTL
    OBVIOUS
  <2>4. waits => expires = NoTTL
    BY <1>t, <2>2, <2>3 DEF Dated
  <2>5. ASSUME NEW v \in Users, user'[v].at = "expire"
        PROVE  /\ user'[v].since = instant /\ value' > 0 /\ expires = NoTTL /\ user'[v].span # NoTTL
               /\ \A z \in Users : user'[z].at = "expire" => z = v
    <3>1. CASE v = u
      <4>1. waits
        BY <1>10, <1>11, <2>5, <3>1
      <4>2. \A z \in Users : user[z].at # "expire"
        BY <2>2, <2>3, <4>1 DEF Pending
      <4> QED BY <1>1, <1>10, <1>11, <1>t, <2>3, <2>4, <3>1, <4>1, <4>2
    <3>2. CASE v # u
      <4>1. user[v].at = "expire" /\ value > 0
        BY <1>11, <2>2, <2>5, <3>2 DEF Pending
      <4>2. ~waits
        BY <2>3, <4>1
      <4>3. user'[u].at # "expire"
        BY <1>10, <1>11, <4>2
      <4> QED BY <1>1, <1>11, <1>t, <2>2, <3>2, <4>1, <4>3 DEF Pending
    <3> QED BY <3>1, <3>2
  <2>6. CountedIn(counted', instant) = CountedIn(counted, instant) + 1
        /\ CountedIn(counted, instant) \in Nat
    <3>1. More(instant, instant) = 1
      BY <1>i DEF More
    <3> QED BY <1>i, <1>3, <1>5, <3>1
  <2>7. ASSUME expires = NoTTL
        PROVE  value' <= CountedIn(counted', instant) /\ \E v \in Users : user'[v].at = "expire"
    <3>1. CASE value = 0
      <4>1. waits
        BY <2>1, <3>1
      <4>2. value' <= CountedIn(counted', instant)
        BY <1>1, <2>6, <3>1
      <4> QED BY <1>10, <1>11, <4>1, <4>2
    <3>2. CASE value # 0
      <4>1. value <= CountedIn(counted, instant) /\ \E v \in Users : user[v].at = "expire"
        BY <1>t, <2>2, <2>7, <3>2 DEF Undated
      <4> QED BY <1>1, <1>11, <1>t, <2>6, <4>1
    <3> QED BY <3>1, <3>2
  <2>8. ASSUME expires # NoTTL
        PROVE  /\ value' > 0 /\ expires > instant /\ expires - longest <= instant
               /\ value' <= CountedIn(counted', expires - longest)
               /\ expires - longest \in Int
    <3>1. value > 0 /\ expires > instant /\ expires - longest <= instant
          /\ value <= CountedIn(counted, expires - longest)
      BY <2>2, <2>8 DEF Dated
    <3> DEFINE since == expires - longest
    <3>2. since \in Int
      BY <1>t
    <3> HIDE DEF since
    <3>3. More(instant, since) = 1
      BY <1>i, <3>1, <3>2 DEF More, since
    <3>4. CountedIn(counted', since) = CountedIn(counted, since) + 1 /\ CountedIn(counted, since) \in Nat
      BY <1>3, <1>5, <3>2, <3>3
    <3>5. value' <= CountedIn(counted', since)
      BY <1>1, <1>t, <3>1, <3>4 DEF since
    <3> QED BY <1>1, <1>t, <3>1, <3>2, <3>5 DEF since
  <2>9. TimelyKey'
    BY <1>1, <2>5, <2>7, <2>8 DEF TimelyKey, Pending, Undated, Dated
  <2>10. ASSUME NEW v \in Users PROVE Answer(v)'
    <3>1. CASE v # u
      <4> DEFINE since == user[v].since - user[v].span + 1
      <4>1. since \in Int
        BY <1>t
      <4>2. Answer(v) /\ user'[v] = user[v]
        BY <1>11, <2>2, <3>1
      <4>3. user[v].got \in Nat /\ CountedIn(counted, since) <= CountedIn(counted', since)
            /\ CountedIn(counted, since) \in Nat /\ CountedIn(counted', since) \in Nat
        BY <1>5, <1>t, <4>1
      <4>4. ASSUME use = "check_velocity", user[v].at # "idle"
            PROVE  user[v].span # NoTTL
                   /\ (longest <= user[v].span => user[v].got <= CountedIn(counted, since))
        BY <4>2, <4>4 DEF Answer
      <4> HIDE DEF since
      <4>5. ASSUME use = "check_velocity", user[v].at # "idle"
            PROVE  user[v].span # NoTTL
                   /\ (longest <= user[v].span => user[v].got <= CountedIn(counted', since))
        BY <4>3, <4>4, <4>5
      <4> QED BY <1>1, <4>2, <4>5 DEF Answer, since
    <3>2. CASE v = u
      <4> SUFFICES ASSUME use = "check_velocity"
                   PROVE  /\ span # NoTTL
                          /\ longest <= span => value + 1 <= CountedIn(counted', instant - span + 1)
        BY <1>1, <1>10, <1>11, <3>2 DEF Answer
      <4>1. span # NoTTL /\ span \in Nat \ {0}
        BY <1>t DEF NoTTL
      <4> SUFFICES ASSUME longest <= span
                   PROVE  value + 1 <= CountedIn(counted', instant - span + 1)
        BY <4>1
      <4> DEFINE since == instant - span + 1
      <4>2. since \in Int /\ since <= instant
        BY <1>i, <4>1
      <4>3. CountedIn(counted', since) = CountedIn(counted, since) + 1 /\ CountedIn(counted, since) \in Nat
        <5>1. More(instant, since) = 1
          BY <1>i, <4>2 DEF More
        <5> HIDE DEF since
        <5> QED BY <1>3, <1>5, <4>2, <5>1
      <4>4. value <= CountedIn(counted, since)
        <5>1. CASE value = 0
          BY <4>3, <5>1
        <5>2. CASE value # 0 /\ expires = NoTTL
          <6>1. value <= CountedIn(counted, instant)
            BY <1>t, <2>2, <5>2 DEF Undated
          <6>2. CountedIn(counted, instant) <= CountedIn(counted, since)
            BY <1>i, <1>t, <4>2
          <6> HIDE DEF since
          <6> QED BY <1>t, <2>6, <4>3, <6>1, <6>2
        <5>3. CASE expires # NoTTL
          <6> DEFINE from == expires - longest
          <6>1. value <= CountedIn(counted, from) /\ expires > instant
            BY <2>2, <5>3 DEF Dated
          <6>2. from \in Int /\ since <= from
            BY <1>i, <1>t, <4>1, <6>1
          <6> HIDE DEF since, from
          <6>3. CountedIn(counted, from) <= CountedIn(counted, since) /\ CountedIn(counted, from) \in Nat
            BY <1>t, <4>2, <6>2
          <6> QED BY <1>t, <4>3, <6>1, <6>3
        <5> QED BY <5>1, <5>2, <5>3
      <4> HIDE DEF since
      <4>5. value + 1 <= CountedIn(counted', since)
        BY <1>t, <4>3, <4>4
      <4> QED BY <4>5 DEF since
    <3> QED BY <3>1, <3>2
  <2> QED BY <2>9, <2>10
<1> QED BY <1>8, <1>12, <1>13 DEF CounterInv

\* The EXPIRE after the first INCR keeps it.
LEMMA ExpiryKeeps ==
  ASSUME CounterAssumption, CounterInv, NEW u \in Users, SetExpiry(u) PROVE CounterInv'
<1>0. CounterTypeOK
  BY DEF CounterInv
<1>t. /\ Spans \subseteq Nat \ {0} /\ instant \in Seconds /\ Seconds \subseteq Nat
      /\ value \in Nat /\ expires \in Nat /\ longest \in Nat /\ longest \in Spans \cup {0}
      /\ user \in [Users -> UserShape]
      /\ \A v \in Users : /\ user[v].span \in Nat /\ user[v].since \in Nat /\ user[v].got \in Nat
                          /\ user[v].span \in Spans \cup {NoTTL}
      /\ \A from \in Int : CountedIn(counted, from) \in Nat
      /\ \A from, since \in Int :
              from <= since => CountedIn(counted, since) <= CountedIn(counted, from)
  BY <1>0, CounterTypes DEF CounterTypeOK
<1>i. instant \in Nat
  BY <1>t
<1> DEFINE w == user[u].span
           k == [user[u] EXCEPT !.at = "answered"]
<1>1. /\ user[u].at = "expire" /\ user' = [user EXCEPT ![u] = k]
      /\ use' = use /\ instant' = instant /\ value' = value /\ counted' = counted
      /\ untimely' = untimely
      /\ \/ value = 0 /\ expires' = expires /\ longest' = longest
         \/ value # 0 /\ expires' = instant + w /\ longest' = (IF w > longest THEN w ELSE longest)
  BY DEF SetExpiry
<1>2. k \in UserShape /\ k.at = "answered" /\ k.span = w /\ k.since = user[u].since
      /\ k.got = user[u].got
  BY <1>t DEF UserShape
<1> HIDE DEF k
<1>3. /\ user' \in [Users -> UserShape] /\ user'[u] = k
      /\ \A v \in Users : v # u => user'[v] = user[v]
  BY <1>1, <1>2, <1>t
<1>4. w \in Nat /\ longest' \in Nat /\ longest' >= longest /\ expires' \in Nat
      /\ (value # 0 => longest' >= w)
  BY <1>1, <1>t, <1>i
<1>5. longest' \in Spans \cup {0}
  BY <1>1, <1>t DEF NoTTL
<1>6. CounterTypeOK'
  BY <1>0, <1>1, <1>3, <1>4, <1>5 DEF CounterTypeOK, UserShape
<1>7. ASSUME ~untimely PROVE TimelyKey' /\ \A v \in Users : Answer(v)'
  <2>1. Pending /\ Undated /\ \A v \in Users : Answer(v)
    BY <1>7 DEF CounterInv, TimelyKey
  <2>2. value > 0 /\ expires = NoTTL /\ user[u].since = instant /\ w # NoTTL
    BY <1>1, <2>1 DEF Pending
  <2>3. expires' = instant + w /\ expires' # NoTTL /\ expires' > instant /\ expires' - longest' <= instant
    <3>1. expires' = instant + w /\ w # 0
      BY <1>1, <2>2 DEF NoTTL
    <3>2. longest' >= w /\ longest' \in Nat /\ w \in Nat
      BY <1>4, <1>t, <2>2
    <3> HIDE DEF w
    <3> DEFINE e == expires'
               l == longest'
    <3>a. e = instant + w /\ w # 0 /\ w \in Nat /\ l >= w /\ l \in Nat
      BY <3>1, <3>2
    <3> HIDE DEF e, l
    <3>b. e > instant /\ e - l <= instant /\ e # 0
      BY <1>i, <3>a
    <3>3. expires' > instant /\ expires' - longest' <= instant /\ expires' # 0
      BY <3>b DEF e, l
    <3> QED BY <3>1, <3>3 DEF NoTTL
  <2>4. value <= CountedIn(counted, instant)
    BY <2>1, <2>2 DEF Undated
  <2>5. Dated'
    <3> DEFINE from == expires' - longest'
    <3>1. from \in Int /\ from <= instant /\ instant \in Int
      BY <1>4, <1>i, <2>3
    <3> HIDE DEF from
    <3>2. CountedIn(counted, instant) <= CountedIn(counted, from) /\ CountedIn(counted, from) \in Nat
          /\ CountedIn(counted, instant) \in Nat
      BY <1>t, <3>1
    <3>3. value <= CountedIn(counted, from)
      BY <1>t, <2>4, <3>2
    <3> QED BY <1>1, <2>2, <2>3, <3>3 DEF Dated, from
  <2>6. Pending'
    <3>1. \A v \in Users : user[v].at = "expire" => v = u
      BY <1>1, <2>1 DEF Pending
    <3>2. \A v \in Users : user'[v].at # "expire"
      BY <1>2, <1>3, <3>1
    <3> QED BY <3>2 DEF Pending
  <2>7. Undated'
    BY <2>3 DEF Undated
  <2>8. ASSUME NEW v \in Users PROVE Answer(v)'
    <3>1. /\ user'[v].at # "idle" => user[v].at # "idle"
          /\ user'[v].span = user[v].span /\ user'[v].since = user[v].since
          /\ user'[v].got = user[v].got
      BY <1>1, <1>2, <1>3
    <3>2. longest' <= user[v].span => longest <= user[v].span
      BY <1>4, <1>t
    <3>3. Answer(v)
      BY <2>1
    <3> QED BY <1>1, <3>1, <3>2, <3>3 DEF Answer
  <2> QED BY <2>5, <2>6, <2>7, <2>8 DEF TimelyKey
<1> QED BY <1>1, <1>6, <1>7 DEF CounterInv

\* The one that raises leaves a key that never expires, and says so.
LEMMA CounterRaises ==
  ASSUME CounterAssumption, CounterInv, NEW u \in Users, SetExpiryRaises(u) PROVE CounterInv'
<1>0. CounterTypeOK /\ user \in [Users -> UserShape] /\ Spans \subseteq Nat \ {0} /\ MaxIncr \in Nat
      /\ 0 \in Seconds
  BY CounterTypes DEF CounterInv, CounterAssumption, Seconds
<1>1. /\ user' = [user EXCEPT ![u] = Free] /\ untimely' = TRUE
      /\ UNCHANGED <<use, instant, value, expires, counted, longest>>
  BY DEF SetExpiryRaises
<1>2. Free \in UserShape
  BY <1>0 DEF Free, UserShape
<1>3. user' \in [Users -> UserShape]
  BY <1>0, <1>1, <1>2
<1>4. CounterTypeOK'
  BY <1>0, <1>1, <1>3 DEF CounterTypeOK, UserShape
<1> QED BY <1>1, <1>4 DEF CounterInv

\* The invariant of the counter is inductive.
LEMMA CounterPreserved ==
  ASSUME CounterAssumption, CounterInv, [CounterNext]_counterVars PROVE CounterInv'
<1>0. value \in Nat /\ untimely \in BOOLEAN /\ Spans \subseteq Nat \ {0} /\ NoTTL \notin Spans
  BY DEF CounterInv, CounterTypeOK, CounterAssumption, NoTTL
<1>1. CASE Strike
  BY <1>1, StrikeKeeps
<1>2. ASSUME NEW u \in Users, CheckVelocity(u) PROVE CounterInv'
  <2>1. PICK w \in Spans : IncrWith(u, w, value = 0)
    BY <1>2 DEF CheckVelocity
  <2>2. untimely' = untimely /\ w # NoTTL /\ w \in Spans \cup {NoTTL}
    BY <1>0, <1>2 DEF CheckVelocity
  <2>3. untimely' = (untimely \/ (w = NoTTL /\ value = 0))
    BY <1>0, <2>2
  <2>4. (value = 0) \in BOOLEAN
    OBVIOUS
  <2> QED BY <2>1, <2>2, <2>3, <2>4, IncrKeeps
<1>3. ASSUME NEW u \in Users, Incr(u) PROVE CounterInv'
  <2>1. CASE \E w \in Spans : IncrWith(u, w, value = 0) /\ UNCHANGED untimely
    <3>1. PICK w \in Spans : IncrWith(u, w, value = 0) /\ UNCHANGED untimely
      BY <2>1
    <3>2. untimely' = untimely /\ w # NoTTL /\ w \in Spans \cup {NoTTL}
      BY <1>0, <3>1
    <3>3. untimely' = (untimely \/ (w = NoTTL /\ value = 0))
      BY <1>0, <3>2
    <3>4. (value = 0) \in BOOLEAN
      OBVIOUS
    <3> QED BY <3>1, <3>2, <3>3, <3>4, IncrKeeps
  <2>2. CASE IncrWith(u, NoTTL, FALSE) /\ untimely' = (untimely \/ value = 0)
    <3>1. NoTTL \in Spans \cup {NoTTL} /\ use = "incr" /\ FALSE \in BOOLEAN
      BY <1>3 DEF Incr
    <3>2. untimely' = (untimely \/ (NoTTL = NoTTL /\ value = 0))
      BY <2>2
    <3> QED BY <1>0, <2>2, <3>1, <3>2, IncrKeeps
  <2> QED BY <1>3, <2>1, <2>2 DEF Incr
<1>4. ASSUME NEW u \in Users, SetExpiry(u) PROVE CounterInv'
  BY <1>4, ExpiryKeeps
<1>5. ASSUME NEW u \in Users, SetExpiryRaises(u) PROVE CounterInv'
  BY <1>5, CounterRaises
<1>6. CASE UNCHANGED counterVars
  <2>1. /\ use' = use /\ instant' = instant /\ value' = value /\ expires' = expires /\ user' = user
        /\ counted' = counted /\ longest' = longest /\ untimely' = untimely
    BY <1>6 DEF counterVars
  <2> QED BY <2>1 DEF CounterInv, CounterTypeOK, TimelyKey, Pending, Undated, Dated, Answer
<1> QED BY <1>1, <1>2, <1>3, <1>4, <1>5, <1>6 DEF CounterNext

\* It contains the properties.
LEMMA CounterSafe ==
  ASSUME CounterAssumption, CounterInv PROVE CounterTypeOK /\ ExceededExplained
<1>1. CounterTypeOK
  BY DEF CounterInv
<1>t. /\ value \in Nat /\ longest \in Nat /\ Allowed \in Nat
      /\ \A v \in Users : /\ user[v].span \in Nat /\ user[v].since \in Nat /\ user[v].got \in Nat
      /\ \A from \in Int : CountedIn(counted, from) \in Nat
  BY <1>1, CounterTypes DEF CounterAssumption
<1>2. ASSUME NEW u \in Users, Exceeded(u)
      PROVE  \/ Counted(user[u].since - user[u].span + 1) > Allowed
             \/ longest > user[u].span \/ untimely
  <2> DEFINE from == user[u].since - user[u].span + 1
  <2>1. from \in Int
    BY <1>t
  <2> HIDE DEF from
  <2>2. Counted(from) = CountedIn(counted, from) /\ CountedIn(counted, from) \in Nat
    BY <1>t, <2>1, CountedIs
  <2>3. use = "check_velocity" /\ user[u].at # "idle" /\ user[u].got > Allowed
    BY <1>2 DEF Exceeded
  <2>4. ~untimely /\ longest <= user[u].span => user[u].got <= CountedIn(counted, from)
    BY <2>3 DEF CounterInv, Answer, from
  <2>5. \/ Counted(from) > Allowed \/ longest > user[u].span \/ untimely
    BY <1>t, <2>2, <2>3, <2>4
  <2> QED BY <2>5 DEF from
<1>3. value > 0 /\ expires = NoTTL => untimely \/ \E u \in Users : user[u].at = "expire"
  BY DEF CounterInv, TimelyKey, Undated
<1> QED BY <1>1, <1>2, <1>3 DEF ExceededExplained
-----------------------------------------------------------------------------
(* VelocityCounter *)
Marks == [Times -> Nat]
CallerShape == [op : {"none", "increment", "get_count", "counted"},
              now : Times, window : Windows \cup {0}, count : 0..MaxRecorded]

\* Total is such a sum.
LEMMA TotalIs == \A bag, from : Total(bag, from) = SumFrom(MaxTime, bag, from)
BY DEF Total, SumFrom, IsUpto, Times

\* An earlier start counts no less.
LEMMA TotalOrder ==
  ASSUME MaxTime \in Nat, NEW bag \in Marks, NEW from \in Int, NEW other \in Marks, NEW since \in Int,
         \A t \in Times : t >= from => (bag[t] = 0 \/ (t >= since /\ bag[t] <= other[t]))
  PROVE  /\ Total(bag, from) <= Total(other, since)
         /\ Total(bag, from) \in Nat /\ Total(other, since) \in Nat
<1>1. /\ SumFrom(MaxTime, bag, from) <= SumFrom(MaxTime, other, since)
      /\ SumFrom(MaxTime, bag, from) \in Nat /\ SumFrom(MaxTime, other, since) \in Nat
  BY SumOrder DEF Marks, Times
<1> QED BY <1>1, TotalIs

\* One event more.
LEMMA TotalMore ==
  ASSUME MaxTime \in Nat, NEW bag \in Marks, NEW from \in Int, NEW x \in Times, NEW other \in Marks,
         other[x] = bag[x] + 1, \A t \in Times : t # x => other[t] = bag[t]
  PROVE  Total(other, from) = Total(bag, from) + More(x, from)
<1>1. OneMore(MaxTime, bag, x, other) /\ bag \in [0..MaxTime -> Nat]
  BY DEF Marks, Times, OneMore
<1>2. SumFrom(MaxTime, other, from) = SumFrom(MaxTime, bag, from) + More(x, from)
  BY <1>1, SumMore
<1> QED BY <1>2, TotalIs

\* What covers the seconds that count has no smaller sum.
LEMMA TotalCovers ==
  ASSUME MaxTime \in Nat, NEW bag \in Marks, NEW x \in Times
  PROVE  bag[x] <= Total(bag, 0)
<1>1. bag[x] <= SumFrom(MaxTime, bag, 0)
  BY SumCovers DEF Marks, Times
<1> QED BY <1>1, TotalIs

\* An event is in the sorted set, or it is behind the cut of some pipeline, or it
\* outlived its key; a key lives for as long as the shortest window needs it.
Kept(t) == recorded[t] > 0 =>
  /\ t <= second /\ deadline >= t + shortest + Margin
  /\ events[t] # recorded[t] => t <= newest - shortest \/ second >= t + shortest + Margin
UnderWay(c) == caller[c].op \in {"increment", "get_count"} =>
  caller[c].window # 0 /\ caller[c].now <= second /\ second <= caller[c].now + MaxDelay
VelocityInv ==
  /\ VelocityTypeOK
  /\ Total(recorded, 0) <= MaxRecorded
  /\ \A t \in Times : events[t] <= recorded[t]
  /\ \A t \in Times : Kept(t)
  /\ \A c \in Callers : UnderWay(c)

\* The invariant of the velocity counter holds at the start.
LEMMA VelocityInitial == VelocityAssumption /\ VelocityInit => VelocityInv
<1> SUFFICES ASSUME VelocityAssumption, VelocityInit PROVE VelocityInv
  OBVIOUS
<1>0. MaxTime \in Nat /\ MaxRecorded \in Nat /\ 0 \in Times /\ Windows \subseteq Nat \ {0}
  BY DEF VelocityAssumption, Times
<1>1. \A t \in Times : events[t] = 0 /\ recorded[t] = 0
  BY DEF VelocityInit
<1>2. Total(recorded, 0) = 0
  <2>1. recorded \in [0..MaxTime -> Nat] /\ \A t \in 0..MaxTime : recorded[t] = 0
    BY <1>0, <1>1 DEF VelocityInit, Times
  <2>2. SumFrom(MaxTime, recorded, 0) = 0
    BY <1>0, <2>1, SumNone
  <2> QED BY <2>2, TotalIs
<1>3. VelocityTypeOK
  <2>1. Idle \in CallerShape
    BY <1>0 DEF Idle, CallerShape
  <2>2. caller \in [Callers -> CallerShape]
    BY <2>1 DEF VelocityInit
  <2>3. events \in [Times -> 0..MaxRecorded] /\ recorded \in [Times -> 0..MaxRecorded]
    BY <1>0 DEF VelocityInit
  <2> QED BY <1>0, <2>2, <2>3 DEF VelocityTypeOK, VelocityInit, CallerShape
<1>4. \A t \in Times : events[t] <= recorded[t] /\ Kept(t)
  BY <1>1 DEF Kept
<1>5. \A c \in Callers : UnderWay(c)
  BY DEF UnderWay, VelocityInit, Idle
<1> QED BY <1>0, <1>2, <1>3, <1>4, <1>5 DEF VelocityInv

\* The facts about the types that every step uses.
LEMMA VelocityTypes ==
  ASSUME VelocityAssumption, VelocityTypeOK
  PROVE  /\ MaxTime \in Nat /\ MaxDelay \in Nat /\ Margin \in Nat /\ MaxDelay <= Margin
         /\ MaxRecorded \in Nat /\ Windows \subseteq Nat \ {0} /\ Times \subseteq Nat /\ 0 \in Times
         /\ second \in Nat /\ second \in Times /\ newest \in Times /\ newest \in Nat
         /\ deadline \in Nat /\ shortest \in Nat
         /\ events \in Marks /\ recorded \in Marks /\ caller \in [Callers -> CallerShape]
         /\ \A c \in Callers : /\ caller[c].now \in Times /\ caller[c].now \in Nat
                               /\ caller[c].window \in Nat /\ caller[c].window \in Windows \cup {0}
<1>1. /\ MaxTime \in Nat /\ MaxDelay \in Nat /\ Margin \in Nat /\ MaxDelay <= Margin
      /\ MaxRecorded \in Nat /\ Windows \subseteq Nat \ {0} /\ Times \subseteq Nat /\ 0 \in Times
  BY DEF VelocityAssumption, Times
<1>2. second \in Nat /\ second \in Times /\ newest \in Times /\ newest \in Nat /\ deadline \in Nat
  BY <1>1 DEF VelocityTypeOK
<1>3. shortest \in Nat
  BY <1>1 DEF VelocityTypeOK
<1>4. events \in Marks /\ recorded \in Marks
  <2>1. 0..MaxRecorded \subseteq Nat
    BY <1>1
  <2> QED BY <2>1 DEF VelocityTypeOK, Marks
<1>5. caller \in [Callers -> CallerShape]
  BY DEF VelocityTypeOK, CallerShape
<1>6. ASSUME NEW c \in Callers
      PROVE  /\ caller[c].now \in Times /\ caller[c].now \in Nat
             /\ caller[c].window \in Nat /\ caller[c].window \in Windows \cup {0}
  <2>1. caller[c] \in CallerShape
    BY <1>5
  <2>2. caller[c].now \in Times /\ caller[c].window \in Windows \cup {0}
    BY <2>1 DEF CallerShape
  <2>3. Windows \cup {0} \subseteq Nat
    BY <1>1
  <2> QED BY <1>1, <2>2, <2>3
<1> QED BY <1>1, <1>2, <1>3, <1>4, <1>5, <1>6

\* A second that passes, and may expire the key, keeps it.
LEMMA ElapseKeeps == ASSUME VelocityAssumption, VelocityInv, Elapse PROVE VelocityInv'
<1>0. VelocityTypeOK
  BY DEF VelocityInv
<1>t. /\ MaxTime \in Nat /\ MaxDelay \in Nat /\ Margin \in Nat /\ MaxRecorded \in Nat
      /\ Times \subseteq Nat /\ second \in Nat /\ second \in Times /\ newest \in Nat
      /\ deadline \in Nat /\ shortest \in Nat /\ events \in Marks /\ recorded \in Marks
      /\ \A c \in Callers : caller[c].now \in Nat
  BY <1>0, VelocityTypes
<1>1. /\ second < MaxTime /\ second' = second + 1
      /\ caller' = caller /\ deadline' = deadline /\ recorded' = recorded
      /\ shortest' = shortest /\ newest' = newest
      /\ \A c \in Callers :
           caller[c].op \in {"increment", "get_count"} => second < caller[c].now + MaxDelay
  BY DEF Elapse
<1>2. \/ deadline <= second' /\ \A t \in Times : events'[t] = 0
      \/ events' = events
  BY DEF Elapse
<1>3. events' \in [Times -> 0..MaxRecorded]
  <2>1. [t \in Times |-> 0] \in [Times -> 0..MaxRecorded]
    BY <1>t
  <2>2. events \in [Times -> 0..MaxRecorded]
    BY <1>0 DEF VelocityTypeOK
  <2> QED BY <2>1, <2>2 DEF Elapse
<1>4. second' \in Times
  BY <1>1, <1>t DEF Times
<1>5. VelocityTypeOK'
  BY <1>0, <1>1, <1>3, <1>4 DEF VelocityTypeOK
<1>6. ASSUME NEW t \in Times PROVE events'[t] <= recorded'[t] /\ Kept(t)'
  <2>1. t \in Nat /\ events[t] \in Nat /\ recorded[t] \in Nat /\ events[t] <= recorded[t] /\ Kept(t)
    BY <1>t DEF VelocityInv, Marks
  <2>2. events'[t] <= recorded[t]
    BY <1>2, <2>1
  <2>3. ASSUME recorded[t] > 0
        PROVE  /\ t <= second' /\ deadline >= t + shortest + Margin
               /\ events'[t] # recorded[t] => t <= newest - shortest \/ second' >= t + shortest + Margin
    <3>1. /\ t <= second /\ deadline >= t + shortest + Margin
          /\ events[t] # recorded[t] => t <= newest - shortest \/ second >= t + shortest + Margin
      BY <2>1, <2>3 DEF Kept
    <3> DEFINE z == t + shortest + Margin
    <3>2. z \in Nat /\ deadline >= z
      BY <1>t, <2>1, <3>1
    <3> HIDE DEF z
    <3>3. t <= second'
      BY <1>1, <1>t, <2>1, <3>1
    <3>4. ASSUME deadline <= second' PROVE second' >= z
      BY <1>1, <1>t, <3>2, <3>4
    <3>5. ASSUME second >= z PROVE second' >= z
      BY <1>1, <1>t, <3>2, <3>5
    <3>6. events'[t] # recorded[t] => t <= newest - shortest \/ second' >= z
      BY <1>2, <3>1, <3>4, <3>5 DEF z
    <3> QED BY <3>1, <3>3, <3>6 DEF z
  <2> QED BY <1>1, <2>2, <2>3 DEF Kept
<1>7. ASSUME NEW c \in Callers PROVE UnderWay(c)'
  <2>1. UnderWay(c) /\ caller[c].now \in Nat
    BY <1>t DEF VelocityInv
  <2> SUFFICES ASSUME caller[c].op \in {"increment", "get_count"}
               PROVE  caller[c].window # 0 /\ caller[c].now <= second' /\ second' <= caller[c].now + MaxDelay
    BY <1>1 DEF UnderWay
  <2>2. caller[c].window # 0 /\ caller[c].now <= second /\ second < caller[c].now + MaxDelay
    BY <1>1, <2>1 DEF UnderWay
  <2> DEFINE now == caller[c].now
  <2>3. now \in Nat /\ now <= second /\ second < now + MaxDelay
    BY <2>1, <2>2
  <2> HIDE DEF now
  <2>4. now <= second' /\ second' <= now + MaxDelay
    BY <1>1, <1>t, <2>3
  <2> QED BY <2>2, <2>4 DEF now
<1>8. Total(recorded, 0) <= MaxRecorded
  BY DEF VelocityInv
<1> QED BY <1>1, <1>5, <1>6, <1>7, <1>8 DEF VelocityInv

\* A call that begins, or raises, keeps it.
LEMMA CallKeeps ==
  ASSUME VelocityAssumption, VelocityInv, NEW c \in Callers, Call(c) \/ CallRaises(c)
  PROVE  VelocityInv'
<1>0. VelocityTypeOK
  BY DEF VelocityInv
<1>t. /\ MaxDelay \in Nat /\ MaxRecorded \in Nat /\ Windows \subseteq Nat \ {0} /\ 0 \in Times
      /\ second \in Nat /\ second \in Times /\ caller \in [Callers -> CallerShape]
  BY <1>0, VelocityTypes
<1>1. UNCHANGED <<second, events, deadline, recorded, shortest, newest>>
  BY DEF Call, CallRaises, windowVars
<1>2. PICK k : /\ caller' = [caller EXCEPT ![c] = k] /\ k \in CallerShape
               /\ \/ k.op \notin {"increment", "get_count"}
                  \/ k.window # 0 /\ k.now = second
  <2>1. CASE Call(c)
    <3>1. PICK op \in {"increment", "get_count"}, w \in Windows :
            caller' = [caller EXCEPT ![c] = [op |-> op, now |-> second, window |-> w, count |-> 0]]
      BY <2>1 DEF Call
    <3> DEFINE q == [op |-> op, now |-> second, window |-> w, count |-> 0]
    <3>2. q \in CallerShape /\ q.window # 0 /\ q.now = second
      BY <1>t DEF CallerShape
    <3>3. caller' = [caller EXCEPT ![c] = q]
      BY <3>1
    <3> HIDE DEF q
    <3> QED BY <3>2, <3>3
  <2>2. CASE CallRaises(c)
    <3>1. caller' = [caller EXCEPT ![c] = Idle]
      BY <2>2 DEF CallRaises
    <3>2. Idle \in CallerShape /\ Idle.op = "none"
      BY <1>t DEF CallerShape, Idle
    <3> QED BY <3>1, <3>2
  <2> QED BY <2>1, <2>2
<1>3. /\ caller' \in [Callers -> CallerShape] /\ caller'[c] = k
      /\ \A d \in Callers : d # c => caller'[d] = caller[d]
  BY <1>2, <1>t
<1>4. VelocityTypeOK'
  BY <1>0, <1>1, <1>3 DEF VelocityTypeOK, CallerShape
<1>5. ASSUME NEW d \in Callers PROVE UnderWay(d)'
  <2>1. CASE d = c
    <3>1. second <= second + MaxDelay /\ second <= second
      BY <1>t
    <3> QED BY <1>1, <1>2, <1>3, <2>1, <3>1 DEF UnderWay
  <2>2. CASE d # c
    BY <1>1, <1>3, <2>2 DEF VelocityInv, UnderWay
  <2> QED BY <2>1, <2>2
<1>6. /\ Total(recorded, 0) <= MaxRecorded /\ \A t \in Times : events[t] <= recorded[t]
      /\ \A t \in Times : Kept(t)
  BY DEF VelocityInv
<1>7. \A t \in Times : Kept(t)'
  BY <1>1, <1>6 DEF Kept
<1> QED BY <1>1, <1>4, <1>5, <1>6, <1>7 DEF VelocityInv

\* What a pipeline does: it prunes the set by its window and clock, adds an event
\* of its own clock or none, and renews the key if it adds one.
Answered(c, kept) ==
  /\ caller[c].op \in {"increment", "get_count"}
  /\ events' = kept /\ Executed(c) /\ second' = second
  /\ caller' = [caller EXCEPT ![c].op = "counted", ![c].count = Total(kept, 0)]
Adds(c, kept) ==
  /\ recorded' = [recorded EXCEPT ![caller[c].now] = recorded[caller[c].now] + 1]
  /\ deadline' = second + caller[c].window + Margin /\ Total(recorded, 0) < MaxRecorded
  /\ \A t \in Times : kept[t] = (IF t <= caller[c].now - caller[c].window THEN 0 ELSE events[t])
                                + (IF t = caller[c].now THEN 1 ELSE 0)
AddsNone(c, kept) ==
  /\ recorded' = recorded /\ deadline' = deadline
  /\ \A t \in Times : kept[t] = IF t <= caller[c].now - caller[c].window THEN 0 ELSE events[t]
Pipeline(c) == \E kept \in Marks : Answered(c, kept) /\ (Adds(c, kept) \/ AddsNone(c, kept))

\* Both operations execute one pipeline.
LEMMA PipelineIs ==
  ASSUME VelocityAssumption, VelocityInv, NEW c \in Callers, Increment(c) \/ GetCount(c)
  PROVE  Pipeline(c)
<1>t. /\ events \in Marks /\ caller[c].now \in Times /\ caller[c].now \in Nat /\ caller[c].window \in Nat
      /\ Times \subseteq Nat
  BY VelocityTypes DEF VelocityInv
<1> DEFINE now == caller[c].now
           w == caller[c].window
           pruned == Prune(events, now - w)
<1>1. pruned \in Marks /\ \A t \in Times : pruned[t] = IF t <= now - w THEN 0 ELSE events[t]
  BY <1>t DEF Prune, Marks
<1>n. now \in Times /\ now \in Nat
  BY <1>t
<1>2. CASE GetCount(c)
  <2>1. Answered(c, pruned) /\ recorded' = recorded /\ deadline' = deadline
    BY <1>2 DEF GetCount, Answered
  <2>2. AddsNone(c, pruned)
    BY <1>1, <2>1 DEF AddsNone
  <2> HIDE DEF pruned
  <2> QED BY <1>1, <2>1, <2>2 DEF Pipeline
<1>3. CASE Increment(c)
  <2> DEFINE kept == [pruned EXCEPT ![now] = pruned[now] + 1]
  <2>1. /\ caller[c].op = "increment" /\ events' = kept /\ second' = second /\ Executed(c)
        /\ caller' = [caller EXCEPT ![c].op = "counted", ![c].count = Total(kept, 0)]
        /\ recorded' = [recorded EXCEPT ![now] = recorded[now] + 1]
        /\ deadline' = second + w + Margin /\ Total(recorded, 0) < MaxRecorded
    BY <1>3 DEF Increment
  <2> HIDE DEF pruned, now
  <2>2. /\ kept \in Marks /\ kept[now] = pruned[now] + 1
        /\ \A t \in Times : t # now => kept[t] = pruned[t]
    BY <1>1, <1>n DEF Marks
  <2>3. ASSUME NEW t \in Times PROVE kept[t] = pruned[t] + (IF t = now THEN 1 ELSE 0)
    BY <1>1, <1>n, <2>2 DEF Marks
  <2>4. Answered(c, kept)
    BY <2>1 DEF Answered
  <2> HIDE DEF kept
  <2>5. \A t \in Times : kept[t] = (IF t <= now - w THEN 0 ELSE events[t]) + (IF t = now THEN 1 ELSE 0)
    BY <1>1, <2>3 DEF now
  <2>6. Adds(c, kept)
    BY <2>1, <2>5 DEF Adds, now
  <2> QED BY <2>2, <2>4, <2>6 DEF Pipeline
<1> QED BY <1>2, <1>3

\* What a pipeline leaves, event by event: extra is what it adds in a second.
Left(c, t, extra) ==
  /\ extra \in {0, 1} /\ (extra = 1 => t = caller[c].now)
  /\ recorded'[t] = recorded[t] + extra
  /\ events'[t] = (IF t <= caller[c].now - caller[c].window THEN 0 ELSE events[t]) + extra
Bounds(c) ==
  /\ events' \in Marks /\ recorded' \in Marks /\ Total(recorded', 0) <= MaxRecorded
  /\ shortest' <= shortest /\ shortest' <= caller[c].window /\ shortest' \in Windows \cup {MaxTime + 1}
  /\ newest' >= newest /\ newest' >= caller[c].now /\ newest' \in Times
  /\ second' = second /\ deadline' \in Nat
  /\ deadline' = deadline \/ deadline' = second + caller[c].window + Margin
  /\ deadline' = deadline => recorded' = recorded \/ deadline = second + caller[c].window + Margin

\* What a pipeline leaves in the key, second by second.
LEMMA PipelineLeaves ==
  ASSUME VelocityAssumption, VelocityInv, NEW c \in Callers, Pipeline(c)
  PROVE  Bounds(c) /\ \A t \in Times : \E extra : Left(c, t, extra)
<1>0. VelocityTypeOK
  BY DEF VelocityInv
<1>t. /\ MaxTime \in Nat /\ Margin \in Nat /\ MaxRecorded \in Nat /\ Windows \subseteq Nat \ {0}
      /\ Times \subseteq Nat /\ 0 \in Times /\ 0 \in Int /\ second \in Nat /\ newest \in Times /\ newest \in Nat
      /\ deadline \in Nat /\ shortest \in Nat /\ events \in Marks /\ recorded \in Marks
      /\ caller[c].now \in Times /\ caller[c].now \in Nat
      /\ caller[c].window \in Nat /\ caller[c].window \in Windows \cup {0}
  BY <1>0, VelocityTypes
<1>1. PICK kept \in Marks : Answered(c, kept) /\ (Adds(c, kept) \/ AddsNone(c, kept))
  BY DEF Pipeline
<1> DEFINE now == caller[c].now
           w == caller[c].window
<1>2. w \in Windows /\ w \in Nat /\ now \in Times /\ now \in Nat
  <2>1. w # 0
    BY <1>1 DEF VelocityInv, UnderWay, Answered
  <2> QED BY <1>t, <2>1
<1>3. /\ events' = kept /\ second' = second
      /\ shortest' = (IF w < shortest THEN w ELSE shortest)
      /\ newest' = (IF now > newest THEN now ELSE newest)
  BY <1>1 DEF Answered, Executed
<1>4. shortest \in Windows \cup {MaxTime + 1}
  BY <1>0 DEF VelocityTypeOK
<1>5. CASE AddsNone(c, kept)
  <2>1. /\ recorded' = recorded /\ deadline' = deadline
        /\ \A t \in Times : kept[t] = (IF t <= now - w THEN 0 ELSE events[t])
    BY <1>5 DEF AddsNone
  <2>2. ASSUME NEW t \in Times PROVE Left(c, t, 0)
    <3>1. recorded[t] \in Nat /\ events[t] \in Nat
      BY <1>t DEF Marks
    <3> QED BY <1>3, <2>1, <3>1 DEF Left
  <2>3. Total(recorded, 0) <= MaxRecorded
    BY DEF VelocityInv
  <2>4. Bounds(c)
    <3> HIDE DEF now, w
    <3>1. /\ shortest' <= shortest /\ shortest' <= w /\ shortest' \in Windows \cup {MaxTime + 1}
          /\ newest' >= newest /\ newest' >= now /\ newest' \in Times
      BY <1>2, <1>3, <1>4, <1>t
    <3> QED BY <1>1, <1>3, <1>t, <2>1, <2>3, <3>1 DEF Bounds, now, w
  <2> QED BY <2>2, <2>4
<1>6. CASE Adds(c, kept)
  <2>1. /\ recorded' = [recorded EXCEPT ![now] = recorded[now] + 1]
        /\ deadline' = second + w + Margin /\ Total(recorded, 0) < MaxRecorded
        /\ \A t \in Times : kept[t] = (IF t <= now - w THEN 0 ELSE events[t]) + (IF t = now THEN 1 ELSE 0)
    BY <1>6 DEF Adds
  <2>2. ASSUME NEW t \in Times PROVE Left(c, t, IF t = now THEN 1 ELSE 0)
    <3>1. recorded[t] \in Nat /\ events[t] \in Nat
      BY <1>t DEF Marks
    <3>2. recorded'[t] = recorded[t] + (IF t = now THEN 1 ELSE 0)
      BY <1>t, <2>1, <3>1 DEF Marks
    <3> DEFINE extra == IF t = now THEN 1 ELSE 0
    <3>3. extra \in {0, 1} /\ (extra = 1 => t = now) /\ recorded'[t] = recorded[t] + extra
          /\ events'[t] = (IF t <= now - w THEN 0 ELSE events[t]) + extra
      BY <1>3, <2>1, <3>2
    <3> QED BY <3>3 DEF Left
  <2>3. /\ recorded' \in Marks /\ recorded'[now] = recorded[now] + 1
        /\ \A t \in Times : t # now => recorded'[t] = recorded[t]
    <3> HIDE DEF now, w
    <3> QED BY <1>2, <1>t, <2>1 DEF Marks
  <2>4. Total(recorded', 0) <= MaxRecorded
    <3>1. \A r \in Marks : r[now] = recorded[now] + 1 /\ (\A t \in Times : t # now => r[t] = recorded[t])
                           => Total(r, 0) = Total(recorded, 0) + More(now, 0)
      BY <1>2, <1>t, TotalMore
    <3>2. Total(recorded', 0) = Total(recorded, 0) + More(now, 0)
      <4> HIDE DEF now, w
      <4> QED BY <2>3, <3>1
    <3>3. More(now, 0) = 1
      BY <1>2 DEF More
    <3>4. Total(recorded, 0) \in Nat
      <4>1. \A t \in Times : recorded[t] \in Nat
        BY <1>t DEF Marks
      <4>2. \A t \in Times : t >= 0 => (recorded[t] = 0 \/ (t >= 0 /\ recorded[t] <= recorded[t]))
        BY <1>t, <4>1
      <4> QED BY <1>t, <4>2, TotalOrder
    <3> HIDE DEF now, w
    <3> QED BY <1>t, <2>1, <3>2, <3>3, <3>4
  <2>5. Bounds(c)
    <3> HIDE DEF now, w
    <3>1. /\ shortest' <= shortest /\ shortest' <= w /\ shortest' \in Windows \cup {MaxTime + 1}
          /\ newest' >= newest /\ newest' >= now /\ newest' \in Times
      BY <1>2, <1>3, <1>4, <1>t
    <3>2. deadline' \in Nat
      BY <1>2, <1>t, <2>1
    <3> QED BY <1>1, <1>3, <1>t, <2>1, <2>3, <2>4, <3>1, <3>2 DEF Bounds, now, w
  <2> QED BY <2>2, <2>5
<1> QED BY <1>1, <1>5, <1>6

\* A pipeline keeps the invariant.
LEMMA PipelineKeeps ==
  ASSUME VelocityAssumption, VelocityInv, NEW c \in Callers, Pipeline(c)
  PROVE  VelocityInv'
<1>0. VelocityTypeOK
  BY DEF VelocityInv
<1>t. /\ MaxTime \in Nat /\ Margin \in Nat /\ MaxRecorded \in Nat /\ Windows \subseteq Nat \ {0}
      /\ Times \subseteq Nat /\ 0 \in Times /\ 0 \in Int /\ second \in Nat /\ newest \in Nat
      /\ second \in Times
      /\ deadline \in Nat /\ shortest \in Nat /\ events \in Marks /\ recorded \in Marks
      /\ caller[c].now \in Nat /\ caller[c].window \in Nat /\ caller \in [Callers -> CallerShape]
  BY <1>0, VelocityTypes
<1>1. Bounds(c) /\ \A t \in Times : \E extra : Left(c, t, extra)
  BY PipelineLeaves
<1> DEFINE now == caller[c].now
           w == caller[c].window
<1>2. /\ events' \in Marks /\ recorded' \in Marks /\ Total(recorded', 0) <= MaxRecorded
      /\ shortest' <= shortest /\ shortest' <= w /\ shortest' \in Windows \cup {MaxTime + 1}
      /\ newest' >= newest /\ newest' >= now /\ newest' \in Times
      /\ second' = second /\ deadline' \in Nat
      /\ deadline' = deadline \/ deadline' = second + w + Margin
      /\ deadline' = deadline => recorded' = recorded \/ deadline = second + w + Margin
  BY <1>1 DEF Bounds
<1>n. shortest' \in Nat /\ newest' \in Nat /\ now \in Nat /\ w \in Nat
  BY <1>2, <1>t
<1>3. now <= second /\ caller[c].op \in {"increment", "get_count"}
  <2>1. caller[c].op \in {"increment", "get_count"}
    BY DEF Pipeline, Answered
  <2> QED BY <2>1 DEF VelocityInv, UnderWay
<1>4. ASSUME NEW t \in Times PROVE events'[t] <= recorded'[t] /\ Kept(t)'
  <2> DEFINE e == events[t]
             r == recorded[t]
             e2 == events'[t]
             r2 == recorded'[t]
             s2 == shortest'
             n2 == newest'
             d2 == deadline'
  <2>1. PICK x : x \in {0, 1} /\ (x = 1 => t = now) /\ r2 = r + x
                 /\ e2 = (IF t <= now - w THEN 0 ELSE e) + x
    BY <1>1 DEF Left
  <2>2. e \in Nat /\ r \in Nat /\ e2 \in Nat /\ r2 \in Nat /\ e <= r /\ t \in Nat
    BY <1>2, <1>t DEF Marks, VelocityInv
  <2>3. /\ s2 \in Nat /\ n2 \in Nat /\ d2 \in Nat /\ s2 <= shortest /\ s2 <= w
        /\ n2 >= newest /\ n2 >= now
        /\ d2 = deadline \/ d2 = second + w + Margin
        /\ d2 = deadline => r2 = r \/ deadline = second + w + Margin
    BY <1>2, <1>n
  <2>4. r > 0 => /\ t <= second /\ deadline >= t + shortest + Margin
                 /\ e # r => t <= newest - shortest \/ second >= t + shortest + Margin
    BY DEF VelocityInv, Kept
  <2> HIDE DEF e, r, e2, r2, s2, n2, d2, now, w
  <2>5. e2 <= r2
    BY <2>1, <2>2
  <2>6. ASSUME r2 > 0 PROVE t <= second
    BY <1>3, <1>n, <1>t, <2>1, <2>2, <2>4, <2>6
  <2>7. ASSUME r2 > 0 PROVE d2 >= t + s2 + Margin
    <3>1. CASE d2 = second + w + Margin
      BY <1>n, <1>t, <2>2, <2>3, <2>6, <2>7, <3>1
    <3>2. CASE d2 = deadline /\ r2 = r
      <4>1. deadline >= t + shortest + Margin
        BY <2>4, <2>7, <3>2
      <4> QED BY <1>n, <1>t, <2>2, <2>3, <3>2, <4>1
    <3> QED BY <2>3, <3>1, <3>2
  <2>8. ASSUME r2 > 0, e2 # r2 PROVE t <= n2 - s2 \/ second >= t + s2 + Margin
    <3>1. CASE t <= now - w
      BY <1>n, <2>2, <2>3, <3>1
    <3>2. CASE ~(t <= now - w)
      <4>1. e # r /\ r > 0
        BY <2>1, <2>2, <2>8, <3>2
      <4>2. t <= newest - shortest \/ second >= t + shortest + Margin
        BY <2>4, <4>1
      <4>3. ASSUME t <= newest - shortest PROVE t <= n2 - s2
        BY <1>t, <2>2, <2>3, <4>3
      <4>4. ASSUME second >= t + shortest + Margin PROVE second >= t + s2 + Margin
        BY <1>t, <2>2, <2>3, <4>4
      <4> QED BY <4>2, <4>3, <4>4
    <3> QED BY <3>1, <3>2
  <2>9. r2 > 0 => /\ t <= second' /\ d2 >= t + s2 + Margin
                  /\ e2 # r2 => t <= n2 - s2 \/ second' >= t + s2 + Margin
    BY <1>2, <2>6, <2>7, <2>8
  <2> QED BY <2>5, <2>9 DEF Kept, e2, r2, s2, n2, d2
<1>5. /\ events' \in [Times -> 0..MaxRecorded] /\ recorded' \in [Times -> 0..MaxRecorded]
  <2>1. ASSUME NEW t \in Times PROVE recorded'[t] \in 0..MaxRecorded /\ events'[t] \in 0..MaxRecorded
    <3>1. recorded'[t] \in Nat /\ events'[t] \in Nat
      BY <1>2 DEF Marks
    <3>2. \A b \in Marks : b[t] <= Total(b, 0) /\ Total(b, 0) \in Nat
      <4> SUFFICES ASSUME NEW b \in Marks PROVE b[t] <= Total(b, 0) /\ Total(b, 0) \in Nat
        OBVIOUS
      <4>1. b[t] <= Total(b, 0)
        BY <1>t, TotalCovers
      <4>2. \A u \in Times : b[u] \in Nat
        BY DEF Marks
      <4>3. \A u \in Times : u >= 0 => (b[u] = 0 \/ (u >= 0 /\ b[u] <= b[u]))
        BY <1>t, <4>2
      <4>4. Total(b, 0) \in Nat
        BY <1>t, <4>3, TotalOrder
      <4> QED BY <4>1, <4>4
    <3>3. recorded'[t] <= Total(recorded', 0) /\ Total(recorded', 0) \in Nat
      BY <1>2, <3>2
    <3> QED BY <1>2, <1>4, <1>t, <3>1, <3>3
  <2> QED BY <1>2, <2>1 DEF Marks
<1>6. PICK kept \in Marks : Answered(c, kept)
  BY DEF Pipeline
<1>7. events' = kept
      /\ caller' = [caller EXCEPT ![c].op = "counted", ![c].count = Total(kept, 0)]
  BY <1>6 DEF Answered
<1>8. Total(kept, 0) \in 0..MaxRecorded
  <2>1. \A a, b \in Marks : (\A t \in Times : a[t] <= b[t]) => Total(a, 0) <= Total(b, 0)
                            /\ Total(a, 0) \in Nat /\ Total(b, 0) \in Nat
    <3> SUFFICES ASSUME NEW a \in Marks, NEW b \in Marks, \A t \in Times : a[t] <= b[t]
                 PROVE  Total(a, 0) <= Total(b, 0) /\ Total(a, 0) \in Nat /\ Total(b, 0) \in Nat
      OBVIOUS
    <3>1. \A t \in Times : t >= 0 => (a[t] = 0 \/ (t >= 0 /\ a[t] <= b[t]))
      OBVIOUS
    <3> QED BY <1>t, <3>1, TotalOrder
  <2>2. Total(kept, 0) <= Total(recorded', 0) /\ Total(kept, 0) \in Nat /\ Total(recorded', 0) \in Nat
    BY <1>2, <1>4, <1>7, <2>1
  <2> QED BY <1>2, <1>t, <2>2
<1> DEFINE k1 == [caller[c] EXCEPT !.op = "counted"]
           k2 == [k1 EXCEPT !.count = Total(kept, 0)]
<1>9. k2 \in CallerShape /\ k2.op = "counted" /\ k2.count = Total(kept, 0)
  <2>1. caller[c] \in CallerShape
    BY <1>t
  <2>2. k1 \in CallerShape /\ k1.op = "counted"
    BY <2>1 DEF CallerShape
  <2> HIDE DEF k1
  <2> QED BY <1>8, <2>2 DEF CallerShape
<1>10. caller' = [caller EXCEPT ![c] = k2]
  BY <1>7, <1>t
<1> HIDE DEF k2
<1>11. /\ caller' \in [Callers -> CallerShape] /\ caller'[c] = k2
       /\ \A d \in Callers : d # c => caller'[d] = caller[d]
  BY <1>9, <1>10, <1>t
<1>12. VelocityTypeOK'
  BY <1>0, <1>2, <1>5, <1>11, <1>t DEF VelocityTypeOK, CallerShape
<1>13. ASSUME NEW d \in Callers PROVE UnderWay(d)'
  <2>1. CASE d = c
    BY <1>9, <1>11, <2>1 DEF UnderWay
  <2>2. CASE d # c
    BY <1>2, <1>11, <2>2 DEF VelocityInv, UnderWay
  <2> QED BY <2>1, <2>2
<1> QED BY <1>2, <1>4, <1>12, <1>13 DEF VelocityInv

\* The invariant of the velocity counter is inductive.
LEMMA VelocityPreserved ==
  ASSUME VelocityAssumption, VelocityInv, [VelocityNext]_velocityVars PROVE VelocityInv'
<1>1. CASE Elapse
  BY <1>1, ElapseKeeps
<1>2. ASSUME NEW c \in Callers, Call(c) \/ CallRaises(c) PROVE VelocityInv'
  BY <1>2, CallKeeps
<1>3. ASSUME NEW c \in Callers, Increment(c) \/ GetCount(c) PROVE VelocityInv'
  BY <1>3, PipelineIs, PipelineKeeps
<1>4. CASE UNCHANGED velocityVars
  <2>1. UNCHANGED <<second, caller, events, deadline, recorded, shortest, newest>>
    BY <1>4 DEF velocityVars, windowVars
  <2> QED BY <2>1 DEF VelocityInv, VelocityTypeOK, Kept, UnderWay
<1> QED BY <1>1, <1>2, <1>3, <1>4 DEF VelocityNext

\* What CountsExplained says of one caller and one step.
CountExplained(c) ==
  caller[c].op \in {"increment", "get_count"} /\ caller'[c].op = "counted" =>
    LET cut  == caller[c].now - caller[c].window
        real == Total(recorded', cut + 1)
    IN /\ \A n \in 1..MaxRecorded : ThresholdMet(caller'[c].count, n) => n <= real
       /\ caller'[c].count < real =>
            shortest < caller[c].window \/ newest > caller[c].now

\* What a pipeline answers is explained.
LEMMA PipelineCounts ==
  ASSUME VelocityAssumption, VelocityInv, NEW c \in Callers, Pipeline(c) PROVE CountExplained(c)
<1>t. /\ MaxTime \in Nat /\ MaxDelay \in Nat /\ Margin \in Nat /\ MaxDelay <= Margin
      /\ Times \subseteq Nat /\ second \in Nat /\ newest \in Nat /\ shortest \in Nat
      /\ events \in Marks /\ recorded \in Marks /\ caller \in [Callers -> CallerShape]
      /\ caller[c].now \in Nat /\ caller[c].window \in Nat
  BY VelocityTypes DEF VelocityInv
<1>1. Bounds(c) /\ \A t \in Times : \E extra : Left(c, t, extra)
  BY PipelineLeaves
<1> DEFINE now == caller[c].now
           w == caller[c].window
           cut == now - w
<1>2. PICK kept \in Marks : Answered(c, kept)
  BY DEF Pipeline
<1>3. events' = kept /\ caller'[c].count = Total(kept, 0)
  <2>1. events' = kept /\ caller' = [caller EXCEPT ![c].op = "counted", ![c].count = Total(kept, 0)]
    BY <1>2 DEF Answered
  <2> DEFINE k1 == [caller[c] EXCEPT !.op = "counted"]
             k2 == [k1 EXCEPT !.count = Total(kept, 0)]
  <2>2. caller[c] \in CallerShape
    BY <1>t
  <2>3. k2.count = Total(kept, 0)
    BY <2>2 DEF CallerShape
  <2>4. caller' = [caller EXCEPT ![c] = k2]
    BY <2>1, <1>t
  <2> HIDE DEF k2
  <2>5. caller'[c] = k2
    BY <1>t, <2>4
  <2> QED BY <2>1, <2>3, <2>5
<1>4. recorded' \in Marks /\ cut + 1 \in Int /\ 0 \in Int
  BY <1>1, <1>t DEF Bounds
<1>5. ASSUME NEW t \in Times, kept[t] # 0 PROVE t >= cut + 1 /\ kept[t] <= recorded'[t]
  <2>1. PICK x : /\ x \in {0, 1} /\ (x = 1 => t = now) /\ recorded'[t] = recorded[t] + x
                 /\ kept[t] = (IF t <= now - w THEN 0 ELSE events[t]) + x
    BY <1>1, <1>3 DEF Left
  <2>2. events[t] \in Nat /\ recorded[t] \in Nat /\ events[t] <= recorded[t] /\ t \in Nat
    BY <1>t DEF VelocityInv, Marks
  <2>3. w >= 1
    BY <1>2, <1>t DEF VelocityInv, UnderWay, Answered
  <2> DEFINE e == events[t]
             r == recorded[t]
             k == kept[t]
  <2>4. e \in Nat /\ r \in Nat /\ e <= r /\ k # 0 /\ k = (IF t <= now - w THEN 0 ELSE e) + x
        /\ now \in Nat /\ w \in Nat
    BY <1>5, <1>t, <2>1, <2>2
  <2> HIDE DEF e, r, k, now, w, cut
  <2>5. k <= r + x
    BY <2>1, <2>2, <2>4
  <2>6. t >= now - w + 1
    BY <2>1, <2>2, <2>3, <2>4
  <2> QED BY <2>1, <2>5, <2>6 DEF r, k, cut
<1>6. Total(kept, 0) <= Total(recorded', cut + 1) /\ Total(kept, 0) \in Nat
      /\ Total(recorded', cut + 1) \in Nat
  <2> HIDE DEF cut
  <2>1. \A b \in Marks : (\A t \in Times : kept[t] # 0 => t >= cut + 1 /\ kept[t] <= b[t])
          => Total(kept, 0) <= Total(b, cut + 1) /\ Total(kept, 0) \in Nat /\ Total(b, cut + 1) \in Nat
    <3> SUFFICES ASSUME NEW b \in Marks, \A t \in Times : kept[t] # 0 => t >= cut + 1 /\ kept[t] <= b[t]
                 PROVE  Total(kept, 0) <= Total(b, cut + 1) /\ Total(kept, 0) \in Nat
                        /\ Total(b, cut + 1) \in Nat
      OBVIOUS
    <3>1. \A t \in Times : t >= 0 => (kept[t] = 0 \/ (t >= cut + 1 /\ kept[t] <= b[t]))
      OBVIOUS
    <3> QED BY <1>4, <1>t, <3>1, TotalOrder
  <2> QED BY <1>4, <1>5, <2>1
<1>7. ASSUME ~(shortest < w \/ newest > now) PROVE Total(recorded', cut + 1) <= Total(kept, 0)
  <2>1. shortest >= w /\ newest <= now
    BY <1>t, <1>7
  <2>2. ASSUME NEW t \in Times, t >= cut + 1 PROVE recorded'[t] <= kept[t] /\ t >= 0
    <3>1. PICK x : /\ x \in {0, 1} /\ recorded'[t] = recorded[t] + x
                   /\ kept[t] = (IF t <= now - w THEN 0 ELSE events[t]) + x
      BY <1>1, <1>3 DEF Left
    <3>2. events[t] \in Nat /\ recorded[t] \in Nat /\ t \in Nat /\ Kept(t)
      BY <1>t DEF VelocityInv, Marks
    <3>3. ~(t <= now - w)
      BY <1>t, <2>2, <3>2
    <3>4. recorded[t] > 0 => events[t] = recorded[t]
      <4> SUFFICES ASSUME recorded[t] > 0, events[t] # recorded[t] PROVE FALSE
        OBVIOUS
      <4>1. t <= newest - shortest \/ second >= t + shortest + Margin
        BY <3>2 DEF Kept
      <4>2. second <= now + MaxDelay
        BY <1>2 DEF VelocityInv, UnderWay, Answered
      <4>3. now \in Nat /\ w \in Nat /\ ~(t <= now - w)
        BY <1>t, <3>3
      <4> HIDE DEF now, w
      <4> QED BY <1>t, <2>1, <3>2, <4>1, <4>2, <4>3
    <3>5. recorded[t] <= events[t]
      BY <3>2, <3>4
    <3> DEFINE a == recorded[t]
               b == events[t]
    <3>6. a \in Nat /\ b \in Nat /\ a <= b /\ recorded'[t] = a + x /\ kept[t] = b + x
      BY <3>1, <3>2, <3>3, <3>5
    <3> HIDE DEF a, b
    <3> QED BY <3>1, <3>2, <3>6
  <2>3. \A b \in Marks : (\A t \in Times : t >= cut + 1 => b[t] <= kept[t] /\ t >= 0)
                         => Total(b, cut + 1) <= Total(kept, 0)
    <3> HIDE DEF cut
    <3> SUFFICES ASSUME NEW b \in Marks, \A t \in Times : t >= cut + 1 => b[t] <= kept[t] /\ t >= 0
                 PROVE  Total(b, cut + 1) <= Total(kept, 0)
      OBVIOUS
    <3>1. \A t \in Times : t >= cut + 1 => (b[t] = 0 \/ (t >= 0 /\ b[t] <= kept[t]))
      OBVIOUS
    <3> QED BY <1>4, <1>t, <3>1, TotalOrder
  <2> HIDE DEF cut
  <2> QED BY <1>4, <2>2, <2>3
<1> DEFINE real == Total(recorded', cut + 1)
           count == caller'[c].count
<1>8. count <= real /\ count \in Nat /\ real \in Nat
  BY <1>3, <1>6
<1>9. count < real => shortest < w \/ newest > now
  BY <1>3, <1>6, <1>7
<1>10. \A n \in 1..MaxRecorded : ThresholdMet(count, n) => n <= real
  <2> HIDE DEF count, real
  <2> QED BY <1>8 DEF ThresholdMet
<1> QED BY <1>9, <1>10 DEF CountExplained

\* So is what any step answers to any caller.
LEMMA VelocityCounts ==
  ASSUME VelocityAssumption, VelocityInv, [VelocityNext]_velocityVars, NEW c \in Callers
  PROVE  CountExplained(c)
<1>0. caller \in [Callers -> CallerShape]
  BY VelocityTypes DEF VelocityInv
<1>1. ASSUME caller' = caller PROVE CountExplained(c)
  BY <1>1 DEF CountExplained
<1>2. ASSUME NEW d \in Callers, Call(d) \/ CallRaises(d) PROVE CountExplained(c)
  <2>1. PICK k : caller' = [caller EXCEPT ![d] = k] /\ (caller[d].op \in {"increment", "get_count"} => k = Idle)
    <3>1. CASE Call(d)
      BY <3>1 DEF Call
    <3>2. CASE CallRaises(d)
      BY <3>2 DEF CallRaises
    <3> QED BY <1>2, <3>1, <3>2
  <2>2. CASE c = d
    BY <1>0, <2>1, <2>2 DEF CountExplained, Idle
  <2>3. CASE c # d
    BY <1>0, <2>1, <2>3 DEF CountExplained
  <2> QED BY <2>2, <2>3
<1>3. ASSUME NEW d \in Callers, Increment(d) \/ GetCount(d) PROVE CountExplained(c)
  <2>1. Pipeline(d)
    BY <1>3, PipelineIs
  <2>2. CASE c = d
    BY <2>1, <2>2, PipelineCounts
  <2>3. CASE c # d
    <3>1. PICK kept \in Marks : caller' = [caller EXCEPT ![d].op = "counted", ![d].count = Total(kept, 0)]
      BY <2>1 DEF Pipeline, Answered
    <3>2. caller'[c] = caller[c]
      BY <1>0, <2>3, <3>1
    <3> QED BY <3>2 DEF CountExplained
  <2> QED BY <2>2, <2>3
<1>4. CASE Elapse \/ UNCHANGED velocityVars
  BY <1>1, <1>4 DEF Elapse, velocityVars
<1> QED BY <1>2, <1>3, <1>4 DEF VelocityNext
-----------------------------------------------------------------------------
(* StreamProcessor *)
\* The types of the stream processor, with what its workers carry: a transaction to
\* add, or something to publish.
Kinds == {"breach", "pattern", "update"}
StreamPlaces == {"off", "poll", "add", "read", "publish", "ended"}
StreamShape(q) == [at : StreamPlaces, next : 1..(Len(q) + 1), txn : 0..Len(q), stamp : 0..Horizon,
                   todo : Seq(Kinds)]
Carrying(v, q) == /\ v.at = "add" => v.txn \in 1..Len(q) /\ q[v.txn] \in Txns
                  /\ v.at = "publish" => v.todo # <<>>
StreamInv ==
  /\ ticks \in 0..Horizon /\ topic \in Seq(Txns \cup Odd) /\ offset \in 1..(Len(topic) + 1)
  /\ holder \in Workers \cup {Nobody} /\ handovers \in 0..MaxHandovers
  /\ worker \in [Workers -> StreamShape(topic)] /\ \A w \in Workers : Carrying(worker[w], topic)
  /\ sliding \subseteq live /\ live \subseteq delivered
  /\ \A d \in delivered : d.txn \in 1..Len(topic) /\ topic[d.txn] \in Txns

\* They contain the types of the module.
LEMMA StreamTypesSafe == StreamInv => StreamTypeOK
<1> SUFFICES ASSUME StreamInv PROVE StreamTypeOK
  OBVIOUS
<1>1. topic \in Seq(Txns \cup Odd) /\ DOMAIN topic = 1..Len(topic)
  BY DEF StreamInv
<1>2. \A n \in DOMAIN topic : topic[n] \in Txns \cup Odd
  BY <1>1
<1>3. ASSUME NEW w \in Workers
      PROVE  /\ worker[w].at \in {"off", "poll", "add", "read", "publish", "ended"}
             /\ worker[w].todo \in Seq({"breach", "pattern", "update"})
             /\ worker[w].next \in 1..Len(topic) + 1 /\ worker[w].txn \in 0..Len(topic)
  <2>1. worker[w] \in StreamShape(topic)
    BY DEF StreamInv
  <2> QED BY <2>1 DEF StreamShape, StreamPlaces, Kinds
<1> QED BY <1>1, <1>2, <1>3 DEF StreamInv, StreamTypeOK

\* They hold at the start.
LEMMA StreamInitial == StreamAssumption /\ StreamInit => StreamInv
<1> SUFFICES ASSUME StreamAssumption, StreamInit PROVE StreamInv
  OBVIOUS
<1>1. /\ ticks = 0 /\ topic = <<>> /\ offset = 1 /\ holder = Nobody /\ handovers = 0
      /\ worker = [w \in Workers |-> Down] /\ live = {} /\ sliding = {} /\ delivered = {}
  BY DEF StreamInit
<1>2. topic \in Seq(Txns \cup Odd) /\ Len(topic) = 0 /\ 0 \in 0..Horizon /\ 0 \in 0..MaxHandovers
      /\ <<>> \in Seq(Kinds)
  BY <1>1 DEF StreamAssumption
<1>3. Down \in StreamShape(topic) /\ Down.at = "off"
  BY <1>2 DEF Down, StreamShape, StreamPlaces, NoTxn
<1>4. worker \in [Workers -> StreamShape(topic)] /\ \A w \in Workers : worker[w].at = "off"
  BY <1>1, <1>3
<1>5. offset \in 1..(Len(topic) + 1)
  BY <1>1, <1>2
<1> QED BY <1>1, <1>2, <1>4, <1>5 DEF StreamInv, Carrying

\* A record is appended.
LEMMA StreamOfTopic ==
  ASSUME StreamInv, NEW r \in Txns \cup Odd, topic' = Append(topic, r),
         UNCHANGED <<ticks, offset, holder, worker, redis, handovers>>
  PROVE  StreamInv'
<1>1. /\ topic \in Seq(Txns \cup Odd) /\ Len(topic) \in Nat
      /\ UNCHANGED <<ticks, offset, holder, worker, live, sliding, delivered, handovers>>
  BY DEF StreamInv, redis
<1>2. /\ topic' \in Seq(Txns \cup Odd) /\ Len(topic') = Len(topic) + 1
      /\ \A n \in 1..Len(topic) : topic'[n] = topic[n]
  BY <1>1
<1>3. /\ 1..(Len(topic) + 1) \subseteq 1..(Len(topic') + 1) /\ 0..Len(topic) \subseteq 0..Len(topic')
      /\ 1..Len(topic) \subseteq 1..Len(topic')
  BY <1>1, <1>2
<1>4. StreamShape(topic) \subseteq StreamShape(topic')
  BY <1>3 DEF StreamShape
<1>5. worker \in [Workers -> StreamShape(topic')]
  BY <1>4 DEF StreamInv
<1>6. \A w \in Workers : Carrying(worker[w], topic')
  BY <1>2, <1>3 DEF StreamInv, Carrying
<1>7. \A d \in delivered : d.txn \in 1..Len(topic') /\ topic'[d.txn] \in Txns
  BY <1>2, <1>3 DEF StreamInv
<1>8. offset \in 1..(Len(topic') + 1)
  BY <1>3 DEF StreamInv
<1> QED BY <1>1, <1>2, <1>5, <1>6, <1>7, <1>8 DEF StreamInv

\* A step of one worker, which is then v.
LEMMA StreamOfWorker ==
  ASSUME StreamInv, NEW w \in Workers, NEW v \in StreamShape(topic), Carrying(v, topic),
         worker' = [worker EXCEPT ![w] = v], UNCHANGED <<ticks, topic>>,
         offset' \in 1..(Len(topic) + 1), holder' \in Workers \cup {Nobody}, handovers' \in 0..MaxHandovers,
         sliding' \subseteq live', live' \subseteq delivered',
         \A d \in delivered' : d.txn \in 1..Len(topic) /\ topic[d.txn] \in Txns
  PROVE  StreamInv'
<1>1. worker' \in [Workers -> StreamShape(topic)] /\ worker'[w] = v
      /\ \A u \in Workers : u # w => worker'[u] = worker[u]
  BY DEF StreamInv
<1>2. \A u \in Workers : Carrying(worker'[u], topic)
  BY <1>1 DEF StreamInv
<1> QED BY <1>1, <1>2 DEF StreamInv

\* The types, one by one.
LEMMA StreamWorker ==
  ASSUME StreamInv, NEW w \in Workers
  PROVE  /\ worker[w] \in StreamShape(topic) /\ Carrying(worker[w], topic) /\ worker[w].at \in StreamPlaces
         /\ worker[w].next \in 1..(Len(topic) + 1) /\ worker[w].txn \in 0..Len(topic)
         /\ worker[w].stamp \in 0..Horizon /\ worker[w].todo \in Seq(Kinds)
         /\ topic \in Seq(Txns \cup Odd) /\ Len(topic) \in Nat /\ ticks \in 0..Horizon
         /\ offset \in 1..(Len(topic) + 1) /\ holder \in Workers \cup {Nobody}
         /\ handovers \in 0..MaxHandovers /\ sliding \subseteq live /\ live \subseteq delivered
         /\ \A d \in delivered : d.txn \in 1..Len(topic) /\ topic[d.txn] \in Txns
<1>1. worker[w] \in StreamShape(topic)
  BY DEF StreamInv
<1> QED BY <1>1 DEF StreamInv, StreamShape

\* Fresh records of a worker's shape.
LEMMA StreamRecord ==
  ASSUME NEW q, NEW a \in StreamPlaces, NEW n \in 1..(Len(q) + 1), NEW t \in 0..Len(q), NEW s \in 0..Horizon,
         NEW todo \in Seq(Kinds)
  PROVE  [at |-> a, next |-> n, txn |-> t, stamp |-> s, todo |-> todo] \in StreamShape(q)
BY DEF StreamShape

\* Evaluate always publishes an update.
LEMMA EvaluateShape == ASSUME NEW snap PROVE Evaluate(snap) \in Seq(Kinds) /\ Evaluate(snap) # <<>>
<1> DEFINE a == IF Breached(snap) THEN <<"breach">> ELSE <<>>
           b == IF Patterned(snap) THEN <<"pattern">> ELSE <<>>
           u == <<"update">>
           e == (a \o b) \o u
<1>0. <<"breach">> \in Seq(Kinds) /\ <<"pattern">> \in Seq(Kinds) /\ <<>> \in Seq(Kinds)
  BY DEF Kinds
<1>1. a \in Seq(Kinds) /\ b \in Seq(Kinds)
  BY <1>0
<1>2. Evaluate(snap) = e
  BY DEF Evaluate
<1>3. u \in Seq(Kinds) /\ Len(u) = 1
  BY DEF Kinds
<1> HIDE DEF a, b, u
<1> DEFINE c == a \o b
<1>4. c \in Seq(Kinds) /\ Len(c) \in Nat
  BY <1>1
<1> HIDE DEF c
<1>5. e = c \o u
  BY DEF c
<1>6. e \in Seq(Kinds) /\ Len(e) = Len(c) + 1
  <2>1. c \o u \in Seq(Kinds) /\ Len(c \o u) = Len(c) + Len(u)
    BY <1>3, <1>4, ConcatProperties
  <2> QED BY <1>3, <1>5, <2>1
<1> HIDE DEF e
<1>7. e # <<>>
  <2>1. Len(e) # 0
    BY <1>4, <1>6
  <2> QED BY <1>6, <2>1, EmptySeq
<1> QED BY <1>2, <1>6, <1>7

\* What Read and Publish make of a worker.
LEMMA PublishShape ==
  ASSUME NEW q, NEW x \in StreamShape(q), NEW todo, NEW a
  PROVE  [x EXCEPT !.todo = todo, !.at = a] =
           [at |-> a, next |-> x.next, txn |-> x.txn, stamp |-> x.stamp, todo |-> todo]
<1> DEFINE y == [x EXCEPT !.todo = todo]
<1>1. x = [at |-> x.at, next |-> x.next, txn |-> x.txn, stamp |-> x.stamp, todo |-> x.todo]
  BY DEF StreamShape
<1>2. y = [at |-> x.at, next |-> x.next, txn |-> x.txn, stamp |-> x.stamp, todo |-> todo]
  BY <1>1
<1>3. [x EXCEPT !.todo = todo, !.at = a] = [y EXCEPT !.at = a]
  OBVIOUS
<1> HIDE DEF y
<1>4. [y EXCEPT !.at = a] = [at |-> a, next |-> x.next, txn |-> x.txn, stamp |-> x.stamp, todo |-> todo]
  BY <1>2
<1> QED BY <1>3, <1>4

\* The same of what Read leaves.
LEMMA ReadShape ==
  ASSUME NEW q, NEW x \in StreamShape(q), NEW todo, NEW t, NEW s, NEW a
  PROVE  [x EXCEPT !.at = a, !.txn = t, !.stamp = s, !.todo = todo] =
           [at |-> a, next |-> x.next, txn |-> t, stamp |-> s, todo |-> todo]
<1> DEFINE y1 == [x EXCEPT !.at = a]
           y2 == [y1 EXCEPT !.txn = t]
           y3 == [y2 EXCEPT !.stamp = s]
           y4 == [y3 EXCEPT !.todo = todo]
<1>1. x = [at |-> x.at, next |-> x.next, txn |-> x.txn, stamp |-> x.stamp, todo |-> x.todo]
  BY DEF StreamShape
<1>6. [x EXCEPT !.at = a, !.txn = t, !.stamp = s, !.todo = todo] = y4
  OBVIOUS
<1>2. y1 = [at |-> a, next |-> x.next, txn |-> x.txn, stamp |-> x.stamp, todo |-> x.todo]
  BY <1>1
<1> HIDE DEF y1
<1>3. y2 = [at |-> a, next |-> x.next, txn |-> t, stamp |-> x.stamp, todo |-> x.todo]
  BY <1>2
<1> HIDE DEF y2
<1>4. y3 = [at |-> a, next |-> x.next, txn |-> t, stamp |-> s, todo |-> x.todo]
  BY <1>3
<1> HIDE DEF y3
<1>5. y4 = [at |-> a, next |-> x.next, txn |-> t, stamp |-> s, todo |-> todo]
  BY <1>4
<1> HIDE DEF y4
<1> QED BY <1>5, <1>6

\* Every step keeps the types.
LEMMA StreamPreserved ==
  ASSUME StreamAssumption, StreamInv, [StreamNext]_streamVars PROVE StreamInv'
<1>t. /\ topic \in Seq(Txns \cup Odd) /\ Len(topic) \in Nat /\ ticks \in 0..Horizon /\ Horizon \in Nat
      /\ offset \in 1..(Len(topic) + 1) /\ holder \in Workers \cup {Nobody}
      /\ handovers \in 0..MaxHandovers /\ MaxHandovers \in Nat
      /\ sliding \subseteq live /\ live \subseteq delivered
      /\ \A d \in delivered : d.txn \in 1..Len(topic) /\ topic[d.txn] \in Txns
  BY DEF StreamInv, StreamAssumption
<1>d. Down \in StreamShape(topic) /\ Down.at = "off" /\ Carrying(Down, topic)
  <2>1. 1 \in 1..(Len(topic) + 1) /\ 0 \in 0..Len(topic) /\ 0 \in 0..Horizon /\ <<>> \in Seq(Kinds)
        /\ "off" \in StreamPlaces
    BY <1>t DEF StreamPlaces
  <2> QED BY <2>1 DEF Down, StreamShape, NoTxn, Carrying
<1>1. CASE Transact \/ TransactOddly
  BY <1>1, StreamOfTopic DEF Transact, TransactOddly
<1>2. CASE AdvanceTime
  <2>1. ticks' \in 0..Horizon /\ UNCHANGED <<topic, offset, holder, worker, delivered, handovers>>
        /\ sliding' \subseteq live' /\ live' \subseteq delivered
    BY <1>2, <1>t DEF AdvanceTime
  <2> QED BY <2>1 DEF StreamInv
<1>3. ASSUME NEW w \in Workers, StartWorker(w) PROVE StreamInv'
  <2> DEFINE v == [Down EXCEPT !.at = "poll"]
  <2>1. worker' = [worker EXCEPT ![w] = v] /\ UNCHANGED <<ticks, topic, offset, holder, live, sliding, delivered, handovers>>
    BY <1>3 DEF StartWorker, redis
  <2>2. v \in StreamShape(topic) /\ Carrying(v, topic)
    BY <1>d DEF StreamShape, StreamPlaces, Carrying
  <2> HIDE DEF v
  <2> QED BY <1>t, <2>1, <2>2, StreamOfWorker
<1>4. ASSUME NEW w \in Workers, AssignStream(w) PROVE StreamInv'
  <2> DEFINE v == [worker[w] EXCEPT !.next = offset]
  <2>1. worker' = [worker EXCEPT ![w] = v] /\ UNCHANGED <<ticks, topic, offset, live, sliding, delivered>>
        /\ holder' = w /\ handovers' = handovers + 1 /\ handovers < MaxHandovers
    BY <1>4 DEF AssignStream, redis
  <2>2. v \in StreamShape(topic) /\ Carrying(v, topic)
    BY <1>t, StreamWorker DEF StreamShape, Carrying
  <2>3. handovers' \in 0..MaxHandovers /\ holder' \in Workers \cup {Nobody}
    BY <1>t, <2>1
  <2> HIDE DEF v
  <2> QED BY <1>t, <2>1, <2>2, <2>3, StreamOfWorker
<1>5. ASSUME NEW w \in Workers, CommitStream(w) PROVE StreamInv'
  <2>1. UNCHANGED <<ticks, topic, holder, worker, live, sliding, delivered, handovers>>
        /\ offset' \in 1..(Len(topic) + 1)
    BY <1>5, StreamWorker DEF CommitStream, redis
  <2> QED BY <2>1 DEF StreamInv
<1>6. ASSUME NEW w \in Workers, StopWorker(w) \/ CrashWorker(w) PROVE StreamInv'
  <2>1. worker' = [worker EXCEPT ![w] = Down] /\ UNCHANGED <<ticks, topic, live, sliding, delivered, handovers>>
        /\ offset' \in {offset, worker[w].next} /\ holder' \in {holder, Nobody}
    BY <1>6 DEF StopWorker, CrashWorker, redis
  <2>2. offset' \in 1..(Len(topic) + 1) /\ holder' \in Workers \cup {Nobody}
    <3>1. worker[w].next \in 1..(Len(topic) + 1)
      BY StreamWorker
    <3> QED BY <1>t, <2>1, <3>1
  <2> QED BY <1>d, <1>t, <2>1, <2>2, StreamOfWorker
<1>7. ASSUME NEW w \in Workers, Poll(w) PROVE StreamInv'
  <2> DEFINE n == worker[w].next
             took == [worker[w] EXCEPT !.next = n + 1]
             v == CASE topic[n].kind = "skip" -> took
                    [] topic[n].kind = "bad" -> [took EXCEPT !.at = "ended"]
                    [] OTHER -> [took EXCEPT !.at = "add", !.txn = n, !.stamp = ticks]
  <2>1. worker' = [worker EXCEPT ![w] = v] /\ worker[w].at = "poll" /\ n <= Len(topic)
        /\ UNCHANGED <<ticks, topic, offset, holder, live, sliding, delivered, handovers>>
    BY <1>7 DEF Poll, redis
  <2>2. n \in 1..Len(topic) /\ n + 1 \in 1..(Len(topic) + 1) /\ n \in 0..Len(topic)
    BY <1>t, <2>1, StreamWorker
  <2>3. topic[n] \in Txns \cup Odd
    BY <1>t, <2>2
  <2> HIDE DEF n
  <2>4. took \in StreamShape(topic) /\ took.at = "poll"
    BY <2>1, <2>2, StreamWorker DEF StreamShape
  <2>5. v \in StreamShape(topic) /\ Carrying(v, topic)
    <3> HIDE DEF took
    <3>1. CASE topic[n].kind = "skip"
      BY <2>4, <3>1 DEF Carrying
    <3>2. CASE topic[n].kind = "bad"
      <4>1. v = [took EXCEPT !.at = "ended"] /\ "ended" \in StreamPlaces
        BY <3>2 DEF StreamPlaces
      <4> HIDE DEF v
      <4>2. v \in StreamShape(topic) /\ v.at = "ended"
        BY <2>4, <4>1 DEF StreamShape
      <4> QED BY <4>2 DEF Carrying
    <3>3. CASE topic[n].kind \notin {"skip", "bad"}
      <4>1. topic[n] \in Txns
        BY <2>3, <3>3 DEF Odd
      <4>2. v = [took EXCEPT !.at = "add", !.txn = n, !.stamp = ticks] /\ "add" \in StreamPlaces
        BY <3>3 DEF StreamPlaces
      <4> HIDE DEF v
      <4>3. v \in StreamShape(topic) /\ v.at = "add" /\ v.txn = n
        BY <1>t, <2>2, <2>4, <4>2 DEF StreamShape
      <4> QED BY <2>2, <4>1, <4>3 DEF Carrying
    <3> QED BY <3>1, <3>2, <3>3
  <2> HIDE DEF v
  <2> QED BY <1>t, <2>1, <2>5, StreamOfWorker
<1>8. ASSUME NEW w \in Workers, RedisRaises(w) PROVE StreamInv'
  <2> DEFINE v == [Down EXCEPT !.at = "ended", !.next = worker[w].next]
  <2>1. worker' = [worker EXCEPT ![w] = v] /\ UNCHANGED <<ticks, topic, offset, holder, live, sliding, delivered, handovers>>
    BY <1>8 DEF RedisRaises, redis
  <2>2. v \in StreamShape(topic) /\ v.at = "ended"
    BY <1>d, StreamWorker DEF StreamShape, StreamPlaces
  <2>3. Carrying(v, topic)
    BY <2>2 DEF Carrying
  <2> HIDE DEF v
  <2> QED BY <1>t, <2>1, <2>2, <2>3, StreamOfWorker
<1>9. ASSUME NEW w \in Workers, Add(w) PROVE StreamInv'
  <2> DEFINE v == [worker[w] EXCEPT !.at = "read"]
             d == [txn |-> worker[w].txn, stamp |-> worker[w].stamp, at |-> ticks,
                   id |-> Cardinality(delivered)]
  <2>1. worker' = [worker EXCEPT ![w] = v] /\ UNCHANGED <<ticks, topic, offset, holder, handovers>>
        /\ worker[w].at = "add" /\ live' = live \cup {d} /\ delivered' = delivered \cup {d}
        /\ sliding' = {e \in sliding : e.stamp > d.stamp - WindowLen} \cup {d}
    BY <1>9 DEF Add, Step
  <2>2. d.txn \in 1..Len(topic) /\ topic[d.txn] \in Txns
    BY <2>1, StreamWorker DEF Carrying
  <2>3. v \in StreamShape(topic) /\ v.at = "read"
    BY StreamWorker DEF StreamShape, StreamPlaces
  <2>4. Carrying(v, topic)
    BY <2>3 DEF Carrying
  <2> HIDE DEF v, d
  <2>5. sliding' \subseteq live' /\ live' \subseteq delivered'
        /\ \A e \in delivered' : e.txn \in 1..Len(topic) /\ topic[e.txn] \in Txns
    BY <1>t, <2>1, <2>2
  <2> QED BY <1>t, <2>1, <2>3, <2>4, <2>5, StreamOfWorker
<1>10. ASSUME NEW w \in Workers, Read(w) PROVE StreamInv'
  <2> DEFINE todo == Evaluate([count |-> Cardinality(sliding), sum |-> SumOf(live),
                               countries |-> CountriesOf(live)])
             v == [worker[w] EXCEPT !.at = "publish", !.txn = 0, !.stamp = 0, !.todo = todo]
  <2>1. worker' = [worker EXCEPT ![w] = v] /\ UNCHANGED <<ticks, topic, offset, holder, live, sliding, delivered, handovers>>
    BY <1>10 DEF Read, redis, NoTxn
  <2>2. todo \in Seq(Kinds) /\ todo # <<>>
    BY EvaluateShape
  <2> HIDE DEF todo
  <2>3. v = [at |-> "publish", next |-> worker[w].next, txn |-> 0, stamp |-> 0, todo |-> todo]
    <3>1. worker[w] \in StreamShape(topic)
      BY StreamWorker
    <3>2. \A t, s, a : [worker[w] EXCEPT !.at = a, !.txn = t, !.stamp = s, !.todo = todo] =
             [at |-> a, next |-> worker[w].next, txn |-> t, stamp |-> s, todo |-> todo]
      BY <3>1, ReadShape
    <3> QED BY <3>2
  <2>4. v \in StreamShape(topic) /\ v.todo = todo
    <3>1. "publish" \in StreamPlaces /\ 0 \in 0..Len(topic) /\ 0 \in 0..Horizon
      BY <1>t DEF StreamPlaces
    <3> HIDE DEF v
    <3> QED BY <2>2, <2>3, <3>1, StreamWorker DEF StreamShape
  <2>5. Carrying(v, topic)
    BY <2>2, <2>3 DEF Carrying
  <2> HIDE DEF v
  <2> QED BY <1>t, <2>1, <2>4, <2>5, StreamOfWorker
<1>11. ASSUME NEW w \in Workers, Publish(w) PROVE StreamInv'
  <2> DEFINE todo == Tail(worker[w].todo)
             a == IF Len(worker[w].todo) = 1 THEN "poll" ELSE worker[w].at
             v == [worker[w] EXCEPT !.todo = todo, !.at = a]
  <2>1. worker' = [worker EXCEPT ![w] = v] /\ UNCHANGED <<ticks, topic, offset, holder, live, sliding, delivered, handovers>>
        /\ worker[w].at = "publish"
    BY <1>11 DEF Publish, redis
  <2>2. worker[w].todo \in Seq(Kinds) /\ worker[w].todo # <<>>
    BY <2>1, StreamWorker DEF Carrying
  <2>3. todo \in Seq(Kinds) /\ Len(todo) = Len(worker[w].todo) - 1
    BY <2>2
  <2>4. a \in StreamPlaces /\ a # "add" /\ (a = "publish" => Len(todo) # 0)
    BY <2>1, <2>2, <2>3 DEF StreamPlaces
  <2>5. a = "publish" => todo # <<>>
    BY <2>3, <2>4, EmptySeq
  <2> HIDE DEF todo, a
  <2>6. v = [at |-> a, next |-> worker[w].next, txn |-> worker[w].txn, stamp |-> worker[w].stamp, todo |-> todo]
    <3>1. worker[w] \in StreamShape(topic)
      BY StreamWorker
    <3> QED BY <3>1, PublishShape
  <2> HIDE DEF v
  <2>7. v \in StreamShape(topic) /\ v.todo = todo /\ v.at = a
    BY <2>3, <2>4, <2>6, StreamWorker DEF StreamShape
  <2>8. Carrying(v, topic)
    BY <2>4, <2>5, <2>7 DEF Carrying
  <2> QED BY <1>t, <2>1, <2>7, <2>8, StreamOfWorker
<1>12. CASE UNCHANGED streamVars
  <2>1. UNCHANGED <<ticks, topic, offset, holder, worker, live, sliding, delivered, handovers>>
    BY <1>12 DEF streamVars, redis
  <2> QED BY <2>1 DEF StreamInv
<1> QED BY <1>1, <1>2, <1>3, <1>4, <1>5, <1>6, <1>7, <1>8, <1>9, <1>10, <1>11, <1>12 DEF StreamNext
-----------------------------------------------------------------------------
\* How long the keys of a customer live after a transaction.
Life == WindowLen + KeyTail

\* Deliveries in time: what is gone has expired, what is there has a cover of later
\* deliveries, no more than Life apart.
Covered(d) == \A t \in d.at..ticks : \E e \in delivered : t \in e.at..(e.at + Life - 1)
DeliveredTimes ==
  /\ IsFiniteSet(delivered) /\ dueAt \in Nat
  /\ \A d \in delivered : /\ d.stamp \in Nat /\ d.at \in Nat
                          /\ d.stamp <= d.at /\ d.at <= ticks /\ d.at + Life <= dueAt
  /\ \A d \in delivered \ live : d.at + Life <= ticks
  /\ live # {} => sliding # {} /\ ticks < dueAt /\ \E e \in delivered : dueAt = e.at + Life
  /\ \A d \in live : Covered(d)
\* A worker adds within Lag of its clock, and nothing it reads is older than its window.
WorkerTimes(w) ==
  /\ worker[w].at \in {"add", "read"} => worker[w].stamp <= ticks
  /\ worker[w].at = "add" => ticks <= worker[w].stamp + Lag
  /\ worker[w].at = "read" => \A e \in sliding : e.stamp > worker[w].stamp - WindowLen
  /\ holder = w => worker[w].at # "off"
StreamTimes == DeliveredTimes /\ \A w \in Workers : WorkerTimes(w)

\* What one holder does: it delivers each transaction once and in order, and the sorted
\* set is the window that ends with the last one.
Occupied(w) == worker[w].at \in {"add", "read", "publish"}
Sole(w) ==
  /\ Occupied(w) => holder = w
  /\ holder = w => \A d \in delivered : d.txn < worker[w].next
  /\ worker[w].at = "add" =>
       /\ worker[w].txn < worker[w].next
       /\ \A d \in delivered : d.txn < worker[w].txn /\ d.stamp <= worker[w].stamp
  /\ worker[w].at = "read" =>
       /\ \E d \in delivered : d.stamp = worker[w].stamp
       /\ \A d \in delivered : d.stamp <= worker[w].stamp
Newest(m) == m \in delivered /\ \A d \in delivered : d.stamp <= m.stamp
StreamSolo == handovers <= 1 =>
  /\ handovers = 0 => holder = Nobody /\ delivered = {}
  /\ \A w \in Workers : Sole(w)
  /\ \A d, e \in delivered : d.txn = e.txn => d = e
  /\ sliding # {} => \E m : Newest(m) /\ sliding = Since(m.stamp)

\* The step of a worker that neither adds nor is assigned the partition.
Quiet(w) ==
  /\ UNCHANGED <<ticks, live, sliding, dueAt, delivered, handovers>>
  /\ \A u \in Workers \ {w} : worker'[u] = worker[u]
  /\ holder' = holder \/ (holder = w /\ holder' = Nobody /\ worker'[w].at = "off")
  /\ worker'[w].at = "off" => holder' # w
  /\ Occupied(w)' => Occupied(w) \/ holder = w
  /\ holder' = w => worker'[w].next >= worker[w].next
  /\ worker'[w].at = "read" => worker[w].at = "read" /\ worker'[w].stamp = worker[w].stamp
  /\ worker'[w].at = "add" =>
       \/ /\ worker[w].at = "add" /\ worker'[w].stamp = worker[w].stamp
          /\ worker'[w].txn = worker[w].txn /\ worker'[w].next = worker[w].next
       \/ /\ holder = w /\ worker'[w].stamp = ticks
          /\ worker'[w].txn = worker[w].next /\ worker'[w].next = worker[w].next + 1

\* One worker changes.
LEMMA StreamChanged ==
  ASSUME StreamInv, NEW w \in Workers, NEW v, worker' = [worker EXCEPT ![w] = v]
  PROVE  worker'[w] = v /\ \A u \in Workers \ {w} : worker'[u] = worker[u]
BY DEF StreamInv

\* Every other step of a worker is such a step.
LEMMA StreamQuiet ==
  ASSUME StreamAssumption, StreamInv, StreamTimes, NEW w \in Workers,
         \/ StartWorker(w) \/ CommitStream(w) \/ StopWorker(w) \/ CrashWorker(w) \/ Poll(w)
         \/ RedisRaises(w) \/ Read(w) \/ Publish(w)
  PROVE  Quiet(w)
<1>0. /\ worker[w] \in StreamShape(topic) /\ worker \in [Workers -> StreamShape(topic)]
      /\ worker[w].next \in Nat /\ (holder = w => worker[w].at # "off")
  BY StreamWorker DEF StreamTimes, WorkerTimes, StreamInv
<1>1. CASE StartWorker(w)
  <2> DEFINE v == [Down EXCEPT !.at = "poll"]
  <2>1. /\ worker' = [worker EXCEPT ![w] = v] /\ worker[w].at = "off"
        /\ UNCHANGED <<ticks, holder, live, sliding, dueAt, delivered, handovers>>
    BY <1>1 DEF StartWorker, redis
  <2>2. v.at = "poll"
    BY DEF Down
  <2> HIDE DEF v
  <2>3. worker'[w] = v /\ \A u \in Workers \ {w} : worker'[u] = worker[u]
    BY <2>1, StreamChanged
  <2> QED BY <1>0, <2>1, <2>2, <2>3 DEF Quiet, Occupied
<1>2. CASE CommitStream(w)
  <2>1. UNCHANGED <<ticks, holder, worker, live, sliding, dueAt, delivered, handovers>>
    BY <1>2 DEF CommitStream, redis
  <2> QED BY <1>0, <2>1 DEF Quiet, Occupied
<1>3. CASE StopWorker(w) \/ CrashWorker(w)
  <2>1. /\ worker' = [worker EXCEPT ![w] = Down]
        /\ holder' = IF holder = w THEN Nobody ELSE holder
        /\ UNCHANGED <<ticks, live, sliding, dueAt, delivered, handovers>>
    BY <1>3 DEF StopWorker, CrashWorker, redis
  <2>2. worker'[w] = Down /\ \A u \in Workers \ {w} : worker'[u] = worker[u]
    BY <2>1, StreamChanged
  <2>3. worker'[w].at = "off"
    BY <2>2 DEF Down
  <2>4. holder' # w
    BY <2>1
  <2> QED BY <2>1, <2>2, <2>3, <2>4 DEF Quiet, Occupied
<1>4. CASE Poll(w)
  <2> DEFINE n == worker[w].next
             took == [worker[w] EXCEPT !.next = n + 1]
             v == CASE topic[n].kind = "skip" -> took
                    [] topic[n].kind = "bad" -> [took EXCEPT !.at = "ended"]
                    [] OTHER -> [took EXCEPT !.at = "add", !.txn = n, !.stamp = ticks]
  <2>1. worker' = [worker EXCEPT ![w] = v] /\ worker[w].at = "poll" /\ holder = w
        /\ UNCHANGED <<ticks, holder, live, sliding, dueAt, delivered, handovers>>
    BY <1>4 DEF Poll, redis
  <2>2. worker'[w] = v /\ \A u \in Workers \ {w} : worker'[u] = worker[u]
    <3> HIDE DEF v
    <3> QED BY <2>1, StreamChanged
  <2>3. took = [at |-> "poll", next |-> n + 1, txn |-> worker[w].txn, stamp |-> worker[w].stamp,
                todo |-> worker[w].todo]
    <3>1. worker[w].at = "poll"
      BY <2>1
    <3>2. worker[w] = [at |-> "poll", next |-> n, txn |-> worker[w].txn, stamp |-> worker[w].stamp,
                       todo |-> worker[w].todo]
      BY <1>0, <3>1 DEF StreamShape
    <3> HIDE DEF n
    <3> QED BY <3>2
  <2> HIDE DEF n, took
  <2>4. \/ v.at = "poll" /\ v.next = n + 1
        \/ v.at = "ended" /\ v.next = n + 1
        \/ v.at = "add" /\ v.next = n + 1 /\ v.txn = n /\ v.stamp = ticks
    <3>1. CASE topic[n].kind = "skip"
      BY <2>3, <3>1
    <3>2. CASE topic[n].kind = "bad"
      <4>1. v = [took EXCEPT !.at = "ended"]
        BY <3>2
      <4> QED BY <2>3, <4>1
    <3>3. CASE topic[n].kind \notin {"skip", "bad"}
      <4>1. v = [took EXCEPT !.at = "add", !.txn = n, !.stamp = ticks]
        BY <3>3
      <4> QED BY <2>3, <4>1
    <3> QED BY <3>1, <3>2, <3>3
  <2> HIDE DEF v
  <2>5. n = worker[w].next /\ n \in Nat
    BY <1>0 DEF n
  <2> QED BY <2>1, <2>2, <2>4, <2>5 DEF Quiet, Occupied
<1>5. CASE RedisRaises(w)
  <2> DEFINE v == [Down EXCEPT !.at = "ended", !.next = worker[w].next]
  <2>1. /\ worker' = [worker EXCEPT ![w] = v]
        /\ UNCHANGED <<ticks, holder, live, sliding, dueAt, delivered, handovers>>
    BY <1>5 DEF RedisRaises, redis
  <2>2. v.at = "ended" /\ v.next = worker[w].next
    BY DEF Down
  <2> HIDE DEF v
  <2>3. worker'[w] = v /\ \A u \in Workers \ {w} : worker'[u] = worker[u]
    BY <2>1, StreamChanged
  <2> QED BY <1>0, <2>1, <2>2, <2>3 DEF Quiet, Occupied
<1>6. CASE Read(w)
  <2> DEFINE todo == Evaluate([count |-> Cardinality(sliding), sum |-> SumOf(live),
                               countries |-> CountriesOf(live)])
             v == [worker[w] EXCEPT !.at = "publish", !.txn = 0, !.stamp = 0, !.todo = todo]
  <2>1. worker' = [worker EXCEPT ![w] = v] /\ worker[w].at = "read"
        /\ UNCHANGED <<ticks, holder, live, sliding, dueAt, delivered, handovers>>
    BY <1>6 DEF Read, redis, NoTxn
  <2> HIDE DEF todo
  <2>2. v = [at |-> "publish", next |-> worker[w].next, txn |-> 0, stamp |-> 0, todo |-> todo]
    <3>1. \A t, s, a : [worker[w] EXCEPT !.at = a, !.txn = t, !.stamp = s, !.todo = todo] =
             [at |-> a, next |-> worker[w].next, txn |-> t, stamp |-> s, todo |-> todo]
      BY <1>0, ReadShape
    <3> QED BY <3>1
  <2> HIDE DEF v
  <2>3. worker'[w] = v /\ \A u \in Workers \ {w} : worker'[u] = worker[u]
    BY <2>1, StreamChanged
  <2>4. v.at = "publish" /\ v.next = worker[w].next
    BY <2>2
  <2> QED BY <1>0, <2>1, <2>3, <2>4 DEF Quiet, Occupied
<1>7. CASE Publish(w)
  <2> DEFINE todo == Tail(worker[w].todo)
             a == IF Len(worker[w].todo) = 1 THEN "poll" ELSE worker[w].at
             v == [worker[w] EXCEPT !.todo = todo, !.at = a]
  <2>1. worker' = [worker EXCEPT ![w] = v] /\ worker[w].at = "publish"
        /\ UNCHANGED <<ticks, holder, live, sliding, dueAt, delivered, handovers>>
    BY <1>7 DEF Publish, redis
  <2>2. a \in {"poll", "publish"}
    BY <2>1
  <2> HIDE DEF todo, a
  <2>3. v = [at |-> a, next |-> worker[w].next, txn |-> worker[w].txn, stamp |-> worker[w].stamp, todo |-> todo]
    BY <1>0, PublishShape
  <2> HIDE DEF v
  <2>4. worker'[w] = v /\ \A u \in Workers \ {w} : worker'[u] = worker[u]
    BY <2>1, StreamChanged
  <2>5. v.at \in {"poll", "publish"} /\ v.next = worker[w].next
    BY <2>2, <2>3
  <2> QED BY <1>0, <2>1, <2>4, <2>5 DEF Quiet, Occupied
<1> QED BY <1>1, <1>2, <1>3, <1>4, <1>5, <1>6, <1>7

\* A quiet step keeps the times.
LEMMA TimesOfQuiet ==
  ASSUME StreamAssumption, StreamInv, StreamTimes, NEW w \in Workers, Quiet(w)
  PROVE  StreamTimes'
<1>0. ticks \in Nat /\ Lag \in Nat
  BY DEF StreamInv, StreamAssumption
<1>1. UNCHANGED <<ticks, live, sliding, dueAt, delivered>>
  BY DEF Quiet
<1>2. DeliveredTimes'
  BY <1>1 DEF StreamTimes, DeliveredTimes, Covered, Life
<1>3. ASSUME NEW u \in Workers PROVE WorkerTimes(u)'
  <2>1. CASE u # w
    <3>1. worker'[u] = worker[u] /\ (holder' = u => holder = u)
      BY <2>1 DEF Quiet
    <3> QED BY <1>1, <3>1 DEF StreamTimes, WorkerTimes
  <2>2. CASE u = w
    BY <1>0, <1>1, <2>2 DEF StreamTimes, WorkerTimes, Quiet
  <2> QED BY <2>1, <2>2
<1> QED BY <1>2, <1>3 DEF StreamTimes

\* So does the assignment of the partition.
LEMMA TimesOfAssign ==
  ASSUME StreamInv, StreamTimes, NEW w \in Workers, AssignStream(w)
  PROVE  StreamTimes'
<1> DEFINE v == [worker[w] EXCEPT !.next = offset]
<1>1. /\ UNCHANGED <<ticks, live, sliding, dueAt, delivered>>
      /\ worker' = [worker EXCEPT ![w] = v] /\ worker[w].at # "off" /\ holder' = w
  BY DEF AssignStream, redis
<1>2. v.at = worker[w].at /\ v.stamp = worker[w].stamp
  BY StreamWorker DEF StreamShape
<1> HIDE DEF v
<1>3. worker'[w] = v /\ \A u \in Workers \ {w} : worker'[u] = worker[u]
  BY <1>1, StreamChanged
<1>4. DeliveredTimes'
  BY <1>1 DEF StreamTimes, DeliveredTimes, Covered, Life
<1>5. ASSUME NEW u \in Workers PROVE WorkerTimes(u)'
  <2>1. worker'[u].at = worker[u].at /\ worker'[u].stamp = worker[u].stamp
    BY <1>2, <1>3
  <2>2. holder' = u => worker'[u].at # "off"
    BY <1>1, <2>1
  <2> QED BY <1>1, <2>1, <2>2 DEF StreamTimes, WorkerTimes
<1> QED BY <1>4, <1>5 DEF StreamTimes

\* Time passes, and the keys may expire.
LEMMA TimesOfAdvance ==
  ASSUME StreamAssumption, StreamInv, StreamTimes, AdvanceTime
  PROVE  StreamTimes'
<1>1. /\ ticks' = ticks + 1 /\ UNCHANGED <<holder, worker, dueAt, delivered>>
      /\ dueAt <= ticks + 1 => live' = {} /\ sliding' = {}
      /\ ~(dueAt <= ticks + 1) => live' = live /\ sliding' = sliding
      /\ \A w \in Workers : worker[w].at = "add" => ticks < worker[w].stamp + Lag
  BY DEF AdvanceTime
<1>2. /\ ticks \in Nat /\ Lag \in Nat /\ WindowLen \in Nat /\ KeyTail \in Nat /\ Life \in Nat
      /\ live \subseteq delivered /\ sliding \subseteq live
  BY DEF StreamInv, StreamAssumption, Life
<1>3. /\ IsFiniteSet(delivered) /\ dueAt \in Nat
      /\ \A d \in delivered : /\ d.stamp \in Nat /\ d.at \in Nat
                              /\ d.stamp <= d.at /\ d.at <= ticks /\ d.at + Life <= dueAt
      /\ \A d \in delivered \ live : d.at + Life <= ticks
      /\ live # {} => sliding # {} /\ ticks < dueAt /\ \E e \in delivered : dueAt = e.at + Life
      /\ \A d \in live : Covered(d)
  BY DEF StreamTimes, DeliveredTimes
<1>4. \A w \in Workers : WorkerTimes(w)'
  <2> SUFFICES ASSUME NEW w \in Workers PROVE WorkerTimes(w)'
    OBVIOUS
  <2>1. WorkerTimes(w) /\ worker[w].stamp \in Nat
    BY StreamWorker DEF StreamTimes, StreamAssumption
  <2>2. sliding' \subseteq sliding
    BY <1>1
  <2> QED BY <1>1, <1>2, <2>1, <2>2 DEF WorkerTimes
<1>5. CASE dueAt <= ticks + 1
  <2>1. \A d \in delivered : d.at <= ticks + 1 /\ d.at + Life <= ticks + 1
    BY <1>2, <1>3, <1>5
  <2> QED BY <1>1, <1>3, <1>4, <1>5, <2>1 DEF StreamTimes, DeliveredTimes, Life
<1>6. CASE ~(dueAt <= ticks + 1)
  <2>1. live' = live /\ sliding' = sliding /\ ticks' < dueAt
    BY <1>1, <1>2, <1>3, <1>6
  <2>2. ASSUME NEW d \in live PROVE Covered(d)'
    <3> SUFFICES ASSUME NEW t \in d.at..ticks + 1
                 PROVE  \E e \in delivered : t \in e.at..(e.at + Life - 1)
      BY <1>1 DEF Covered, Life
    <3>1. CASE t \in d.at..ticks
      BY <1>3, <2>2, <3>1 DEF Covered
    <3>2. CASE t = ticks + 1
      <4>1. PICK e \in delivered : dueAt = e.at + Life
        BY <1>3, <2>2
      <4> QED BY <1>2, <1>3, <2>1, <1>1, <3>2, <4>1
    <3>3. d.at \in Nat
      BY <1>2, <1>3, <2>2
    <3> QED BY <1>2, <3>1, <3>2, <3>3
  <2>3. \A d \in delivered : d.at <= ticks + 1
    BY <1>2, <1>3
  <2>4. \A d \in delivered \ live : d.at + Life <= ticks + 1
    BY <1>2, <1>3
  <2> QED BY <1>1, <1>3, <1>4, <2>1, <2>2, <2>3, <2>4 DEF StreamTimes, DeliveredTimes, Life
<1> QED BY <1>5, <1>6

\* What Add changes.
LEMMA AddIs ==
  ASSUME StreamAssumption, StreamInv, NEW w \in Workers, Add(w)
  PROVE  \E d : /\ d.txn = worker[w].txn /\ d.stamp = worker[w].stamp /\ d.at = ticks
                /\ sliding' = {e \in sliding : e.stamp > d.stamp - WindowLen} \cup {d}
                /\ live' = live \cup {d} /\ delivered' = delivered \cup {d}
                /\ dueAt' = ticks + Life /\ worker[w].at = "add"
                /\ UNCHANGED <<ticks, holder, handovers>>
                /\ worker'[w].at = "read" /\ worker'[w].stamp = worker[w].stamp
                /\ worker'[w].next = worker[w].next
                /\ \A u \in Workers \ {w} : worker'[u] = worker[u]
<1> DEFINE v == [worker[w] EXCEPT !.at = "read"]
           d == [txn |-> worker[w].txn, stamp |-> worker[w].stamp, at |-> ticks,
                 id |-> Cardinality(delivered)]
<1>1. /\ worker' = [worker EXCEPT ![w] = v] /\ UNCHANGED <<ticks, holder, handovers>>
      /\ worker[w].at = "add" /\ live' = live \cup {d} /\ delivered' = delivered \cup {d}
      /\ sliding' = {e \in sliding : e.stamp > d.stamp - WindowLen} \cup {d}
      /\ dueAt' = (ticks + WindowLen) + KeyTail
  BY DEF Add, Step
<1>2. v.at = "read" /\ v.stamp = worker[w].stamp /\ v.next = worker[w].next
  BY StreamWorker DEF StreamShape
<1>3. d.txn = worker[w].txn /\ d.stamp = worker[w].stamp /\ d.at = ticks
  OBVIOUS
<1> HIDE DEF v, d
<1>4. worker'[w] = v /\ \A u \in Workers \ {w} : worker'[u] = worker[u]
  BY <1>1, StreamChanged
<1>5. dueAt' = ticks + Life
  <2>1. ticks \in Nat /\ WindowLen \in Nat /\ KeyTail \in Nat
    BY DEF StreamInv, StreamAssumption
  <2> QED BY <1>1, <2>1 DEF Life
<1> QED BY <1>1, <1>2, <1>3, <1>4, <1>5

\* So does a delivery.
LEMMA TimesOfAdd ==
  ASSUME StreamAssumption, StreamInv, StreamTimes, NEW w \in Workers, Add(w)
  PROVE  StreamTimes'
<1>1. PICK d : /\ d.txn = worker[w].txn /\ d.stamp = worker[w].stamp /\ d.at = ticks
               /\ sliding' = {e \in sliding : e.stamp > d.stamp - WindowLen} \cup {d}
               /\ live' = live \cup {d} /\ delivered' = delivered \cup {d}
               /\ dueAt' = ticks + Life /\ worker[w].at = "add"
               /\ UNCHANGED <<ticks, holder, handovers>>
               /\ worker'[w].at = "read" /\ worker'[w].stamp = worker[w].stamp
               /\ worker'[w].next = worker[w].next
               /\ \A u \in Workers \ {w} : worker'[u] = worker[u]
  BY AddIs
<1>2. /\ ticks \in Nat /\ Lag \in Nat /\ WindowLen \in Nat \ {0} /\ KeyTail \in Nat /\ Life \in Nat \ {0}
      /\ Lag <= KeyTail /\ Lag < WindowLen /\ Horizon \in Nat
      /\ live \subseteq delivered /\ sliding \subseteq live
  BY DEF StreamInv, StreamAssumption, Life
<1>3. /\ IsFiniteSet(delivered) /\ dueAt \in Nat
      /\ \A e \in delivered : /\ e.stamp \in Nat /\ e.at \in Nat
                              /\ e.stamp <= e.at /\ e.at <= ticks /\ e.at + Life <= dueAt
      /\ \A e \in delivered \ live : e.at + Life <= ticks
      /\ \A e \in live : Covered(e)
  BY DEF StreamTimes, DeliveredTimes
<1>4. \A u \in Workers : WorkerTimes(u) /\ worker[u].stamp \in Nat
  <2>1. \A u \in Workers : worker[u].stamp \in 0..Horizon
    BY StreamWorker
  <2> QED BY <1>2, <2>1 DEF StreamTimes
<1>5. d.stamp \in Nat /\ d.stamp <= ticks /\ ticks <= d.stamp + Lag
  BY <1>1, <1>4 DEF WorkerTimes
<1>6. \A u \in Workers : WorkerTimes(u)'
  <2> SUFFICES ASSUME NEW u \in Workers PROVE WorkerTimes(u)'
    OBVIOUS
  <2>1. WorkerTimes(u) /\ worker[u].stamp \in Nat
    BY <1>4
  <2>2. CASE u = w
    <3>1. \A e \in sliding' : e.stamp > d.stamp - WindowLen
      <4>1. d.stamp > d.stamp - WindowLen
        BY <1>2, <1>5
      <4> QED BY <1>1, <4>1
    <3>2. worker'[u].at = "read" /\ worker'[u].stamp = d.stamp /\ ticks' = ticks
      BY <1>1, <2>2
    <3> QED BY <1>5, <3>1, <3>2 DEF WorkerTimes
  <2>3. CASE u # w
    <3>1. worker'[u] = worker[u] /\ ticks' = ticks /\ holder' = holder
      BY <1>1, <2>3
    <3>2. ASSUME worker[u].at = "read" PROVE \A e \in sliding' : e.stamp > worker[u].stamp - WindowLen
      <4>1. \A e \in sliding : e.stamp > worker[u].stamp - WindowLen
        BY <2>1, <3>2 DEF WorkerTimes
      <4>2. d.stamp > worker[u].stamp - WindowLen
        <5>1. worker[u].stamp <= ticks
          BY <2>1, <3>2 DEF WorkerTimes
        <5> QED BY <1>2, <1>5, <2>1, <5>1
      <4> QED BY <1>1, <4>1, <4>2
    <3> QED BY <2>1, <3>1, <3>2 DEF WorkerTimes
  <2> QED BY <2>2, <2>3
<1>7. \A e \in delivered' : /\ e.stamp \in Nat /\ e.at \in Nat
                            /\ e.stamp <= e.at /\ e.at <= ticks /\ e.at + Life <= ticks + Life
  <2>1. \A e \in delivered : e.at + Life <= ticks + Life
    BY <1>2, <1>3
  <2>2. d.at + Life <= ticks + Life
    BY <1>1, <1>2
  <2> QED BY <1>1, <1>2, <1>3, <1>5, <2>1, <2>2
<1>8. \A e \in delivered' \ live' : e.at + Life <= ticks
  BY <1>1, <1>3
<1>9. sliding' # {} /\ ticks < dueAt' /\ dueAt' \in Nat /\ d \in delivered' /\ dueAt' = d.at + Life
  BY <1>1, <1>2
<1>10. ASSUME NEW e \in live' PROVE Covered(e)'
  <2> SUFFICES ASSUME NEW t \in e.at..ticks
               PROVE  \E f \in delivered' : t \in f.at..(f.at + Life - 1)
    BY <1>1 DEF Covered, Life
  <2>1. CASE e \in live
    BY <1>1, <1>3, <2>1 DEF Covered
  <2>2. CASE e = d
    <3>1. t = ticks
      BY <1>1, <1>2, <2>2
    <3>2. t \in d.at..(d.at + Life - 1)
      BY <1>1, <1>2, <3>1
    <3> QED BY <1>9, <3>2
  <2> QED BY <1>1, <2>1, <2>2
<1>11. IsFiniteSet(delivered')
  BY <1>1, <1>3, FS_AddElement
<1> QED BY <1>1, <1>6, <1>7, <1>8, <1>9, <1>10, <1>11 DEF StreamTimes, DeliveredTimes, Life

\* The numbers a worker carries.
LEMMA StreamNumbers ==
  ASSUME StreamAssumption, StreamInv
  PROVE  /\ ticks \in Nat /\ handovers \in Nat
         /\ \A w \in Workers : worker[w].next \in Nat /\ worker[w].txn \in Nat /\ worker[w].stamp \in Nat
         /\ \A d \in delivered : d.txn \in Nat
<1>1. /\ Len(topic) \in Nat /\ Horizon \in Nat /\ MaxHandovers \in Nat
      /\ ticks \in 0..Horizon /\ handovers \in 0..MaxHandovers
      /\ \A d \in delivered : d.txn \in 1..Len(topic)
  BY DEF StreamInv, StreamAssumption
<1>2. \A w \in Workers : /\ worker[w].next \in 1..(Len(topic) + 1) /\ worker[w].txn \in 0..Len(topic)
                         /\ worker[w].stamp \in 0..Horizon
  BY StreamWorker
<1> QED BY <1>1, <1>2

\* A quiet step leaves a single holder what it is.
LEMMA SoloOfQuiet ==
  ASSUME StreamAssumption, StreamInv, StreamInv', StreamTimes, StreamSolo,
         NEW w \in Workers, Quiet(w)
  PROVE  StreamSolo'
<1>1. UNCHANGED <<ticks, live, sliding, dueAt, delivered, handovers>>
  BY DEF Quiet
<1> SUFFICES ASSUME handovers <= 1
             PROVE  /\ handovers = 0 => holder' = Nobody
                    /\ \A u \in Workers : Sole(u)'
  BY <1>1 DEF StreamSolo, Newest, Since
<1>2. /\ handovers = 0 => holder = Nobody /\ delivered = {}
      /\ \A u \in Workers : Sole(u)
  BY DEF StreamSolo
<1>3. handovers = 0 => holder' = Nobody
  BY <1>2 DEF Quiet
<1>4. ASSUME NEW u \in Workers \ {w} PROVE Sole(u)'
  <2>1. worker'[u] = worker[u] /\ holder' \in {holder, Nobody} /\ (holder' # holder => holder = w)
    BY DEF Quiet
  <2>2. Occupied(u)' = Occupied(u)
    BY <2>1 DEF Occupied
  <2>3. Sole(u) /\ u # Nobody
    BY <1>2
  <2>4. holder' = u <=> holder = u
    BY <2>1, <2>3
  <2> QED BY <1>1, <2>1, <2>2, <2>3, <2>4 DEF Sole
<1>5. Sole(w)'
  <2>1. Sole(w) /\ Occupied(w)' = (worker'[w].at \in {"add", "read", "publish"})
    BY <1>2 DEF Occupied
  <2>2. ticks \in Nat /\ worker[w].next \in Nat /\ worker'[w].next \in Nat /\ worker[w].txn \in Nat
        /\ \A d \in delivered : d.txn \in Nat
    <3>1. worker' \in [Workers -> StreamShape(topic')] /\ Len(topic') \in Nat
      BY DEF StreamInv
    <3>2. worker'[w] \in StreamShape(topic')
      BY <3>1
    <3>3. worker'[w].next \in 1..(Len(topic') + 1)
      BY <3>2 DEF StreamShape
    <3> QED BY <3>1, <3>3, StreamNumbers
  <2>3. Occupied(w)' => holder' = w
    <3>1. Occupied(w)' => worker'[w].at # "off"
      BY <2>1
    <3>2. Occupied(w)' => holder' = holder
      BY <3>1 DEF Quiet
    <3> QED BY <2>1, <3>2 DEF Quiet, Sole
  <2>4. holder' = w => \A d \in delivered : d.txn < worker'[w].next
    <3>1. holder' = w => holder = w /\ worker'[w].next >= worker[w].next
      BY DEF Quiet
    <3>2. holder = w => \A d \in delivered : d.txn < worker[w].next
      BY <2>1 DEF Sole
    <3> QED BY <2>2, <3>1, <3>2
  <2>5. worker'[w].at = "add" =>
          /\ worker'[w].txn < worker'[w].next
          /\ \A d \in delivered : d.txn < worker'[w].txn /\ d.stamp <= worker'[w].stamp
    <3>1. CASE worker[w].at = "add" /\ worker'[w].stamp = worker[w].stamp
               /\ worker'[w].txn = worker[w].txn /\ worker'[w].next = worker[w].next
      BY <2>1, <3>1 DEF Sole
    <3>2. CASE holder = w /\ worker'[w].stamp = ticks
               /\ worker'[w].txn = worker[w].next /\ worker'[w].next = worker[w].next + 1
      <4>1. \A d \in delivered : d.stamp \in Nat /\ d.at \in Nat /\ d.stamp <= d.at /\ d.at <= ticks
        BY DEF StreamTimes, DeliveredTimes
      <4>2. \A d \in delivered : d.stamp <= ticks
        BY <2>2, <4>1
      <4> QED BY <2>1, <2>2, <3>2, <4>2 DEF Sole
    <3> QED BY <3>1, <3>2 DEF Quiet
  <2>6. worker'[w].at = "read" =>
          /\ \E d \in delivered : d.stamp = worker'[w].stamp
          /\ \A d \in delivered : d.stamp <= worker'[w].stamp
    BY <2>1 DEF Sole, Quiet
  <2> QED BY <1>1, <2>3, <2>4, <2>5, <2>6 DEF Sole
<1> QED BY <1>3, <1>4, <1>5

\* The first assignment finds nobody at work.
LEMMA SoloOfAssign ==
  ASSUME StreamAssumption, StreamInv, StreamSolo, NEW w \in Workers, AssignStream(w)
  PROVE  StreamSolo'
<1> DEFINE v == [worker[w] EXCEPT !.next = offset]
<1>1. /\ UNCHANGED <<ticks, live, sliding, dueAt, delivered>>
      /\ worker' = [worker EXCEPT ![w] = v] /\ holder' = w /\ handovers' = handovers + 1
  BY DEF AssignStream, redis
<1>2. v.at = worker[w].at
  BY StreamWorker DEF StreamShape
<1> HIDE DEF v
<1>3. worker'[w] = v /\ \A u \in Workers \ {w} : worker'[u] = worker[u]
  BY <1>1, StreamChanged
<1>4. SUFFICES ASSUME handovers' <= 1 PROVE StreamSolo'
  BY DEF StreamSolo
<1>5. handovers = 0 /\ handovers' = 1
  BY <1>1, <1>4, StreamNumbers
<1>6. holder = Nobody /\ delivered = {} /\ \A u \in Workers : Sole(u)
  BY <1>5 DEF StreamSolo
<1>7. \A u \in Workers : ~Occupied(u)
  BY <1>6 DEF Sole
<1>8. \A u \in Workers : worker'[u].at = worker[u].at
  BY <1>2, <1>3
<1>9. \A u \in Workers : worker'[u].at \notin {"add", "read", "publish"}
  BY <1>7, <1>8 DEF Occupied
<1>10. delivered' = {} /\ sliding' = {}
  BY <1>1, <1>6 DEF StreamInv
<1> QED BY <1>5, <1>9, <1>10 DEF StreamSolo, Sole, Occupied

\* Time does not change what was delivered; when the keys expire the set is empty.
LEMMA SoloOfAdvance == ASSUME StreamInv, StreamSolo, AdvanceTime PROVE StreamSolo'
<1>1. /\ UNCHANGED <<holder, worker, delivered, handovers>>
      /\ sliding' = sliding \/ sliding' = {}
  BY DEF AdvanceTime
<1>2. \A w \in Workers : Sole(w)' = Sole(w)
  BY <1>1 DEF Sole, Occupied
<1>3. \A m : Newest(m)' = Newest(m) /\ Since(m.stamp)' = Since(m.stamp)
  BY <1>1 DEF Newest, Since
<1> QED BY <1>1, <1>2, <1>3 DEF StreamSolo

\* A single holder delivers a new transaction, later than all before it.
LEMMA SoloOfAdd ==
  ASSUME StreamAssumption, StreamInv, StreamTimes, StreamSolo, NEW w \in Workers, Add(w)
  PROVE  StreamSolo'
<1>1. PICK d : /\ d.txn = worker[w].txn /\ d.stamp = worker[w].stamp /\ d.at = ticks
               /\ sliding' = {e \in sliding : e.stamp > d.stamp - WindowLen} \cup {d}
               /\ live' = live \cup {d} /\ delivered' = delivered \cup {d}
               /\ dueAt' = ticks + Life /\ worker[w].at = "add"
               /\ UNCHANGED <<ticks, holder, handovers>>
               /\ worker'[w].at = "read" /\ worker'[w].stamp = worker[w].stamp
               /\ worker'[w].next = worker[w].next
               /\ \A u \in Workers \ {w} : worker'[u] = worker[u]
  BY AddIs
<1> SUFFICES ASSUME handovers <= 1 PROVE StreamSolo'
  BY <1>1 DEF StreamSolo
<1>2. /\ handovers = 0 => holder = Nobody /\ delivered = {}
      /\ \A u \in Workers : Sole(u)
      /\ \A e, f \in delivered : e.txn = f.txn => e = f
      /\ sliding # {} => \E m : Newest(m) /\ sliding = Since(m.stamp)
  BY DEF StreamSolo
<1>3. /\ holder = w /\ worker[w].txn < worker[w].next
      /\ \A e \in delivered : e.txn < d.txn /\ e.stamp <= d.stamp
  BY <1>1, <1>2 DEF Sole, Occupied
<1>4. /\ \A u \in Workers : worker[u].next \in Nat /\ worker[u].txn \in Nat /\ worker[u].stamp \in Nat
      /\ ticks \in Nat /\ WindowLen \in Nat /\ KeyTail \in Nat /\ Lag \in Nat /\ Lag <= KeyTail
      /\ \A e \in delivered : e.txn \in Nat
      /\ sliding \subseteq live /\ live \subseteq delivered
  BY StreamNumbers DEF StreamAssumption, StreamInv
<1>5. d.txn \in Nat /\ d.stamp \in Nat /\ d.stamp <= ticks /\ ticks <= d.stamp + Lag
  BY <1>1, <1>4 DEF StreamTimes, WorkerTimes
<1>6. Newest(d)'
  BY <1>1, <1>3, <1>5 DEF Newest
<1>7. \A e, f \in delivered' : e.txn = f.txn => e = f
  <2>1. \A e \in delivered : e.txn # d.txn
    BY <1>3, <1>4, <1>5
  <2> QED BY <1>1, <1>2, <2>1
\* What the transaction prunes is what its window leaves out.
<1>8. {e \in sliding : e.stamp > d.stamp - WindowLen} = Since(d.stamp)
  <2>0. \A e \in delivered : e.stamp \in Nat /\ e.at \in Nat /\ e.stamp <= e.at
    BY DEF StreamTimes, DeliveredTimes
  <2> SUFFICES ASSUME NEW e \in delivered, e.stamp > d.stamp - WindowLen PROVE e \in sliding
    BY <1>4 DEF Since
  <2>1. CASE sliding = {}
    <3>1. live = {}
      BY <2>1 DEF StreamTimes, DeliveredTimes
    <3>2. e.at + Life <= ticks
      BY <3>1 DEF StreamTimes, DeliveredTimes
    <3> QED BY <1>4, <1>5, <2>0, <3>2 DEF Life
  <2>2. CASE sliding # {}
    <3>1. PICK m : Newest(m) /\ sliding = Since(m.stamp)
      BY <1>2, <2>2
    <3>2. m.stamp \in Nat /\ m.stamp <= d.stamp
      BY <1>3, <2>0, <3>1 DEF Newest
    <3>3. e.stamp > m.stamp - WindowLen
      BY <1>4, <1>5, <2>0, <3>2
    <3> QED BY <3>1, <3>3 DEF Since
  <2> QED BY <2>1, <2>2
<1>9. sliding' = Since(d.stamp)'
  <2>1. d.stamp > d.stamp - WindowLen
    <3>1. WindowLen > 0
      BY DEF StreamAssumption
    <3> QED BY <1>4, <1>5, <3>1
  <2>2. Since(d.stamp)' = Since(d.stamp) \cup {d}
    BY <1>1, <2>1 DEF Since
  <2> QED BY <1>1, <1>8, <2>2
<1>10. handovers # 0
  <2>1. CASE handovers = 0
    <3>1. holder = Nobody
      BY <1>2, <2>1
    <3> QED BY <1>3, <3>1
  <2> QED BY <2>1
<1>11. ASSUME NEW u \in Workers PROVE Sole(u)'
  <2>1. CASE u = w
    <3>1. d.txn < worker'[w].next /\ \A e \in delivered : e.txn < worker'[w].next
      BY <1>1, <1>3, <1>4, <1>5
    <3>2. \A e \in delivered' : e.txn < worker'[w].next
      BY <1>1, <3>1
    <3>3. d \in delivered' /\ worker'[w].stamp = d.stamp /\ \A e \in delivered' : e.stamp <= d.stamp
      BY <1>1, <1>6 DEF Newest
    <3> QED BY <1>1, <1>3, <2>1, <3>2, <3>3 DEF Sole, Occupied
  <2>2. CASE u # w
    <3>1. worker'[u] = worker[u] /\ holder' # u /\ ~Occupied(u)
      BY <1>1, <1>2, <1>3, <2>2 DEF Sole
    <3> QED BY <3>1 DEF Sole, Occupied
  <2> QED BY <2>1, <2>2
<1> QED BY <1>1, <1>6, <1>7, <1>9, <1>10, <1>11 DEF StreamSolo

\* Every step keeps both.
LEMMA StreamKept ==
  ASSUME StreamAssumption, StreamInv, StreamTimes, StreamSolo, [StreamNext]_streamVars
  PROVE  StreamTimes' /\ StreamSolo'
<1>0. StreamInv'
  BY StreamPreserved
<1>1. CASE Transact \/ TransactOddly \/ UNCHANGED streamVars
  <2>1. UNCHANGED <<ticks, holder, worker, live, sliding, dueAt, delivered, handovers>>
    BY <1>1 DEF Transact, TransactOddly, streamVars, redis
  <2>2. StreamTimes'
    BY <2>1 DEF StreamTimes, DeliveredTimes, WorkerTimes, Covered, Life
  <2>3. StreamSolo'
    BY <2>1 DEF StreamSolo, Sole, Occupied, Newest, Since
  <2> QED BY <2>2, <2>3
<1>2. CASE AdvanceTime
  BY <1>2, TimesOfAdvance, SoloOfAdvance
<1>3. ASSUME NEW w \in Workers, AssignStream(w) PROVE StreamTimes' /\ StreamSolo'
  BY <1>3, TimesOfAssign, SoloOfAssign
<1>4. ASSUME NEW w \in Workers, Add(w) PROVE StreamTimes' /\ StreamSolo'
  BY <1>4, TimesOfAdd, SoloOfAdd
<1>5. ASSUME NEW w \in Workers,
             \/ StartWorker(w) \/ CommitStream(w) \/ StopWorker(w) \/ CrashWorker(w) \/ Poll(w)
             \/ RedisRaises(w) \/ Read(w) \/ Publish(w)
      PROVE  StreamTimes' /\ StreamSolo'
  <2>1. Quiet(w)
    BY <1>5, StreamQuiet
  <2> QED BY <1>0, <2>1, TimesOfQuiet, SoloOfQuiet
<1> QED BY <1>1, <1>2, <1>3, <1>4, <1>5 DEF StreamNext

\* They hold at the start.
LEMMA StreamStarts ==
  ASSUME StreamAssumption, StreamInit PROVE StreamTimes /\ StreamSolo
<1>1. /\ ticks = 0 /\ holder = Nobody /\ worker = [w \in Workers |-> Down]
      /\ live = {} /\ sliding = {} /\ dueAt = 0 /\ delivered = {} /\ handovers = 0
  BY DEF StreamInit
<1>2. \A w \in Workers : worker[w].at = "off" /\ holder # w
  BY <1>1 DEF Down
<1>3. IsFiniteSet({})
  BY FS_EmptySet
<1>4. StreamTimes
  BY <1>1, <1>2, <1>3 DEF StreamTimes, DeliveredTimes, WorkerTimes
<1>5. StreamSolo
  BY <1>1, <1>2 DEF StreamSolo, Sole, Occupied
<1> QED BY <1>4, <1>5

\* The sum of a set of deliveries is a fold of their amounts.
LEMMA AmountsOfSet ==
  ASSUME NEW T, IsFiniteSet(T), \A d \in T : topic[d.txn].amount \in Int
  PROVE  \E f : SumsUp(T, [d \in T |-> topic[d.txn].amount], f) /\ SumOf(T) = f[T]
<1> DEFINE w == [d \in T |-> topic[d.txn].amount]
           Eq(f) == f = [s \in SUBSET T |-> IF s = {} THEN 0
                                            ELSE topic[First(s).txn].amount + f[s \ {First(s)}]]
           c == CHOOSE f : Eq(f)
<1>1. w \in [T -> Int]
  OBVIOUS
<1>2. ASSUME NEW f PROVE Eq(f) <=> IsFold(T, w, f)
  <2>1. \A s \in SUBSET T : s # {} => w[First(s)] = topic[First(s).txn].amount
    BY FirstIn
  <2> QED BY <2>1 DEF IsFold
<1>3. \E f : Eq(f)
  <2>1. \E f : IsFold(T, w, f)
    BY <1>1, FoldExists
  <2> HIDE DEF Eq
  <2> QED BY <1>2, <2>1
<1>4. Eq(c)
  <2> HIDE DEF Eq
  <2> QED BY <1>3
<1>5. SumOf(T) = c[T]
  BY DEF SumOf, MapThenSumSet, MapThenFoldSet, First
<1> HIDE DEF c
<1>6. SumsUp(T, w, c)
  <2>1. IsFold(T, w, c)
    BY <1>2, <1>4
  <2> HIDE DEF w
  <2> QED BY <1>1, <2>1, FoldValue
<1> QED BY <1>5, <1>6

\* Fewer deliveries sum up to less.
LEMMA SumOfPart ==
  ASSUME NEW T, IsFiniteSet(T), \A d \in T : topic[d.txn].amount \in Nat, NEW S \in SUBSET T
  PROVE  SumOf(T) >= SumOf(S)
<1> DEFINE w == [d \in T |-> topic[d.txn].amount]
           v == [d \in S |-> topic[d.txn].amount]
<1>1. IsFiniteSet(S)
  BY FS_Subset
<1>2. PICK f : SumsUp(T, w, f) /\ SumOf(T) = f[T]
  BY AmountsOfSet
<1>3. PICK g : SumsUp(S, v, g) /\ SumOf(S) = g[S]
  BY <1>1, AmountsOfSet
<1>4. w \in [T -> Nat] /\ w \in [T -> Int] /\ v \in [S -> Int] /\ \A d \in S : v[d] = w[d]
  OBVIOUS
<1> HIDE DEF w, v
<1>5. g[S] = f[S]
  BY <1>2, <1>3, <1>4, SumsAgree
<1>6. f[S] <= f[T]
  BY <1>2, <1>4, SumsOrder
<1>7. f[S] \in Int /\ f[T] \in Int
  BY <1>2 DEF SumsUp
<1> QED BY <1>2, <1>3, <1>5, <1>6, <1>7

\* Together they say what a snapshot is.
LEMMA SnapshotFollows ==
  ASSUME StreamAssumption, StreamInv, StreamTimes, StreamSolo PROVE SnapshotExplained
<1>0. /\ sliding \subseteq live /\ live \subseteq delivered /\ WindowLen \in Nat /\ KeyTail \in Nat /\ ticks \in Nat
      /\ IsFiniteSet(delivered)
      /\ \A d \in delivered : d.stamp \in Nat /\ d.at \in Nat
      /\ \A d \in live : Covered(d)
  BY StreamNumbers DEF StreamInv, StreamAssumption, StreamTimes, DeliveredTimes
<1>1. ASSUME handovers <= 1, sliding # {}
      PROVE  /\ Velocity.count = Cardinality(Since(Max(Stamps)))
             /\ Velocity.sum >= SumOf(Since(Max(Stamps)))
  <2>1. PICK m : Newest(m) /\ sliding = Since(m.stamp)
    BY <1>1 DEF StreamSolo
  <2>2. m.stamp \in Stamps /\ \A s \in Stamps : s <= m.stamp /\ s \in Nat
    BY <1>0, <2>1 DEF Newest, Stamps
  <2>3. Max(Stamps) = m.stamp
    <3>1. Max(Stamps) \in Stamps /\ \A s \in Stamps : Max(Stamps) >= s
      BY <2>2 DEF Max
    <3> QED BY <2>2, <3>1
  <2>4. \A d \in live : topic[d.txn].amount \in Nat
    BY <1>0 DEF StreamInv, Txns, StreamAssumption
  <2>5. IsFiniteSet(live)
    BY <1>0, FS_Subset
  <2>6. SumOf(live) >= SumOf(sliding)
    BY <1>0, <2>4, <2>5, SumOfPart
  <2>7. Velocity.count = Cardinality(sliding) /\ Velocity.sum = SumOf(live)
    BY DEF Velocity
  <2> QED BY <2>1, <2>3, <2>6, <2>7
<1>2. ASSUME NEW w \in Workers, worker[w].at = "read", sliding # {}
      PROVE  /\ sliding \subseteq Fresh(w) /\ sliding \subseteq live
             /\ handovers <= 1 =>
                  /\ sliding = Fresh(w)
                  /\ Cardinality({d.txn : d \in sliding}) = Cardinality(sliding)
             /\ \A d \in live : \A t \in d.at..ticks :
                  \E e \in delivered : t \in e.at..e.at + WindowLen + KeyTail - 1
  <2>1. sliding \subseteq Fresh(w)
    BY <1>0, <1>2 DEF StreamTimes, WorkerTimes, Fresh, Since
  <2>2. ASSUME handovers <= 1
        PROVE  sliding = Fresh(w) /\ Cardinality({d.txn : d \in sliding}) = Cardinality(sliding)
    <3>1. PICK m : Newest(m) /\ sliding = Since(m.stamp)
      BY <1>2, <2>2 DEF StreamSolo
    <3>2. Sole(w) /\ worker[w].stamp \in Nat
      BY <2>2, StreamNumbers DEF StreamSolo
    <3>3. m.stamp = worker[w].stamp
      BY <1>0, <1>2, <3>1, <3>2 DEF Sole, Newest
    <3>4. \A d, e \in sliding : d.txn = e.txn => d = e
      BY <1>0, <2>2 DEF StreamSolo
    <3> DEFINE U == {d.txn : d \in sliding}
               f == [d \in sliding |-> d.txn]
    <3>5. f \in Bijection(sliding, U)
      BY <3>4 DEF Bijection, Injection, Surjection, IsInjective
    <3>6. IsFiniteSet(sliding) /\ ExistsBijection(sliding, U)
      BY <1>0, <3>5, FS_Subset DEF ExistsBijection
    <3> HIDE DEF U, f
    <3>7. Cardinality(U) = Cardinality(sliding)
      BY <3>6, FS_Bijection
    <3> QED BY <3>1, <3>3, <3>7 DEF Fresh, U
  <2>3. ASSUME NEW d \in live, NEW t \in d.at..ticks
        PROVE  \E e \in delivered : t \in e.at..e.at + WindowLen + KeyTail - 1
    <3>1. PICK e \in delivered : t \in e.at..(e.at + Life - 1)
      BY <1>0 DEF Covered
    <3>2. e.at + Life - 1 = e.at + WindowLen + KeyTail - 1
      BY <1>0 DEF Life
    <3> QED BY <3>1, <3>2
  <2> QED BY <1>0, <2>1, <2>2, <2>3
<1> QED BY <1>1, <1>2 DEF SnapshotExplained
-----------------------------------------------------------------------------
(* Notifications *)
Names == {"email", "sms", "slack", "webhook"}
Record0 == [key : Alerts, severity : Severities]
RowShape == [key : Alerts, channel : Names, status : {"PENDING", "SENT", "FAILED"},
             attempt : {"none", "SUCCESS", "FAILED"}]
Places == {"off", "idle", "get", "set", "insert", "send", "sent", "failed"}
\* q is the topic, t the table of notifications, w a replica at work on them.
WorkShape(q, t) == [at : Places, position : 0..Len(q), record : 0..Len(q), queue : Seq(Names),
                    row : 0..Len(t)]

IsBusy(w) == w.at \notin {"off", "idle"}
IsSending(w) == w.at \in {"insert", "send", "sent", "failed"}
HasRow(w) == w.at \in {"send", "sent", "failed"}
KeyOf(w, q) == q[w.record].key
AskedOf(w, q) == Channels(q[w.record].severity)
DoneOf(w, q) == Len(AskedOf(w, q)) - Len(w.queue)
Tried(row, k, channel) == row.key = k /\ row.channel = channel /\ row.status # "PENDING"
Fresh0(k, channel) == [key |-> k, channel |-> channel, status |-> "PENDING", attempt |-> "none"]

\* What a replica is about agrees with the request it took and the rows it made.
QueueOK(w, q) ==
  /\ Len(w.queue) \in 1..Len(AskedOf(w, q))
  /\ \A i \in 1..Len(w.queue) : w.queue[i] = AskedOf(w, q)[DoneOf(w, q) + i]
DoneOK(w, q, t) ==
  \A i \in 1..DoneOf(w, q) : \E r \in 1..Len(t) : Tried(t[r], KeyOf(w, q), AskedOf(w, q)[i])
Good(w, q, t) ==
  /\ IsBusy(w) => w.record # 0
  /\ IsSending(w) => QueueOK(w, q) /\ DoneOK(w, q, t)
  /\ HasRow(w) => w.row # 0 /\ t[w.row] = Fresh0(KeyOf(w, q), w.queue[1])

NoticeTypes ==
  /\ requests \in Seq(Record0) /\ rows \in Seq(RowShape)
  /\ work \in [Replicas -> WorkShape(requests, rows)]
  /\ sent \subseteq 1..Len(rows) /\ keys \subseteq Alerts
  /\ groupOffset \in 0..Len(requests) /\ owner \in Replicas \cup {NoReplica}
  /\ mishaps \in 0..MaxMishaps
\* A message that is taken for sent has arrived in s, over the channels that send.
Came(w, t, s) == w.at = "sent" => (t[w.row].channel \in Remote => w.row \in s)
RowOK(r) ==
  /\ rows[r].status = "PENDING" <=> rows[r].attempt = "none"
  /\ rows[r].status = "SENT" /\ rows[r].channel \in Remote => r \in sent
  /\ rows[r].status = "PENDING" =>
       rows[r].key \in broken \/ \E c \in Replicas : HasRow(work[c]) /\ work[c].row = r
WorkInv ==
  /\ NoticeTypes
  /\ \A c \in Replicas : /\ Good(work[c], requests, rows)
                         /\ Came(work[c], rows, sent)
  /\ \A c, d \in Replicas :
       HasRow(work[c]) /\ HasRow(work[d]) /\ work[c].row = work[d].row => c = d
  /\ \A r \in 1..Len(rows) : RowOK(r)
-----------------------------------------------------------------------------
\* A list that begins with email names no channel twice if its rest does not.
LEMMA EmailFirst ==
  ASSUME NEW b \in Seq(Names), \A i \in 1..Len(b) : b[i] # "email",
         \A i, j \in 1..Len(b) : b[i] = b[j] => i = j
  PROVE  /\ <<"email">> \o b \in Seq(Names) /\ Len(<<"email">> \o b) >= 1
         /\ \A i, j \in 1..Len(<<"email">> \o b) :
              (<<"email">> \o b)[i] = (<<"email">> \o b)[j] => i = j
<1> DEFINE a == <<"email">>
           z == a \o b
<1>1. a \in Seq(Names) /\ Len(a) = 1 /\ a[1] = "email"
  BY DEF Names
<1> HIDE DEF a
<1>2. /\ z \in Seq(Names) /\ Len(z) = 1 + Len(b) /\ Len(b) \in Nat
      /\ \A i \in 1..Len(z) : z[i] = IF i <= 1 THEN a[i] ELSE b[i - 1]
  BY <1>1, ConcatProperties
<1> HIDE DEF z
<1>3. ASSUME NEW i \in 1..Len(z), NEW j \in 1..Len(z), z[i] = z[j] PROVE i = j
  <2>1. CASE i = 1 \/ j = 1
    BY <1>1, <1>2, <1>3, <2>1
  <2>2. CASE i # 1 /\ j # 1
    <3>1. i - 1 \in 1..Len(b) /\ j - 1 \in 1..Len(b) /\ z[i] = b[i - 1] /\ z[j] = b[j - 1]
      BY <1>2, <2>2
    <3>2. i - 1 = j - 1
      BY <1>3, <3>1
    <3> QED BY <3>2
  <2> QED BY <2>1, <2>2
<1> QED BY <1>2, <1>3 DEF z, a

\* Every severity has a channel, and none twice.
LEMMA ChannelsDiffer ==
  ASSUME NoticeAssumption, NEW s \in Severities
  PROVE  /\ Channels(s) \in Seq(Names) /\ Len(Channels(s)) >= 1
         /\ \A i, j \in 1..Len(Channels(s)) : Channels(s)[i] = Channels(s)[j] => i = j
<1>1. s \in {"CRITICAL", "HIGH", "MEDIUM", "LOW"}
  BY DEF NoticeAssumption
<1> DEFINE Rest0 == CASE s = "CRITICAL" -> <<"sms", "slack", "webhook">>
                      [] s = "HIGH" -> <<"slack", "webhook">>
                      [] s = "MEDIUM" -> <<"webhook">>
                      [] OTHER -> <<>>
<1>2. Channels(s) = <<"email">> \o Rest0
  BY DEF Channels
<1>3. /\ Rest0 \in Seq(Names) /\ \A i \in 1..Len(Rest0) : Rest0[i] # "email"
      /\ \A i, j \in 1..Len(Rest0) : Rest0[i] = Rest0[j] => i = j
  <2>1. CASE s = "CRITICAL"
    BY <2>1 DEF Names
  <2>2. CASE s = "HIGH"
    BY <2>2 DEF Names
  <2>3. CASE s = "MEDIUM"
    BY <2>3 DEF Names
  <2>4. CASE s = "LOW"
    BY <2>4 DEF Names
  <2> QED BY <1>1, <2>1, <2>2, <2>3, <2>4
<1> HIDE DEF Rest0
<1> QED BY <1>2, <1>3, EmailFirst

\* How the topic and the table change: they grow, and the outcome of one row, x,
\* may be recorded.
Grows(q, q2) == Len(q) <= Len(q2) /\ \A i \in 1..Len(q) : q2[i] = q[i]
RowsGrow(t, t2, x) ==
  /\ Len(t) <= Len(t2)
  /\ \A r \in 1..Len(t) : /\ t2[r].key = t[r].key /\ t2[r].channel = t[r].channel
                          /\ t[r].status # "PENDING" => t2[r].status # "PENDING"
                          /\ r # x => t2[r] = t[r]

\* A channel that was tried stays tried.
LEMMA TriedStays ==
  ASSUME NEW t \in Seq(RowShape), NEW t2 \in Seq(RowShape), NEW x, RowsGrow(t, t2, x), NEW k, NEW channel,
         \E r \in 1..Len(t) : Tried(t[r], k, channel)
  PROVE  \E r \in 1..Len(t2) : Tried(t2[r], k, channel)
<1>1. PICK r \in 1..Len(t) : Tried(t[r], k, channel)
  OBVIOUS
<1>2. r \in 1..Len(t2)
  BY DEF RowsGrow
<1> QED BY <1>1, <1>2 DEF RowsGrow, Tried

\* What a replica is about stays as it is while the topic and the table grow.
LEMMA GoodStays ==
  ASSUME NEW q \in Seq(Record0), NEW q2 \in Seq(Record0), Grows(q, q2),
         NEW t \in Seq(RowShape), NEW t2 \in Seq(RowShape), NEW x, RowsGrow(t, t2, x),
         NEW w \in WorkShape(q, t), Good(w, q, t), HasRow(w) => w.row # x
  PROVE  Good(w, q2, t2) /\ w \in WorkShape(q2, t2) /\ (IsBusy(w) => KeyOf(w, q2) = KeyOf(w, q))
<1>1. Len(q) \in Nat /\ Len(q2) \in Nat /\ Len(t) \in Nat /\ Len(t2) \in Nat
      /\ Len(q) <= Len(q2) /\ Len(t) <= Len(t2)
  BY DEF Grows, RowsGrow
<1>2. w \in WorkShape(q2, t2)
  BY <1>1 DEF WorkShape
<1>3. w.record \in 0..Len(q) /\ w.row \in 0..Len(t)
  BY DEF WorkShape
<1>4. ASSUME IsBusy(w)
      PROVE  w.record # 0 /\ KeyOf(w, q2) = KeyOf(w, q) /\ AskedOf(w, q2) = AskedOf(w, q)
             /\ DoneOf(w, q2) = DoneOf(w, q)
  BY <1>1, <1>3, <1>4 DEF Good, Grows, KeyOf, AskedOf, DoneOf
<1>5. IsSending(w) => IsBusy(w)
  BY DEF IsSending, IsBusy
<1>6. ASSUME IsSending(w) PROVE QueueOK(w, q2) /\ DoneOK(w, q2, t2)
  <2>1. QueueOK(w, q2)
    BY <1>4, <1>5, <1>6 DEF Good, QueueOK
  <2>2. ASSUME NEW i \in 1..DoneOf(w, q)
        PROVE  \E r \in 1..Len(t2) : Tried(t2[r], KeyOf(w, q), AskedOf(w, q)[i])
    <3>1. \E r \in 1..Len(t) : Tried(t[r], KeyOf(w, q), AskedOf(w, q)[i])
      BY <1>6 DEF Good, DoneOK
    <3> QED BY <3>1, TriedStays
  <2> QED BY <1>4, <1>5, <1>6, <2>1, <2>2 DEF DoneOK
<1>7. ASSUME HasRow(w) PROVE w.row # 0 /\ t2[w.row] = Fresh0(KeyOf(w, q2), w.queue[1])
  <2>1. w.row # 0 /\ t[w.row] = Fresh0(KeyOf(w, q), w.queue[1]) /\ w.row \in 1..Len(t)
    BY <1>1, <1>3, <1>7 DEF Good
  <2>2. IsBusy(w)
    BY <1>7 DEF HasRow, IsBusy
  <2> QED BY <1>4, <1>7, <2>1, <2>2 DEF RowsGrow
<1> QED BY <1>2, <1>4, <1>6, <1>7 DEF Good

\* What a step of c alone does to the work, topic and table; x is the row whose
\* outcome it records, 0 if none.
Worked(c, x) ==
  /\ Grows(requests, requests') /\ RowsGrow(rows, rows', x) /\ sent \subseteq sent' /\ broken \subseteq broken'
  /\ \A d \in Replicas : d # c => work'[d] = work[d]
  /\ Good(work'[c], requests', rows') /\ Came(work'[c], rows', sent')
  /\ x # 0 => HasRow(work[c]) /\ x = work[c].row
  /\ HasRow(work'[c]) => \/ work'[c].row > Len(rows)
                         \/ HasRow(work[c]) /\ work'[c].row = work[c].row /\ x = 0
  /\ HasRow(work[c]) => \/ HasRow(work'[c]) /\ work'[c].row = work[c].row
                        \/ rows'[work[c].row].status # "PENDING"
                        \/ rows'[work[c].row].key \in broken'
  /\ \A r \in 1..Len(rows') : r > Len(rows) \/ r = x =>
       /\ rows'[r].status = "PENDING" <=> rows'[r].attempt = "none"
       /\ rows'[r].status = "SENT" /\ rows'[r].channel \in Remote => r \in sent'
       /\ rows'[r].status = "PENDING" => HasRow(work'[c]) /\ work'[c].row = r

\* A step that works so on one replica keeps the invariant.
LEMMA WorkKeeps ==
  ASSUME WorkInv, NEW c \in Replicas, NEW x, Worked(c, x), NoticeTypes' PROVE WorkInv'
<1>t. /\ requests \in Seq(Record0) /\ requests' \in Seq(Record0) /\ rows \in Seq(RowShape)
      /\ rows' \in Seq(RowShape) /\ Len(rows) \in Nat /\ Len(rows') \in Nat /\ Len(rows) <= Len(rows')
      /\ work \in [Replicas -> WorkShape(requests, rows)]
  BY DEF WorkInv, NoticeTypes, Worked, RowsGrow
<1>1. ASSUME NEW d \in Replicas
      PROVE  work[d] \in WorkShape(requests, rows) /\ work[d].row \in 0..Len(rows)
             /\ (HasRow(work[d]) => work[d].row \in 1..Len(rows))
  <2>1. work[d] \in WorkShape(requests, rows)
    BY <1>t
  <2>2. work[d].row \in 0..Len(rows)
    BY <2>1 DEF WorkShape
  <2>3. HasRow(work[d]) => work[d].row # 0
    BY DEF WorkInv, Good
  <2> QED BY <1>t, <2>1, <2>2, <2>3
<1>2. ASSUME NEW d \in Replicas
      PROVE  Good(work'[d], requests', rows') /\ Came(work'[d], rows', sent')
  <2>1. CASE d = c
    BY <2>1 DEF Worked
  <2>2. CASE d # c
    <3>1. work'[d] = work[d] /\ Good(work[d], requests, rows)
          /\ Came(work[d], rows, sent)
      BY <2>2 DEF Worked, WorkInv
    <3>2. HasRow(work[d]) => work[d].row # x
      <4> SUFFICES ASSUME HasRow(work[d]), work[d].row = x PROVE FALSE
        OBVIOUS
      <4>1. x # 0
        BY <1>1
      <4>2. HasRow(work[c]) /\ work[c].row = x
        BY <4>1 DEF Worked
      <4> QED BY <2>2, <4>2 DEF WorkInv
    <3>3. Good(work[d], requests', rows')
      BY <1>1, <1>t, <3>1, <3>2, GoodStays DEF Worked
    <3>4. HasRow(work[d]) => rows'[work[d].row] = rows[work[d].row]
      BY <1>1, <3>2 DEF Worked, RowsGrow
    <3>5. Came(work[d], rows', sent')
      BY <3>1, <3>4 DEF Worked, Came, HasRow
    <3> QED BY <3>1, <3>3, <3>5 DEF Worked
  <2> QED BY <2>1, <2>2
<1>3. ASSUME NEW d \in Replicas, NEW e \in Replicas, HasRow(work'[d]), HasRow(work'[e]),
             work'[d].row = work'[e].row
      PROVE  d = e
  <2>1. ASSUME NEW f \in Replicas, f # c, HasRow(work'[f]), HasRow(work'[c]), work'[f].row = work'[c].row
        PROVE  FALSE
    <3>1. work'[f] = work[f] /\ HasRow(work[f]) /\ work[f].row <= Len(rows)
      BY <1>1, <1>t, <2>1 DEF Worked
    <3>2. work[f].row \in Nat
      BY <1>1, <1>t
    <3>3. ~(work'[c].row > Len(rows))
      BY <1>t, <2>1, <3>1, <3>2
    <3>4. HasRow(work[c]) /\ work'[c].row = work[c].row
      BY <2>1, <3>3 DEF Worked
    <3> QED BY <2>1, <3>1, <3>4 DEF WorkInv
  <2>2. ASSUME d # c, e # c PROVE d = e
    <3>1. work'[d] = work[d] /\ work'[e] = work[e]
      BY <2>2 DEF Worked
    <3> QED BY <1>3, <3>1 DEF WorkInv
  <2> QED BY <1>3, <2>1, <2>2
<1>4. ASSUME NEW r \in 1..Len(rows') PROVE RowOK(r)'
  <2>1. CASE r > Len(rows) \/ r = x
    BY <2>1 DEF Worked, RowOK
  <2>2. CASE ~(r > Len(rows) \/ r = x)
    <3>1. r \in 1..Len(rows)
      BY <1>t, <2>2
    <3>2. rows'[r] = rows[r] /\ RowOK(r)
      BY <2>2, <3>1 DEF Worked, RowsGrow, WorkInv
    <3>3. ASSUME rows[r].status = "PENDING"
          PROVE  rows'[r].key \in broken' \/ \E d \in Replicas : HasRow(work'[d]) /\ work'[d].row = r
      <4>1. CASE rows[r].key \in broken
        BY <3>2, <4>1 DEF Worked
      <4>2. CASE \E d \in Replicas : HasRow(work[d]) /\ work[d].row = r
        <5>1. PICK d \in Replicas : HasRow(work[d]) /\ work[d].row = r
          BY <4>2
        <5>2. CASE d # c
          <6>1. work'[d] = work[d]
            BY <5>2 DEF Worked
          <6> QED BY <5>1, <6>1
        <5>3. CASE d = c
          <6>1. \/ HasRow(work'[c]) /\ work'[c].row = work[c].row
                \/ rows'[work[c].row].status # "PENDING"
                \/ rows'[work[c].row].key \in broken'
            BY <5>1, <5>3 DEF Worked
          <6> QED BY <3>2, <3>3, <5>1, <5>3, <6>1
        <5> QED BY <5>2, <5>3
      <4> QED BY <3>2, <3>3, <4>1, <4>2 DEF RowOK
    <3>4. /\ rows[r].status = "PENDING" <=> rows[r].attempt = "none"
          /\ rows[r].status = "SENT" /\ rows[r].channel \in Remote => r \in sent'
      BY <3>2 DEF RowOK, Worked
    <3> QED BY <3>2, <3>3, <3>4 DEF RowOK
  <2> QED BY <2>1, <2>2
<1> QED BY <1>2, <1>3, <1>4 DEF WorkInv

\* The same of the steps that leave the replicas and the table alone.
LEMMA WorkStays ==
  ASSUME WorkInv, work' = work, rows' = rows, sent' = sent, broken' = broken,
         Grows(requests, requests'), NoticeTypes'
  PROVE  WorkInv'
<1>t. /\ requests \in Seq(Record0) /\ requests' \in Seq(Record0) /\ rows \in Seq(RowShape)
      /\ work \in [Replicas -> WorkShape(requests, rows)]
  BY DEF WorkInv, NoticeTypes
<1>0. RowsGrow(rows, rows, 0) /\ \A d \in Replicas : HasRow(work[d]) => work[d].row # 0
  BY <1>t DEF RowsGrow, WorkInv, Good
<1>1. ASSUME NEW d \in Replicas
      PROVE  Good(work[d], requests', rows) /\ Came(work[d], rows, sent)
  <2>1. work[d] \in WorkShape(requests, rows) /\ Good(work[d], requests, rows)
    BY <1>t DEF WorkInv
  <2> QED BY <1>0, <1>t, <2>1, GoodStays DEF WorkInv
<1>2. \A r \in 1..Len(rows) : RowOK(r) <=> RowOK(r)'
  BY DEF RowOK
<1> QED BY <1>1, <1>2 DEF WorkInv
-----------------------------------------------------------------------------
\* One field of a replica's work changes.
LEMMA FieldAt ==
  ASSUME NEW q, NEW t, NEW w \in WorkShape(q, t), NEW a \in Places
  PROVE  /\ [w EXCEPT !.at = a] \in WorkShape(q, t) /\ [w EXCEPT !.at = a].at = a
         /\ [w EXCEPT !.at = a].position = w.position /\ [w EXCEPT !.at = a].record = w.record
         /\ [w EXCEPT !.at = a].queue = w.queue /\ [w EXCEPT !.at = a].row = w.row
<1>1. w = [at |-> w.at, position |-> w.position, record |-> w.record, queue |-> w.queue, row |-> w.row]
      /\ w.at \in Places /\ w.position \in 0..Len(q) /\ w.record \in 0..Len(q)
      /\ w.queue \in Seq(Names) /\ w.row \in 0..Len(t)
  BY DEF WorkShape
<1>2. [at |-> a, position |-> w.position, record |-> w.record, queue |-> w.queue, row |-> w.row] \in WorkShape(q, t)
  BY <1>1 DEF WorkShape
<1>3. [w EXCEPT !.at = a] = [at |-> a, position |-> w.position, record |-> w.record, queue |-> w.queue, row |-> w.row]
  BY <1>1
<1> QED BY <1>2, <1>3

\* The same for the position,
LEMMA FieldPosition ==
  ASSUME NEW q, NEW t, NEW w \in WorkShape(q, t), NEW p \in 0..Len(q)
  PROVE  /\ [w EXCEPT !.position = p] \in WorkShape(q, t) /\ [w EXCEPT !.position = p].position = p
         /\ [w EXCEPT !.position = p].at = w.at /\ [w EXCEPT !.position = p].record = w.record
         /\ [w EXCEPT !.position = p].queue = w.queue /\ [w EXCEPT !.position = p].row = w.row
<1>1. w = [at |-> w.at, position |-> w.position, record |-> w.record, queue |-> w.queue, row |-> w.row]
      /\ w.at \in Places /\ w.position \in 0..Len(q) /\ w.record \in 0..Len(q)
      /\ w.queue \in Seq(Names) /\ w.row \in 0..Len(t)
  BY DEF WorkShape
<1>2. [at |-> w.at, position |-> p, record |-> w.record, queue |-> w.queue, row |-> w.row] \in WorkShape(q, t)
  BY <1>1 DEF WorkShape
<1>3. [w EXCEPT !.position = p] = [at |-> w.at, position |-> p, record |-> w.record, queue |-> w.queue, row |-> w.row]
  BY <1>1
<1> QED BY <1>2, <1>3

\* the record,
LEMMA FieldRecord ==
  ASSUME NEW q, NEW t, NEW w \in WorkShape(q, t), NEW o \in 0..Len(q)
  PROVE  /\ [w EXCEPT !.record = o] \in WorkShape(q, t) /\ [w EXCEPT !.record = o].record = o
         /\ [w EXCEPT !.record = o].at = w.at /\ [w EXCEPT !.record = o].position = w.position
         /\ [w EXCEPT !.record = o].queue = w.queue /\ [w EXCEPT !.record = o].row = w.row
<1>1. w = [at |-> w.at, position |-> w.position, record |-> w.record, queue |-> w.queue, row |-> w.row]
      /\ w.at \in Places /\ w.position \in 0..Len(q) /\ w.record \in 0..Len(q)
      /\ w.queue \in Seq(Names) /\ w.row \in 0..Len(t)
  BY DEF WorkShape
<1>2. [at |-> w.at, position |-> w.position, record |-> o, queue |-> w.queue, row |-> w.row] \in WorkShape(q, t)
  BY <1>1 DEF WorkShape
<1>3. [w EXCEPT !.record = o] = [at |-> w.at, position |-> w.position, record |-> o, queue |-> w.queue, row |-> w.row]
  BY <1>1
<1> QED BY <1>2, <1>3

\* the queue
LEMMA FieldQueue ==
  ASSUME NEW q, NEW t, NEW w \in WorkShape(q, t), NEW u \in Seq(Names)
  PROVE  /\ [w EXCEPT !.queue = u] \in WorkShape(q, t) /\ [w EXCEPT !.queue = u].queue = u
         /\ [w EXCEPT !.queue = u].at = w.at /\ [w EXCEPT !.queue = u].position = w.position
         /\ [w EXCEPT !.queue = u].record = w.record /\ [w EXCEPT !.queue = u].row = w.row
<1>1. w = [at |-> w.at, position |-> w.position, record |-> w.record, queue |-> w.queue, row |-> w.row]
      /\ w.at \in Places /\ w.position \in 0..Len(q) /\ w.record \in 0..Len(q)
      /\ w.queue \in Seq(Names) /\ w.row \in 0..Len(t)
  BY DEF WorkShape
<1>2. [at |-> w.at, position |-> w.position, record |-> w.record, queue |-> u, row |-> w.row] \in WorkShape(q, t)
  BY <1>1 DEF WorkShape
<1>3. [w EXCEPT !.queue = u] = [at |-> w.at, position |-> w.position, record |-> w.record, queue |-> u, row |-> w.row]
  BY <1>1
<1> QED BY <1>2, <1>3

\* and the row.
LEMMA FieldRow ==
  ASSUME NEW q, NEW t, NEW w \in WorkShape(q, t), NEW r \in 0..Len(t)
  PROVE  /\ [w EXCEPT !.row = r] \in WorkShape(q, t) /\ [w EXCEPT !.row = r].row = r
         /\ [w EXCEPT !.row = r].at = w.at /\ [w EXCEPT !.row = r].position = w.position
         /\ [w EXCEPT !.row = r].record = w.record /\ [w EXCEPT !.row = r].queue = w.queue
<1>1. w = [at |-> w.at, position |-> w.position, record |-> w.record, queue |-> w.queue, row |-> w.row]
      /\ w.at \in Places /\ w.position \in 0..Len(q) /\ w.record \in 0..Len(q)
      /\ w.queue \in Seq(Names) /\ w.row \in 0..Len(t)
  BY DEF WorkShape
<1>2. [at |-> w.at, position |-> w.position, record |-> w.record, queue |-> w.queue, row |-> r] \in WorkShape(q, t)
  BY <1>1 DEF WorkShape
<1>3. [w EXCEPT !.row = r] = [at |-> w.at, position |-> w.position, record |-> w.record, queue |-> w.queue, row |-> r]
  BY <1>1
<1> QED BY <1>2, <1>3

\* c's work is now w, and nobody else's has changed.
Puts(c, w) == /\ work' = [work EXCEPT ![c] = w]
              /\ work'[c] = w /\ \A d \in Replicas : d # c => work'[d] = work[d]

\* Replacing the work of one replica is what the EXCEPT says.
LEMMA PutsIs ==
  ASSUME WorkInv, NEW c \in Replicas, NEW w, work' = [work EXCEPT ![c] = w] PROVE Puts(c, w)
BY DEF Puts, WorkInv, NoticeTypes

\* It leaves everybody's work well-shaped.
LEMMA PutsTyped ==
  ASSUME WorkInv, NEW c \in Replicas, NEW w, Puts(c, w),
         NEW q \in Seq(Record0), Len(requests) <= Len(q), NEW t \in Seq(RowShape), Len(rows) <= Len(t),
         w \in WorkShape(q, t)
  PROVE  work' \in [Replicas -> WorkShape(q, t)]
<1>1. /\ work \in [Replicas -> WorkShape(requests, rows)]
      /\ Len(requests) \in Nat /\ Len(rows) \in Nat /\ Len(q) \in Nat /\ Len(t) \in Nat
  BY DEF WorkInv, NoticeTypes
<1>2. WorkShape(requests, rows) \subseteq WorkShape(q, t)
  <2>1. 0..Len(requests) \subseteq 0..Len(q) /\ 0..Len(rows) \subseteq 0..Len(t)
    BY <1>1
  <2> QED BY <2>1 DEF WorkShape
<1>3. work \in [Replicas -> WorkShape(q, t)]
  BY <1>1, <1>2
<1> QED BY <1>3 DEF Puts

\* What does not change grows.
LEMMA StillGrows == ASSUME WorkInv PROVE Grows(requests, requests) /\ RowsGrow(rows, rows, 0)
BY DEF Grows, RowsGrow, WorkInv, NoticeTypes

\* A step that changes only what c is doing, and leaves it without a row or with its
\* old one, keeps the invariant.
LEMMA WorkMoves ==
  ASSUME WorkInv, NEW c \in Replicas, NEW w, Puts(c, w), w \in WorkShape(requests, rows),
         UNCHANGED <<requests, rows>>, sent \subseteq sent', sent' \subseteq 1..Len(rows),
         broken \subseteq broken', keys' \subseteq Alerts,
         groupOffset' \in 0..Len(requests), owner' \in Replicas \cup {NoReplica},
         mishaps' \in 0..MaxMishaps,
         Good(w, requests, rows), Came(w, rows, sent'),
         HasRow(w) => HasRow(work[c]) /\ w.row = work[c].row,
         HasRow(work[c]) => HasRow(w) \/ rows[work[c].row].key \in broken'
  PROVE  WorkInv'
<1>1. requests \in Seq(Record0) /\ rows \in Seq(RowShape) /\ Len(rows) \in Nat /\ Len(requests) \in Nat
  BY DEF WorkInv, NoticeTypes
<1>2. work' \in [Replicas -> WorkShape(requests, rows)]
  <2>1. Len(requests) <= Len(requests) /\ Len(rows) <= Len(rows)
    BY <1>1
  <2> QED BY <1>1, <2>1, PutsTyped
<1>3. NoticeTypes'
  BY <1>1, <1>2 DEF NoticeTypes
<1>4. Worked(c, 0)
  <2>1. work'[c] = w /\ \A d \in Replicas : d # c => work'[d] = work[d]
    BY DEF Puts
  <2>2. \A r \in 1..Len(rows) : ~(r > Len(rows) \/ r = 0)
    BY <1>1
  <2> QED BY <2>1, <2>2, StillGrows DEF Worked
<1> QED BY <1>3, <1>4, WorkKeeps
-----------------------------------------------------------------------------
\* What each step makes of the work of its replica.
LEMMA WorkTypes ==
  ASSUME WorkInv, NEW c \in Replicas
  PROVE  /\ requests \in Seq(Record0) /\ rows \in Seq(RowShape) /\ Len(requests) \in Nat /\ Len(rows) \in Nat
         /\ work[c] \in WorkShape(requests, rows) /\ work[c].at \in Places
         /\ work[c].position \in 0..Len(requests) /\ work[c].record \in 0..Len(requests)
         /\ work[c].row \in 0..Len(rows) /\ work[c].queue \in Seq(Names)
         /\ Good(work[c], requests, rows) /\ Came(work[c], rows, sent)
         /\ sent \subseteq 1..Len(rows) /\ keys \subseteq Alerts /\ groupOffset \in 0..Len(requests)
         /\ owner \in Replicas \cup {NoReplica} /\ mishaps \in 0..MaxMishaps
         /\ work \in [Replicas -> WorkShape(requests, rows)]
<1>1. /\ requests \in Seq(Record0) /\ rows \in Seq(RowShape) /\ Len(requests) \in Nat /\ Len(rows) \in Nat
      /\ sent \subseteq 1..Len(rows) /\ keys \subseteq Alerts /\ groupOffset \in 0..Len(requests)
      /\ owner \in Replicas \cup {NoReplica} /\ mishaps \in 0..MaxMishaps
      /\ work \in [Replicas -> WorkShape(requests, rows)]
  BY DEF WorkInv, NoticeTypes
<1>2. work[c] \in WorkShape(requests, rows)
  BY <1>1
<1>3. /\ work[c].at \in Places
      /\ work[c].position \in 0..Len(requests) /\ work[c].record \in 0..Len(requests)
      /\ work[c].row \in 0..Len(rows) /\ work[c].queue \in Seq(Names)
  BY <1>2 DEF WorkShape
<1> QED BY <1>1, <1>2, <1>3 DEF WorkInv

\* Moving on keeps what is in hand,
LEMMA MoveForm ==
  ASSUME WorkInv, NEW c \in Replicas, NEW a \in Places, Move(c, a)
  PROVE  \E w \in WorkShape(requests, rows) :
           /\ Puts(c, w) /\ w.at = a /\ w.position = work[c].position /\ w.record = work[c].record
           /\ w.queue = work[c].queue /\ w.row = work[c].row
<1> DEFINE w == [work[c] EXCEPT !.at = a]
<1>1. w \in WorkShape(requests, rows) /\ w.at = a /\ w.position = work[c].position
      /\ w.record = work[c].record /\ w.queue = work[c].queue /\ w.row = work[c].row
  BY WorkTypes, FieldAt, FieldPosition, FieldRecord
<1>2. work' = [work EXCEPT ![c] = w]
  BY DEF Move
<1> HIDE DEF w
<1>3. Puts(c, w)
  BY <1>2, PutsIs
<1> QED BY <1>1, <1>3

\* and resting drops the record.
LEMMA RestForm ==
  ASSUME WorkInv, NEW c \in Replicas, Rest(c)
  PROVE  \E w \in WorkShape(requests, rows) :
           /\ Puts(c, w) /\ w.at = "idle" /\ w.position = work[c].position /\ w.record = 0
           /\ w.queue = work[c].queue /\ w.row = work[c].row
<1> DEFINE w1 == [work[c] EXCEPT !.at = "idle"]
           w == [w1 EXCEPT !.record = 0]
<1>0. "idle" \in Places /\ 0 \in 0..Len(requests)
  BY WorkTypes DEF Places
<1>1. w1 \in WorkShape(requests, rows) /\ w1.at = "idle" /\ w1.position = work[c].position
      /\ w1.record = work[c].record /\ w1.queue = work[c].queue /\ w1.row = work[c].row
  BY <1>0, WorkTypes, FieldAt, FieldPosition, FieldRecord
<1>3. work' = [work EXCEPT ![c] = w]
  BY DEF Rest, Nothing
<1> HIDE DEF w1
<1>2. w \in WorkShape(requests, rows) /\ w.at = "idle" /\ w.position = work[c].position
      /\ w.record = 0 /\ w.queue = work[c].queue /\ w.row = work[c].row
  BY <1>0, <1>1, FieldRecord
<1> HIDE DEF w
<1>4. Puts(c, w)
  BY <1>3, PutsIs
<1> QED BY <1>2, <1>4

\* An assignment sets the position to the committed offset.
LEMMA AssignForm ==
  ASSUME WorkInv, NEW c \in Replicas, AssignTo(c)
  PROVE  /\ \E w \in WorkShape(requests, rows) :
              /\ Puts(c, w) /\ w.at = work[c].at /\ w.position = groupOffset' /\ w.record = work[c].record
              /\ w.queue = work[c].queue /\ w.row = work[c].row
         /\ groupOffset' \in 0..Len(requests) /\ owner' = c /\ mishaps' \in 0..MaxMishaps
         /\ owner = NoReplica => groupOffset' = groupOffset
         /\ owner # NoReplica => groupOffset' = groupOffset \/ groupOffset' = work[owner].position
<1> DEFINE w == [work[c] EXCEPT !.position = groupOffset']
<1>1. /\ owner' = c /\ work' = [work EXCEPT ![c] = w]
      /\ owner = NoReplica => mishaps' = mishaps /\ groupOffset' = groupOffset
      /\ owner # NoReplica => /\ mishaps < MaxMishaps /\ mishaps' = mishaps + 1
                              /\ groupOffset' = groupOffset \/ groupOffset' = work[owner].position
  BY DEF AssignTo, Mishap
<1>2. /\ owner # NoReplica => owner \in Replicas
      /\ mishaps \in 0..MaxMishaps /\ groupOffset \in 0..Len(requests)
  BY WorkTypes
<1>3. owner # NoReplica => work[owner].position \in 0..Len(requests)
  BY <1>2, WorkTypes
<1>4. groupOffset' \in 0..Len(requests)
  BY <1>1, <1>2, <1>3
<1>5. mishaps' \in 0..MaxMishaps
  BY <1>1, <1>2, NoticeAssumption DEF NoticeAssumption
<1>6. w \in WorkShape(requests, rows) /\ w.at = work[c].at /\ w.position = groupOffset'
      /\ w.record = work[c].record /\ w.queue = work[c].queue /\ w.row = work[c].row
  <2>1. work[c] \in WorkShape(requests, rows)
    BY WorkTypes
  <2>2. \A p \in 0..Len(requests) :
          /\ [work[c] EXCEPT !.position = p] \in WorkShape(requests, rows)
          /\ [work[c] EXCEPT !.position = p].position = p
          /\ [work[c] EXCEPT !.position = p].at = work[c].at
          /\ [work[c] EXCEPT !.position = p].record = work[c].record
          /\ [work[c] EXCEPT !.position = p].queue = work[c].queue
          /\ [work[c] EXCEPT !.position = p].row = work[c].row
    BY <2>1, FieldPosition
  <2> QED BY <1>4, <2>2
<1> HIDE DEF w
<1>7. Puts(c, w)
  BY <1>1, PutsIs
<1> QED BY <1>1, <1>4, <1>5, <1>6, <1>7

\* Taking a record advances by one.
LEMMA TakeForm ==
  ASSUME WorkInv, NEW c \in Replicas, Take(c)
  PROVE  \E w \in WorkShape(requests, rows) :
           /\ Puts(c, w) /\ w.at = "get" /\ w.position = work[c].position + 1
           /\ w.record = work[c].position + 1 /\ w.record # 0
           /\ w.queue = work[c].queue /\ w.row = work[c].row
<1> DEFINE o == work[c].position + 1
           w1 == [work[c] EXCEPT !.position = o]
           w2 == [w1 EXCEPT !.record = o]
           w == [w2 EXCEPT !.at = "get"]
<1>0. "get" \in Places /\ o \in 0..Len(requests) /\ o # 0
  <2>1. work[c].position < Len(requests) /\ work[c].position \in 0..Len(requests) /\ Len(requests) \in Nat
    BY WorkTypes DEF Take
  <2> QED BY <2>1 DEF Places
<1>3. work' = [work EXCEPT ![c] = w]
  BY DEF Take
<1> HIDE DEF o
<1>1. w1 \in WorkShape(requests, rows) /\ w1.at = work[c].at /\ w1.position = o
      /\ w1.record = work[c].record /\ w1.queue = work[c].queue /\ w1.row = work[c].row
  BY <1>0, WorkTypes, FieldAt, FieldPosition, FieldRecord
<1> HIDE DEF w1
<1>2. w2 \in WorkShape(requests, rows) /\ w2.position = o
      /\ w2.record = o /\ w2.queue = work[c].queue /\ w2.row = work[c].row
  BY <1>0, <1>1, WorkTypes, FieldAt, FieldPosition, FieldRecord
<1> HIDE DEF w2
<1>4. w \in WorkShape(requests, rows) /\ w.at = "get" /\ w.position = o
      /\ w.record = o /\ w.queue = work[c].queue /\ w.row = work[c].row
  BY <1>0, <1>2, WorkTypes, FieldAt, FieldPosition, FieldRecord
<1> HIDE DEF w
<1>5. Puts(c, w)
  BY <1>3, PutsIs
<1> QED BY <1>0, <1>4, <1>5 DEF o

\* SET puts the key into Redis and lines up the channels.
LEMMA SetForm ==
  ASSUME WorkInv, NEW c \in Replicas, SetKey(c)
  PROVE  /\ work[c].at = "set" /\ KeyOf(work[c], requests) \in Alerts
         /\ keys' = keys \cup {KeyOf(work[c], requests)} /\ requests[work[c].record] \in Record0
         /\ work[c].record \in 1..Len(requests)
         /\ \E w \in WorkShape(requests, rows) :
              /\ Puts(c, w) /\ w.at = "insert" /\ w.position = work[c].position
              /\ w.record = work[c].record /\ w.queue = AskedOf(work[c], requests) /\ w.row = work[c].row
<1> DEFINE queue == Channels(Request(c).severity)
           w1 == [work[c] EXCEPT !.at = "insert"]
           w == [w1 EXCEPT !.queue = queue]
<1>1. /\ work[c].at = "set" /\ keys' = keys \cup {Key(c)}
      /\ work' = [work EXCEPT ![c].at = "insert", ![c].queue = queue]
  BY DEF SetKey
<1>2. work[c].record # 0 /\ work[c].record \in 0..Len(requests)
  BY <1>1, WorkTypes DEF Good, IsBusy
<1>3. work[c].record \in 1..Len(requests) /\ requests[work[c].record] \in Record0
  BY <1>2, WorkTypes
<1>4. Key(c) = KeyOf(work[c], requests) /\ Key(c) \in Alerts /\ Request(c).severity \in Severities
  BY <1>3 DEF Key, Request, KeyOf, Record0
<1>5. queue \in Seq(Names) /\ queue = AskedOf(work[c], requests)
  BY <1>4, NoticeAssumption, ChannelsDiffer DEF AskedOf, Request
<1>6. "insert" \in Places
  BY DEF Places
<1>9. work' = [work EXCEPT ![c] = w]
  BY <1>1
<1> HIDE DEF queue
<1>7. w1 \in WorkShape(requests, rows) /\ w1.at = "insert" /\ w1.position = work[c].position
      /\ w1.record = work[c].record /\ w1.queue = work[c].queue /\ w1.row = work[c].row
  BY <1>6, WorkTypes, FieldAt
<1> HIDE DEF w1
<1>8. w \in WorkShape(requests, rows) /\ w.at = "insert" /\ w.position = work[c].position
      /\ w.record = work[c].record /\ w.queue = queue /\ w.row = work[c].row
  BY <1>5, <1>7, FieldQueue
<1> HIDE DEF w
<1>10. Puts(c, w)
  BY <1>9, PutsIs
<1> QED BY <1>1, <1>3, <1>4, <1>5, <1>8, <1>10

\* A loop that ends breaks what it had in hand.
LEMMA OffForm ==
  ASSUME WorkInv, NEW c \in Replicas, EndLoop(c)
  PROVE  /\ Off \in WorkShape(requests, rows) /\ Puts(c, Off) /\ Off.at = "off"
         /\ owner = c => owner' = NoReplica /\ (groupOffset' = groupOffset \/ groupOffset' = work[c].position)
         /\ owner # c => owner' = owner /\ groupOffset' = groupOffset
         /\ broken \subseteq broken'
         /\ IsBusy(work[c]) => KeyOf(work[c], requests) \in broken'
         /\ mishaps' \in 0..MaxMishaps
<1>1. /\ work' = [work EXCEPT ![c] = Off]
      /\ owner = c => owner' = NoReplica /\ (groupOffset' = groupOffset \/ groupOffset' = work[c].position)
      /\ owner # c => owner' = owner /\ groupOffset' = groupOffset
      /\ broken' = (IF Busy(c) THEN broken \cup {Key(c)} ELSE broken)
      /\ mishaps < MaxMishaps /\ mishaps' = mishaps + 1
  BY DEF EndLoop, Mishap
<1>2. Off \in WorkShape(requests, rows) /\ Off.at = "off"
  <2>1. Len(requests) \in Nat /\ Len(rows) \in Nat
    BY WorkTypes
  <2> QED BY <2>1 DEF Off, WorkShape, Places, Nothing
<1>3. Puts(c, Off)
  BY <1>1, PutsIs
<1>4. mishaps' \in 0..MaxMishaps
  BY <1>1, WorkTypes, NoticeAssumption DEF NoticeAssumption
<1>5. (Busy(c) <=> IsBusy(work[c])) /\ Key(c) = KeyOf(work[c], requests)
  BY DEF Busy, IsBusy, Key, KeyOf, Request
<1> QED BY <1>1, <1>2, <1>3, <1>4, <1>5
-----------------------------------------------------------------------------
\* The steps that write no row keep the invariant.
LEMMA WorkOfMoves ==
  ASSUME WorkInv, NEW c \in Replicas,
         \/ StartReplica(c) \/ AssignTo(c) \/ Take(c) \/ SkipDuplicate(c) \/ GetNothing(c)
         \/ SetKey(c) \/ EndLoop(c)
  PROVE  WorkInv'
<1>t. /\ requests \in Seq(Record0) /\ rows \in Seq(RowShape) /\ Len(requests) \in Nat /\ Len(rows) \in Nat
      /\ sent \subseteq 1..Len(rows) /\ keys \subseteq Alerts /\ groupOffset \in 0..Len(requests)
      /\ owner \in Replicas \cup {NoReplica} /\ mishaps \in 0..MaxMishaps
      /\ work[c].position \in 0..Len(requests) /\ Good(work[c], requests, rows)
      /\ Came(work[c], rows, sent)
  BY WorkTypes
<1>s. sent \subseteq sent /\ broken \subseteq broken
  OBVIOUS
<1>1. CASE StartReplica(c)
  <2>1. PICK w \in WorkShape(requests, rows) : Puts(c, w) /\ w.at = "idle"
    <3>1. Move(c, "idle") /\ "idle" \in Places
      BY <1>1 DEF StartReplica, Places
    <3> QED BY <3>1, MoveForm
  <2>2. ~HasRow(w) /\ ~HasRow(work[c]) /\ Good(w, requests, rows) /\ Came(w, rows, sent)
    BY <1>1, <2>1 DEF Came, StartReplica, HasRow, Good, IsBusy, IsSending
  <2>3. UNCHANGED <<requests, rows, sent, broken, keys, groupOffset, owner, mishaps>>
    BY <1>1 DEF StartReplica, notices, told
  <2> QED BY <1>s, <1>t, <2>1, <2>2, <2>3, WorkMoves
<1>2. CASE AssignTo(c)
  <2>1. PICK w \in WorkShape(requests, rows) :
              /\ Puts(c, w) /\ w.at = work[c].at /\ w.position = groupOffset' /\ w.record = work[c].record
              /\ w.queue = work[c].queue /\ w.row = work[c].row
    BY <1>2, AssignForm
  <2>2. groupOffset' \in 0..Len(requests) /\ owner' = c /\ mishaps' \in 0..MaxMishaps
    BY <1>2, AssignForm
  <2>3. UNCHANGED <<requests, rows, sent, broken, keys>>
    BY <1>2 DEF AssignTo, notices, told
  <2>4. (HasRow(w) <=> HasRow(work[c])) /\ Good(w, requests, rows) /\ Came(w, rows, sent)
    BY <1>t, <2>1 DEF Came, HasRow, Good, IsBusy, IsSending, QueueOK, DoneOK, DoneOf, AskedOf, KeyOf
  <2>5. owner' \in Replicas \cup {NoReplica}
    BY <2>2
  <2> QED BY <1>s, <1>t, <2>1, <2>2, <2>3, <2>4, <2>5, WorkMoves
<1>3. CASE Take(c)
  <2>1. PICK w \in WorkShape(requests, rows) : Puts(c, w) /\ w.at = "get" /\ w.record # 0
    BY <1>3, TakeForm
  <2>2. ~HasRow(w) /\ ~HasRow(work[c]) /\ Good(w, requests, rows) /\ Came(w, rows, sent)
    BY <1>3, <2>1 DEF Came, Take, HasRow, Good, IsBusy, IsSending
  <2>3. UNCHANGED <<requests, rows, sent, broken, keys, groupOffset, owner, mishaps>>
    BY <1>3 DEF Take, notices, told
  <2> QED BY <1>s, <1>t, <2>1, <2>2, <2>3, WorkMoves
<1>4. CASE SkipDuplicate(c)
  <2>1. PICK w \in WorkShape(requests, rows) : Puts(c, w) /\ w.at = "idle"
    BY <1>4, RestForm DEF SkipDuplicate
  <2>2. ~HasRow(w) /\ ~HasRow(work[c]) /\ Good(w, requests, rows) /\ Came(w, rows, sent)
    BY <1>4, <2>1 DEF Came, SkipDuplicate, HasRow, Good, IsBusy, IsSending
  <2>3. UNCHANGED <<requests, rows, sent, broken, keys, groupOffset, owner, mishaps>>
    BY <1>4 DEF SkipDuplicate, notices, told
  <2> QED BY <1>s, <1>t, <2>1, <2>2, <2>3, WorkMoves
<1>5. CASE GetNothing(c)
  <2>1. PICK w \in WorkShape(requests, rows) : Puts(c, w) /\ w.at = "set" /\ w.record = work[c].record
    <3>1. Move(c, "set") /\ "set" \in Places
      BY <1>5 DEF GetNothing, Places
    <3> QED BY <3>1, MoveForm
  <2>2. ~HasRow(w) /\ ~HasRow(work[c]) /\ Good(w, requests, rows) /\ Came(w, rows, sent)
    BY <1>5, <1>t, <2>1 DEF Came, GetNothing, HasRow, Good, IsBusy, IsSending
  <2>3. UNCHANGED <<requests, rows, sent, broken, keys, groupOffset, owner, mishaps>>
    BY <1>5 DEF GetNothing, notices
  <2> QED BY <1>s, <1>t, <2>1, <2>2, <2>3, WorkMoves
<1>6. CASE SetKey(c)
  <2>1. PICK w \in WorkShape(requests, rows) :
              /\ Puts(c, w) /\ w.at = "insert"
              /\ w.record = work[c].record /\ w.queue = AskedOf(work[c], requests)
    BY <1>6, SetForm
  <2>2. work[c].at = "set" /\ work[c].record # 0 /\ requests[work[c].record] \in Record0
        /\ keys' \subseteq Alerts
    BY <1>6, <1>t, SetForm
  <2>3. AskedOf(w, requests) = w.queue /\ Len(w.queue) \in Nat /\ Len(w.queue) >= 1
    <3>1. AskedOf(w, requests) = AskedOf(work[c], requests)
      BY <2>1 DEF AskedOf
    <3>2. requests[work[c].record].severity \in Severities
      BY <2>2 DEF Record0
    <3>3. AskedOf(work[c], requests) \in Seq(Names) /\ Len(AskedOf(work[c], requests)) >= 1
      BY <3>2, NoticeAssumption, ChannelsDiffer DEF AskedOf
    <3> QED BY <2>1, <3>1, <3>3
  <2>4. DoneOf(w, requests) = 0
    BY <2>3 DEF DoneOf
  <2>5. QueueOK(w, requests) /\ DoneOK(w, requests, rows)
    BY <2>3, <2>4 DEF QueueOK, DoneOK
  <2>6. ~HasRow(w) /\ ~HasRow(work[c]) /\ Good(w, requests, rows) /\ Came(w, rows, sent)
    BY <2>1, <2>2, <2>5 DEF Came, HasRow, Good, IsBusy, IsSending
  <2>7. UNCHANGED <<requests, rows, sent, broken, groupOffset, owner, mishaps>>
    BY <1>6 DEF SetKey, told
  <2> QED BY <1>s, <1>t, <2>1, <2>2, <2>6, <2>7, WorkMoves
<1>7. CASE EndLoop(c)
  <2>1. /\ Off \in WorkShape(requests, rows) /\ Puts(c, Off) /\ Off.at = "off"
        /\ broken \subseteq broken' /\ mishaps' \in 0..MaxMishaps
        /\ IsBusy(work[c]) => KeyOf(work[c], requests) \in broken'
    BY <1>7, OffForm
  <2>2. owner' \in Replicas \cup {NoReplica} /\ groupOffset' \in 0..Len(requests)
    BY <1>7, <1>t, OffForm
  <2>3. UNCHANGED <<requests, rows, sent, keys>>
    BY <1>7 DEF EndLoop, notices
  <2>4. ~HasRow(Off) /\ Good(Off, requests, rows) /\ Came(Off, rows, sent)
    BY <2>1 DEF Came, HasRow, Good, IsBusy, IsSending
  <2>5. HasRow(work[c]) => rows[work[c].row].key \in broken'
    BY <1>t, <2>1 DEF Good, HasRow, IsBusy, Fresh0
  <2> QED BY <1>s, <1>t, <2>1, <2>2, <2>3, <2>4, <2>5, WorkMoves
<1> QED BY <1>1, <1>2, <1>3, <1>4, <1>5, <1>6, <1>7

\* A send decides between sent and failed.
LEMMA SendForm ==
  ASSUME WorkInv, NEW c \in Replicas, Send(c)
  PROVE  /\ work[c].at = "send" /\ sent \subseteq sent' /\ sent' \subseteq sent \cup {work[c].row}
         /\ \E w \in WorkShape(requests, rows) :
              /\ Puts(c, w) /\ w.at \in {"sent", "failed"} /\ Came(w, rows, sent')
              /\ w.position = work[c].position /\ w.record = work[c].record
              /\ w.queue = work[c].queue /\ w.row = work[c].row
<1>1. PICK arrives \in BOOLEAN, success \in BOOLEAN :
        /\ rows[work[c].row].channel \in Remote => (success => arrives)
        /\ sent' = (IF arrives THEN sent \cup {work[c].row} ELSE sent)
        /\ Move(c, IF success THEN "sent" ELSE "failed")
  BY DEF Send
<1> DEFINE a == IF success THEN "sent" ELSE "failed"
<1>2. a \in Places /\ a \in {"sent", "failed"} /\ (a = "sent" => success)
  BY DEF Places
<1>3. Move(c, a)
  BY <1>1
<1>4. a = "sent" => (rows[work[c].row].channel \in Remote => work[c].row \in sent')
  BY <1>1, <1>2
<1> HIDE DEF a
<1>5. PICK w \in WorkShape(requests, rows) :
           /\ Puts(c, w) /\ w.at = a /\ w.position = work[c].position /\ w.record = work[c].record
           /\ w.queue = work[c].queue /\ w.row = work[c].row
  BY <1>2, <1>3, MoveForm
<1>6. work[c].at = "send" /\ sent \subseteq sent' /\ sent' \subseteq sent \cup {work[c].row}
  BY <1>1 DEF Send
<1>7. Came(w, rows, sent')
  BY <1>4, <1>5 DEF Came
<1> QED BY <1>2, <1>5, <1>6, <1>7

\* The row of the channel whose turn it is.
LEMMA InsertForm ==
  ASSUME WorkInv, NEW c \in Replicas, InsertRow(c)
  PROVE  /\ work[c].at = "insert" /\ rows' \in Seq(RowShape) /\ Len(rows') = Len(rows) + 1
         /\ \A r \in 1..Len(rows) : rows'[r] = rows[r]
         /\ rows'[Len(rows) + 1] = Fresh0(KeyOf(work[c], requests), work[c].queue[1])
         /\ \E w \in WorkShape(requests, rows') :
              /\ Puts(c, w) /\ w.at = "send" /\ w.row = Len(rows) + 1
              /\ w.position = work[c].position /\ w.record = work[c].record /\ w.queue = work[c].queue
<1> DEFINE row == Fresh0(KeyOf(work[c], requests), work[c].queue[1])
           w1 == [work[c] EXCEPT !.at = "send"]
           w == [w1 EXCEPT !.row = Len(rows')]
<1>1. /\ work[c].at = "insert"
      /\ rows' = Append(rows, [key |-> Key(c), channel |-> Head(work[c].queue),
                           status |-> "PENDING", attempt |-> "none"])
      /\ work' = [work EXCEPT ![c].at = "send", ![c].row = Len(rows')]
  BY DEF InsertRow
<1>2. /\ work[c].record \in 1..Len(requests) /\ requests[work[c].record] \in Record0
      /\ work[c].queue \in Seq(Names) /\ Len(work[c].queue) >= 1
  BY <1>1, WorkTypes DEF Good, IsBusy, IsSending, QueueOK
<1>3. Head(work[c].queue) = work[c].queue[1] /\ work[c].queue[1] \in Names
  BY <1>2
<1>4. Key(c) = KeyOf(work[c], requests) /\ Key(c) \in Alerts
  BY <1>2 DEF Key, Request, KeyOf, Record0
<1>5. row \in RowShape
  BY <1>3, <1>4 DEF Fresh0, RowShape
<1>6. rows' = Append(rows, row)
  BY <1>1, <1>3, <1>4 DEF Fresh0
<1> HIDE DEF row
<1>7. /\ rows' \in Seq(RowShape) /\ Len(rows') = Len(rows) + 1
      /\ \A r \in 1..Len(rows) : rows'[r] = rows[r]
      /\ rows'[Len(rows) + 1] = row
  BY <1>5, <1>6, WorkTypes
<1>8. work[c] \in WorkShape(requests, rows')
  <2>1. Len(rows) \in Nat /\ work[c] \in WorkShape(requests, rows)
    BY WorkTypes
  <2>2. 0..Len(rows) \subseteq 0..Len(rows')
    BY <1>7, <2>1
  <2> QED BY <2>1, <2>2 DEF WorkShape
<1>9. "send" \in Places /\ Len(rows') \in 0..Len(rows')
  BY <1>7, WorkTypes DEF Places
<1>12. work' = [work EXCEPT ![c] = w]
  BY <1>1
<1>10. w1 \in WorkShape(requests, rows') /\ w1.at = "send" /\ w1.position = work[c].position
       /\ w1.record = work[c].record /\ w1.queue = work[c].queue
  BY <1>8, <1>9, FieldAt
<1> HIDE DEF w1
<1>11. w \in WorkShape(requests, rows') /\ w.at = "send" /\ w.position = work[c].position
       /\ w.record = work[c].record /\ w.queue = work[c].queue /\ w.row = Len(rows')
  <2> DEFINE z == Len(rows')
  <2>1. z \in 0..Len(rows')
    BY <1>9
  <2>2. \A r \in 0..Len(rows') :
          /\ [w1 EXCEPT !.row = r] \in WorkShape(requests, rows') /\ [w1 EXCEPT !.row = r].row = r
          /\ [w1 EXCEPT !.row = r].at = w1.at /\ [w1 EXCEPT !.row = r].position = w1.position
          /\ [w1 EXCEPT !.row = r].record = w1.record /\ [w1 EXCEPT !.row = r].queue = w1.queue
    BY <1>10, FieldRow
  <2> QED BY <1>10, <2>1, <2>2
<1> HIDE DEF w
<1>13. Puts(c, w)
  BY <1>12, PutsIs
<1> QED BY <1>1, <1>7, <1>11, <1>13 DEF row

\* The row of c, its outcome recorded, and all the others.
Recorded(c) ==
  /\ rows' \in Seq(RowShape) /\ Len(rows') = Len(rows) /\ work[c].row \in 1..Len(rows)
  /\ rows[work[c].row] = Fresh0(KeyOf(work[c], requests), work[c].queue[1])
  /\ \A r \in 1..Len(rows) : rows'[r].key = rows[r].key /\ rows'[r].channel = rows[r].channel
  /\ \A r \in 1..Len(rows) : r # work[c].row => rows'[r] = rows[r]
  /\ rows'[work[c].row].status = (IF work[c].at = "sent" THEN "SENT" ELSE "FAILED")
  /\ rows'[work[c].row].attempt # "none"

\* The row's outcome, and no other row's.
LEMMA RecordRows == ASSUME WorkInv, NEW c \in Replicas, Record(c) PROVE Recorded(c)
<1> DEFINE x == work[c].row
           s == IF work[c].at = "sent" THEN "SENT" ELSE "FAILED"
           a == IF work[c].at = "sent" THEN "SUCCESS" ELSE "FAILED"
           n1 == [rows[x] EXCEPT !.status = s]
           n == [n1 EXCEPT !.attempt = a]
<1>1. work[c].at \in {"sent", "failed"} /\ rows' = [rows EXCEPT ![x].status = s, ![x].attempt = a]
  BY DEF Record, Outcome
<1>2. x \in 1..Len(rows) /\ rows[x] = Fresh0(KeyOf(work[c], requests), work[c].queue[1])
      /\ rows \in Seq(RowShape) /\ Len(rows) \in Nat
  <2>1. HasRow(work[c]) /\ x \in 0..Len(rows) /\ Len(rows) \in Nat /\ rows \in Seq(RowShape)
        /\ Good(work[c], requests, rows)
    BY <1>1, WorkTypes DEF HasRow
  <2> QED BY <2>1 DEF Good
<1>3. rows' = [rows EXCEPT ![x] = n]
  BY <1>1, <1>2
<1>4. rows[x] \in RowShape /\ s \in {"SENT", "FAILED"} /\ a \in {"SUCCESS", "FAILED"} /\ a # "none"
  BY <1>2
<1> HIDE DEF s, a
<1>5. n1 \in RowShape /\ n1.key = rows[x].key /\ n1.channel = rows[x].channel /\ n1.status = s
  BY <1>4 DEF RowShape
<1> HIDE DEF n1
<1>6. n \in RowShape /\ n.key = rows[x].key /\ n.channel = rows[x].channel /\ n.status = s
      /\ n.attempt = a
  BY <1>4, <1>5 DEF RowShape
<1> HIDE DEF n, x
<1>7. /\ rows' \in Seq(RowShape) /\ Len(rows') = Len(rows) /\ rows'[x] = n
      /\ \A r \in 1..Len(rows) : r # x => rows'[r] = rows[r]
  BY <1>2, <1>3, <1>6, ExceptSeq
<1>8. \A r \in 1..Len(rows) : rows'[r].key = rows[r].key /\ rows'[r].channel = rows[r].channel
  BY <1>6, <1>7
<1> QED BY <1>2, <1>4, <1>6, <1>7, <1>8 DEF Recorded, s, x

\* The next channel's turn.
LEMMA RecordForm ==
  ASSUME WorkInv, NEW c \in Replicas, Record(c)
  PROVE  /\ work[c].at \in {"sent", "failed"}
         /\ \E w \in WorkShape(requests, rows) :
              /\ Puts(c, w) /\ w.position = work[c].position /\ w.row = 0
              /\ w.queue = Tail(work[c].queue)
              /\ w.at = (IF w.queue = <<>> THEN "idle" ELSE "insert")
              /\ w.queue # <<>> => w.record = work[c].record
<1> DEFINE queue == Tail(work[c].queue)
           a == IF queue = <<>> THEN "idle" ELSE "insert"
           o == IF queue = <<>> THEN 0 ELSE work[c].record
           w1 == [work[c] EXCEPT !.queue = queue]
           w2 == [w1 EXCEPT !.row = 0]
           w3 == [w2 EXCEPT !.at = a]
           w == [w3 EXCEPT !.record = o]
<1>1. work[c].at \in {"sent", "failed"}
      /\ work' = [work EXCEPT ![c].queue = queue, ![c].row = 0, ![c].at = a, ![c].record = o]
  BY DEF Record, Continue, Nothing
<1>2. queue \in Seq(Names) /\ a \in Places /\ o \in 0..Len(requests) /\ 0 \in 0..Len(rows)
  <2>0. IsSending(work[c]) /\ Good(work[c], requests, rows) /\ work[c].queue \in Seq(Names)
    BY <1>1, WorkTypes DEF IsSending
  <2>1. work[c].queue \in Seq(Names) /\ Len(work[c].queue) >= 1
    BY <2>0 DEF Good, QueueOK
  <2>2. queue \in Seq(Names)
    BY <2>1
  <2> QED BY <2>2, WorkTypes DEF Places
<1>3. work' = [work EXCEPT ![c] = w]
  BY <1>1
<1>a. a = (IF queue = <<>> THEN "idle" ELSE "insert") /\ (queue # <<>> => o = work[c].record)
  OBVIOUS
<1> HIDE DEF queue, a, o
<1>4. w1 \in WorkShape(requests, rows) /\ w1.queue = queue /\ w1.position = work[c].position
  BY <1>2, WorkTypes, FieldQueue
<1> HIDE DEF w1
<1>5. w2 \in WorkShape(requests, rows) /\ w2.queue = queue /\ w2.position = work[c].position
      /\ w2.row = 0
  <2>1. \A r \in 0..Len(rows) :
          /\ [w1 EXCEPT !.row = r] \in WorkShape(requests, rows) /\ [w1 EXCEPT !.row = r].row = r
          /\ [w1 EXCEPT !.row = r].position = w1.position /\ [w1 EXCEPT !.row = r].queue = w1.queue
    BY <1>4, FieldRow
  <2> QED BY <1>2, <1>4, <2>1
<1> HIDE DEF w2
<1>6. w3 \in WorkShape(requests, rows) /\ w3.queue = queue /\ w3.position = work[c].position
      /\ w3.row = 0 /\ w3.at = a
  BY <1>2, <1>5, FieldAt
<1> HIDE DEF w3
<1>7. w \in WorkShape(requests, rows) /\ w.queue = queue /\ w.position = work[c].position
      /\ w.row = 0 /\ w.at = a /\ w.record = o
  BY <1>2, <1>6, FieldRecord
<1> HIDE DEF w
<1>8. Puts(c, w)
  BY <1>3, PutsIs
<1> QED BY <1>1, <1>7, <1>8, <1>a DEF queue

\* What Record leaves: one more channel of the request has been tried.
LEMMA RecordTries ==
  ASSUME WorkInv, NEW c \in Replicas, Record(c)
  PROVE  /\ RowsGrow(rows, rows', work[c].row) /\ work[c].row # 0 /\ HasRow(work[c]) /\ IsSending(work[c])
         /\ QueueOK(work[c], requests) /\ work[c].record \in 1..Len(requests)
         /\ AskedOf(work[c], requests) \in Seq(Names)
         /\ DoneOf(work[c], requests) \in Nat
         /\ work[c].queue[1] = AskedOf(work[c], requests)[DoneOf(work[c], requests) + 1]
         /\ \A i \in 1..(DoneOf(work[c], requests) + 1) : \E r \in 1..Len(rows') :
              Tried(rows'[r], KeyOf(work[c], requests), AskedOf(work[c], requests)[i])
<1> DEFINE v == work[c]
           asked == AskedOf(v, requests)
           done == DoneOf(v, requests)
<1>0. Recorded(c) /\ v.at \in {"sent", "failed"} /\ Good(v, requests, rows) /\ rows \in Seq(RowShape)
      /\ Len(rows) \in Nat /\ v.record \in 0..Len(requests) /\ Len(requests) \in Nat
      /\ requests \in Seq(Record0) /\ v.queue \in Seq(Names)
  BY RecordRows, RecordForm, WorkTypes
<1>1. HasRow(v) /\ IsSending(v) /\ IsBusy(v)
  BY <1>0 DEF HasRow, IsSending, IsBusy
<1>2. QueueOK(v, requests) /\ DoneOK(v, requests, rows) /\ v.record # 0 /\ v.row # 0
  BY <1>0, <1>1 DEF Good
<1>3. v.record \in 1..Len(requests) /\ requests[v.record].severity \in Severities
  <2>1. v.record \in 1..Len(requests)
    BY <1>0, <1>2
  <2>2. requests[v.record] \in Record0
    BY <1>0, <2>1
  <2> QED BY <2>1, <2>2 DEF Record0
<1>4. asked \in Seq(Names)
  BY <1>3, NoticeAssumption, ChannelsDiffer DEF AskedOf
<1>5. Len(asked) \in Nat /\ Len(v.queue) \in 1..Len(asked) /\ done = Len(asked) - Len(v.queue)
      /\ \A i \in 1..Len(v.queue) : v.queue[i] = asked[done + i]
  <2>1. Len(asked) \in Nat
    BY <1>4
  <2>2. done = Len(asked) - Len(v.queue)
    BY DEF DoneOf
  <2>3. Len(v.queue) \in 1..Len(asked) /\ \A i \in 1..Len(v.queue) : v.queue[i] = asked[done + i]
    BY <1>2 DEF QueueOK
  <2> QED BY <2>1, <2>2, <2>3
<1>6. done \in Nat /\ v.queue[1] = asked[done + 1]
  <2> DEFINE n == Len(asked)
             m == Len(v.queue)
  <2>1. n \in Nat /\ m \in 1..n /\ done = n - m /\ \A i \in 1..m : v.queue[i] = asked[done + i]
    BY <1>5
  <2> HIDE DEF n, m, done, asked
  <2>2. done \in Nat /\ 1 \in 1..m
    BY <2>1
  <2> QED BY <2>1, <2>2
<1>7. RowsGrow(rows, rows', v.row)
  <2>1. rows'[v.row].status # "PENDING"
    BY <1>0 DEF Recorded
  <2> QED BY <1>0, <2>1 DEF RowsGrow, Recorded
<1>8. ASSUME NEW i \in 1..(done + 1)
      PROVE  \E r \in 1..Len(rows') : Tried(rows'[r], KeyOf(v, requests), asked[i])
  <2>1. CASE i = done + 1
    <3>1. rows'[v.row].key = KeyOf(v, requests) /\ rows'[v.row].channel = v.queue[1]
          /\ rows'[v.row].status # "PENDING" /\ v.row \in 1..Len(rows')
      BY <1>0 DEF Recorded, Fresh0
    <3> QED BY <1>6, <2>1, <3>1 DEF Tried
  <2>2. CASE i # done + 1
    <3>1. i \in 1..done
      BY <1>6, <2>2
    <3>2. \E r \in 1..Len(rows) : Tried(rows[r], KeyOf(v, requests), asked[i])
      BY <1>2, <3>1 DEF DoneOK
    <3>3. rows' \in Seq(RowShape)
      BY <1>0 DEF Recorded
    <3> QED BY <1>0, <1>7, <3>2, <3>3, TriedStays
  <2> QED BY <2>1, <2>2
<1> QED BY <1>1, <1>2, <1>3, <1>4, <1>6, <1>7, <1>8

\* The steps that write the table, or send, keep the invariant.
LEMMA WorkOfRows ==
  ASSUME WorkInv, NEW c \in Replicas, InsertRow(c) \/ Send(c) \/ Record(c)
  PROVE  WorkInv'
<1>t. /\ requests \in Seq(Record0) /\ rows \in Seq(RowShape) /\ Len(requests) \in Nat /\ Len(rows) \in Nat
      /\ sent \subseteq 1..Len(rows) /\ keys \subseteq Alerts /\ groupOffset \in 0..Len(requests)
      /\ owner \in Replicas \cup {NoReplica} /\ mishaps \in 0..MaxMishaps
      /\ work[c].row \in 0..Len(rows) /\ Good(work[c], requests, rows)
      /\ work[c] \in WorkShape(requests, rows)
      /\ Grows(requests, requests)
  BY WorkTypes, StillGrows
<1>s. sent \subseteq sent /\ broken \subseteq broken /\ Len(requests) <= Len(requests) /\ Len(rows) <= Len(rows)
  BY <1>t
<1>1. CASE Send(c)
  <2>1. PICK w \in WorkShape(requests, rows) :
              /\ Puts(c, w) /\ w.at \in {"sent", "failed"} /\ Came(w, rows, sent')
              /\ w.record = work[c].record /\ w.queue = work[c].queue /\ w.row = work[c].row
    BY <1>1, SendForm
  <2>2. work[c].at = "send" /\ sent \subseteq sent' /\ sent' \subseteq sent \cup {work[c].row}
    BY <1>1, SendForm
  <2>3. HasRow(w) /\ HasRow(work[c]) /\ IsSending(w) /\ IsSending(work[c]) /\ IsBusy(w) /\ IsBusy(work[c])
    BY <2>1, <2>2 DEF HasRow, IsSending, IsBusy
  <2>4. Good(w, requests, rows) /\ work[c].row # 0
    BY <1>t, <2>1, <2>3 DEF Good, QueueOK, DoneOK, DoneOf, AskedOf, KeyOf
  <2>5. sent' \subseteq 1..Len(rows)
    BY <1>t, <2>2, <2>4
  <2>6. UNCHANGED <<requests, rows, broken, keys, groupOffset, owner, mishaps>>
    BY <1>1 DEF Send, told
  <2> QED BY <1>s, <1>t, <2>1, <2>2, <2>3, <2>4, <2>5, <2>6, WorkMoves
<1>2. CASE InsertRow(c)
  <2>1. PICK w \in WorkShape(requests, rows') :
              /\ Puts(c, w) /\ w.at = "send" /\ w.row = Len(rows) + 1
              /\ w.record = work[c].record /\ w.queue = work[c].queue
    BY <1>2, InsertForm
  <2>2. /\ work[c].at = "insert" /\ rows' \in Seq(RowShape) /\ Len(rows') = Len(rows) + 1
        /\ \A r \in 1..Len(rows) : rows'[r] = rows[r]
        /\ rows'[Len(rows) + 1] = Fresh0(KeyOf(work[c], requests), work[c].queue[1])
    BY <1>2, InsertForm
  <2>3. UNCHANGED <<requests, sent, broken, keys, groupOffset, owner, mishaps>>
    BY <1>2 DEF InsertRow, told
  <2>4. RowsGrow(rows, rows', 0)
    BY <1>t, <2>2 DEF RowsGrow
  <2>5. Good(work[c], requests, rows') /\ ~HasRow(work[c])
    BY <1>t, <2>2, <2>4, GoodStays DEF HasRow
  <2>6. Good(w, requests, rows')
    <3>1. IsSending(work[c]) /\ IsBusy(work[c]) /\ IsSending(w) /\ HasRow(w)
      BY <2>1, <2>2 DEF IsSending, IsBusy, HasRow
    <3>2. work[c].record # 0 /\ QueueOK(work[c], requests) /\ DoneOK(work[c], requests, rows')
      BY <2>5, <3>1 DEF Good
    <3>3. KeyOf(w, requests) = KeyOf(work[c], requests) /\ AskedOf(w, requests) = AskedOf(work[c], requests)
          /\ DoneOf(w, requests) = DoneOf(work[c], requests)
      BY <2>1 DEF KeyOf, AskedOf, DoneOf
    <3>4. QueueOK(w, requests) /\ DoneOK(w, requests, rows')
      BY <2>1, <3>2, <3>3 DEF QueueOK, DoneOK
    <3>5. w.row # 0
      BY <1>t, <2>1
    <3> QED BY <2>1, <2>2, <3>2, <3>3, <3>4, <3>5 DEF Good
  <2>7. NoticeTypes'
    <3>1. work' \in [Replicas -> WorkShape(requests, rows')]
      <4>1. Len(rows) <= Len(rows')
        BY <1>t, <2>2
      <4> QED BY <1>s, <1>t, <2>1, <2>2, <4>1, PutsTyped
    <3>2. sent \subseteq 1..Len(rows')
      BY <1>t, <2>2
    <3> QED BY <1>t, <2>2, <2>3, <3>1, <3>2 DEF NoticeTypes
  <2>8. Worked(c, 0)
    <3>1. work'[c] = w /\ \A d \in Replicas : d # c => work'[d] = work[d]
      BY <2>1 DEF Puts
    <3>2. w.row > Len(rows) /\ HasRow(w) /\ w.at # "sent"
      BY <1>t, <2>1 DEF HasRow
    <3>3. ASSUME NEW r \in 1..Len(rows'), r > Len(rows) \/ r = 0
          PROVE  rows'[r].status = "PENDING" /\ rows'[r].attempt = "none" /\ w.row = r
      <4>1. r = Len(rows) + 1
        BY <1>t, <2>2, <3>3
      <4> QED BY <2>1, <2>2, <4>1 DEF Fresh0
    <3>4. \A r \in 1..Len(rows') : r > Len(rows) \/ r = 0 =>
            /\ rows'[r].status = "PENDING" <=> rows'[r].attempt = "none"
            /\ rows'[r].status = "SENT" /\ rows'[r].channel \in Remote => r \in sent'
            /\ rows'[r].status = "PENDING" => HasRow(work'[c]) /\ work'[c].row = r
      BY <3>1, <3>2, <3>3
    <3>5. Came(work'[c], rows', sent')
      BY <2>1, <3>1 DEF Came
    <3> QED BY <1>s, <1>t, <2>3, <2>4, <2>5, <2>6, <3>1, <3>2, <3>4, <3>5 DEF Worked
  <2> QED BY <2>7, <2>8, WorkKeeps
<1>3. CASE Record(c)
  <2>1. PICK w \in WorkShape(requests, rows) :
              /\ Puts(c, w) /\ w.row = 0 /\ w.queue = Tail(work[c].queue)
              /\ w.at = (IF w.queue = <<>> THEN "idle" ELSE "insert")
              /\ w.queue # <<>> => w.record = work[c].record
    BY <1>3, RecordForm
  <2>2. Recorded(c) /\ work[c].at \in {"sent", "failed"}
    BY <1>3, RecordRows, RecordForm
  <2>3. UNCHANGED <<requests, sent, broken, keys, groupOffset, owner, mishaps>>
    BY <1>3 DEF Record, told
  <2>4. /\ RowsGrow(rows, rows', work[c].row) /\ work[c].row # 0 /\ HasRow(work[c]) /\ IsSending(work[c])
        /\ QueueOK(work[c], requests) /\ work[c].record \in 1..Len(requests)
        /\ AskedOf(work[c], requests) \in Seq(Names)
        /\ DoneOf(work[c], requests) \in Nat
        /\ \A i \in 1..(DoneOf(work[c], requests) + 1) : \E r \in 1..Len(rows') :
              Tried(rows'[r], KeyOf(work[c], requests), AskedOf(work[c], requests)[i])
    BY <1>3, RecordTries
  <2>5. ~HasRow(w) /\ Came(w, rows, sent)
    BY <2>1 DEF Came, HasRow
  <2>6. Good(w, requests, rows')
    <3>1. CASE w.queue = <<>>
      BY <2>1, <3>1 DEF Good, IsBusy, IsSending, HasRow
    <3>2. CASE w.queue # <<>>
      <4> DEFINE asked == AskedOf(work[c], requests)
                 done == DoneOf(work[c], requests)
                 queue == work[c].queue
      <4>1. /\ KeyOf(w, requests) = KeyOf(work[c], requests) /\ AskedOf(w, requests) = asked
            /\ w.record # 0 /\ w.at = "insert"
        BY <2>1, <2>4, <3>2 DEF KeyOf, AskedOf
      <4>2. queue \in Seq(Names) /\ Len(queue) \in 1..Len(asked) /\ Len(asked) \in Nat
            /\ done = Len(asked) - Len(queue)
            /\ \A i \in 1..Len(queue) : queue[i] = asked[done + i]
        <5>1. Len(asked) \in Nat /\ queue \in Seq(Names)
          BY <2>4, WorkTypes
        <5>2. done = Len(asked) - Len(queue)
          BY DEF DoneOf
        <5>3. Len(queue) \in 1..Len(asked) /\ \A i \in 1..Len(queue) : queue[i] = asked[done + i]
          BY <2>4 DEF QueueOK
        <5> QED BY <5>1, <5>2, <5>3
      <4>3. Len(w.queue) = Len(queue) - 1 /\ \A i \in 1..Len(w.queue) : w.queue[i] = queue[i + 1]
            /\ w.queue \in Seq(Names)
        BY <2>1, <4>2
      <4>4. Len(w.queue) \in Nat /\ Len(w.queue) # 0
        <5> DEFINE u == w.queue
        <5>1. u \in Seq(Names) /\ u # <<>>
          BY <3>2, <4>3
        <5> HIDE DEF u
        <5>2. Len(u) \in Nat /\ Len(u) # 0
          BY <5>1, EmptySeq
        <5> QED BY <5>2 DEF u
      <4>5. DoneOf(w, requests) = done + 1 /\ done \in Nat /\ Len(w.queue) \in 1..Len(asked)
        <5>1. DoneOf(w, requests) = Len(asked) - Len(w.queue)
          BY <4>1 DEF DoneOf
        <5> DEFINE n == Len(asked)
                   m == Len(queue)
                   l == Len(w.queue)
                   d == DoneOf(w, requests)
        <5>2. n \in Nat /\ m \in 1..n /\ done = n - m /\ l = m - 1 /\ l \in Nat /\ l # 0 /\ d = n - l
          BY <4>2, <4>3, <4>4, <5>1
        <5> HIDE DEF n, m, l, d, done, asked, queue
        <5>3. d = done + 1 /\ done \in Nat /\ l \in 1..n
          BY <5>2
        <5> QED BY <5>3 DEF d, l, n
      <4>6. ASSUME NEW i \in 1..Len(w.queue) PROVE w.queue[i] = asked[(done + 1) + i]
        <5>1. w.queue[i] = queue[i + 1] /\ i + 1 \in 1..Len(queue)
          BY <4>2, <4>3
        <5>2. queue[i + 1] = asked[done + (i + 1)]
          BY <4>2, <5>1
        <5>3. done + (i + 1) = (done + 1) + i
          <6> HIDE DEF done
          <6> QED BY <4>4, <4>5
        <5> QED BY <5>1, <5>2, <5>3
      <4>7. QueueOK(w, requests)
        BY <4>1, <4>5, <4>6 DEF QueueOK
      <4>8. DoneOK(w, requests, rows')
        BY <2>4, <4>1, <4>5 DEF DoneOK
      <4> QED BY <2>5, <4>1, <4>7, <4>8 DEF Good
    <3> QED BY <3>1, <3>2
  <2>7. NoticeTypes'
    <3>0. rows' \in Seq(RowShape) /\ Len(rows') = Len(rows)
      BY <2>2 DEF Recorded
    <3>1. w \in WorkShape(requests, rows')
      BY <3>0 DEF WorkShape
    <3>2. work' \in [Replicas -> WorkShape(requests, rows')]
      <4>1. Len(rows) <= Len(rows')
        BY <1>t, <3>0
      <4> QED BY <1>s, <1>t, <2>1, <3>0, <3>1, <4>1, PutsTyped
    <3> QED BY <1>t, <2>3, <3>0, <3>2 DEF NoticeTypes
  <2>8. Worked(c, work[c].row)
    <3>1. work'[c] = w /\ \A d \in Replicas : d # c => work'[d] = work[d]
      BY <2>1 DEF Puts
    <3>2. rows'[work[c].row].status # "PENDING" /\ rows'[work[c].row].attempt # "none"
          /\ (rows'[work[c].row].status = "SENT" /\ rows'[work[c].row].channel \in Remote => work[c].row \in sent)
          /\ Len(rows') = Len(rows)
      <4>1. work[c].at = "sent" => (rows[work[c].row].channel \in Remote => work[c].row \in sent)
        BY WorkTypes DEF Came
      <4>2. rows'[work[c].row].channel = rows[work[c].row].channel
        BY <2>2 DEF Recorded
      <4> QED BY <2>2, <4>1, <4>2 DEF Recorded
    <3>3. \A r \in 1..Len(rows') : ~(r > Len(rows))
      BY <1>t, <3>2
    <3>4. Came(work'[c], rows', sent')
      BY <2>5, <3>1 DEF Came, HasRow
    <3> QED BY <1>s, <1>t, <2>3, <2>4, <2>5, <2>6, <3>1, <3>2, <3>3, <3>4 DEF Worked
  <2> QED BY <2>7, <2>8, WorkKeeps
<1> QED BY <1>1, <1>2, <1>3

\* The topic grows.
LEMMA AskForm ==
  ASSUME WorkInv, Ask PROVE Grows(requests, requests') /\ requests' \in Seq(Record0)
<1>1. PICK k \in Alerts, s \in Severities : requests' = Append(requests, [key |-> k, severity |-> s])
  BY DEF Ask
<1>2. [key |-> k, severity |-> s] \in Record0
  BY DEF Record0
<1>3. requests \in Seq(Record0)
  BY DEF WorkInv, NoticeTypes
<1> DEFINE r == [key |-> k, severity |-> s]
<1>4. r \in Record0 /\ requests' = Append(requests, r)
  BY <1>1, <1>2
<1> HIDE DEF r
<1> QED BY <1>3, <1>4 DEF Grows

\* The steps of nobody's work.
LEMMA WorkOfOthers ==
  ASSUME WorkInv,
         \/ Ask \/ (\E c \in Replicas : CommitOffset(c)) \/ (\E k \in Alerts : Expire(k))
         \/ UNCHANGED noticeVars
  PROVE  WorkInv'
<1>t. /\ requests \in Seq(Record0) /\ rows \in Seq(RowShape) /\ Len(requests) \in Nat
      /\ work \in [Replicas -> WorkShape(requests, rows)]
      /\ sent \subseteq 1..Len(rows) /\ keys \subseteq Alerts
      /\ groupOffset \in 0..Len(requests) /\ owner \in Replicas \cup {NoReplica}
      /\ mishaps \in 0..MaxMishaps /\ Grows(requests, requests)
  BY StillGrows DEF WorkInv, NoticeTypes
<1>1. CASE Ask
  <2>1. UNCHANGED <<groupOffset, owner, work, keys, rows, sent, mishaps, broken>>
    BY <1>1 DEF Ask, notices, told
  <2>2. Grows(requests, requests') /\ requests' \in Seq(Record0)
    BY <1>1, AskForm
  <2>3. Len(requests') \in Nat /\ 0..Len(requests) \subseteq 0..Len(requests')
    BY <1>t, <2>2 DEF Grows
  <2>4. work \in [Replicas -> WorkShape(requests', rows)]
    <3>1. WorkShape(requests, rows) \subseteq WorkShape(requests', rows)
      BY <2>3 DEF WorkShape
    <3> QED BY <1>t, <3>1
  <2>5. NoticeTypes'
    BY <1>t, <2>1, <2>2, <2>3, <2>4 DEF NoticeTypes
  <2> QED BY <2>1, <2>2, <2>5, WorkStays
<1>2. ASSUME NEW c \in Replicas, CommitOffset(c) PROVE WorkInv'
  <2>1. UNCHANGED <<requests, owner, work, keys, rows, sent, mishaps, broken>>
    BY <1>2 DEF CommitOffset, notices, told
  <2>2. groupOffset' \in 0..Len(requests)
    BY <1>2, WorkTypes DEF CommitOffset
  <2>3. NoticeTypes'
    BY <1>t, <2>1, <2>2 DEF NoticeTypes
  <2> QED BY <1>t, <2>1, <2>3, WorkStays
<1>3. ASSUME NEW k \in Alerts, Expire(k) PROVE WorkInv'
  <2>1. UNCHANGED <<requests, groupOffset, owner, work, rows, sent, broken>>
    BY <1>3 DEF Expire
  <2>2. keys' \subseteq Alerts /\ mishaps' \in 0..MaxMishaps
    BY <1>3, <1>t, NoticeAssumption DEF Expire, Mishap, NoticeAssumption
  <2>3. NoticeTypes'
    BY <1>t, <2>1, <2>2 DEF NoticeTypes
  <2> QED BY <1>t, <2>1, <2>3, WorkStays
<1>4. CASE UNCHANGED noticeVars
  <2>1. UNCHANGED <<requests, groupOffset, owner, work, keys, rows, sent, mishaps, broken>>
    BY <1>4 DEF noticeVars, notices, told
  <2>2. NoticeTypes'
    BY <1>t, <2>1 DEF NoticeTypes
  <2> QED BY <1>t, <2>1, <2>2, WorkStays
<1> QED BY <1>1, <1>2, <1>3, <1>4

\* The work invariant is inductive.
LEMMA WorkPreserved == ASSUME WorkInv, [NoticeNext]_noticeVars PROVE WorkInv'
<1>1. CASE Ask \/ (\E c \in Replicas : CommitOffset(c)) \/ (\E k \in Alerts : Expire(k))
           \/ UNCHANGED noticeVars
  BY <1>1, WorkOfOthers
<1>2. ASSUME NEW c \in Replicas,
             \/ StartReplica(c) \/ AssignTo(c) \/ Take(c) \/ SkipDuplicate(c) \/ GetNothing(c)
             \/ SetKey(c) \/ EndLoop(c)
      PROVE  WorkInv'
  BY <1>2, WorkOfMoves
<1>3. ASSUME NEW c \in Replicas, InsertRow(c) \/ Send(c) \/ Record(c) PROVE WorkInv'
  BY <1>3, WorkOfRows
<1> QED BY <1>1, <1>2, <1>3 DEF NoticeNext

\* It holds at the start.
LEMMA WorkInitial == NoticeAssumption /\ NoticeInit => WorkInv
<1> SUFFICES ASSUME NoticeAssumption, NoticeInit PROVE WorkInv
  OBVIOUS
<1>1. /\ requests = <<>> /\ groupOffset = 0 /\ owner = NoReplica /\ work = [c \in Replicas |-> Off]
      /\ keys = {} /\ rows = <<>> /\ sent = {} /\ mishaps = 0
  BY DEF NoticeInit
<1>2. requests \in Seq(Record0) /\ rows \in Seq(RowShape) /\ Len(requests) = 0 /\ Len(rows) = 0
  BY <1>1
<1>3. Off \in WorkShape(requests, rows)
  BY <1>2 DEF Off, WorkShape, Places, Nothing
<1>4. NoticeTypes
  <2>1. work \in [Replicas -> WorkShape(requests, rows)]
    BY <1>1, <1>3
  <2>2. 0 \in 0..MaxMishaps /\ 0 \in 0..Len(requests)
    BY <1>2 DEF NoticeAssumption
  <2> QED BY <1>1, <1>2, <2>1, <2>2 DEF NoticeTypes
<1>5. \A c \in Replicas : work[c].at = "off"
  BY <1>1 DEF Off
<1>6. \A c \in Replicas : Good(work[c], requests, rows) /\ ~HasRow(work[c]) /\ Came(work[c], rows, sent)
  BY <1>5 DEF Came, Good, IsBusy, IsSending, HasRow
<1>7. \A r \in 1..Len(rows) : FALSE
  BY <1>2
<1> QED BY <1>4, <1>6, <1>7 DEF WorkInv

\* It contains the types.
LEMMA NoticeTypesSafe == WorkInv => NoticeTypeOK
<1> SUFFICES ASSUME WorkInv PROVE NoticeTypeOK
  OBVIOUS
<1>t. /\ requests \in Seq(Record0) /\ rows \in Seq(RowShape)
      /\ keys \subseteq Alerts /\ groupOffset \in 0..Len(requests) /\ owner \in Replicas \cup {NoReplica}
      /\ mishaps \in 0..MaxMishaps
  BY DEF WorkInv, NoticeTypes
<1>1. ASSUME NEW o \in DOMAIN requests PROVE requests[o].key \in Alerts
  <2>1. requests[o] \in Record0
    BY <1>t
  <2> QED BY <2>1 DEF Record0
<1>2. ASSUME NEW c \in Replicas
      PROVE  /\ work[c].at \in {"off", "idle", "get", "set", "insert", "send", "sent", "failed"}
             /\ work[c].position \in 0..Len(requests) /\ work[c].record \in 0..Len(requests)
             /\ work[c].row \in 0..Len(rows)
  BY WorkTypes DEF Places
<1>3. \A r \in DOMAIN rows : rows[r].status = "PENDING" <=> rows[r].attempt = "none"
  <2>1. DOMAIN rows = 1..Len(rows)
    BY <1>t
  <2> QED BY <2>1 DEF WorkInv, RowOK
<1> QED BY <1>1, <1>2, <1>3, <1>t DEF NoticeTypeOK
-----------------------------------------------------------------------------
\* What has become of a key: AnsweredBy for one a request was consumed for, HeldBy
\* for one that is in Redis.
Tries(k, q, t) == \E p \in 1..Len(q) : /\ q[p].key = k
  /\ \A i \in 1..Len(Channels(q[p].severity)) :
       \E r \in 1..Len(t) : Tried(t[r], k, Channels(q[p].severity)[i])
\* b are the keys whose dispatch broke, v is everybody's work.
Handled(k, b, q, t, v) == \/ k \in b \/ Tries(k, q, t)
                          \/ \E c \in Replicas : IsBusy(v[c]) /\ KeyOf(v[c], q) = k
Held(k, b, q, t, v) == \/ k \in b \/ Tries(k, q, t)
                       \/ \E c \in Replicas : IsSending(v[c]) /\ KeyOf(v[c], q) = k
Reached(n, b, q, t, v) == \A o \in 1..n : Handled(q[o].key, b, q, t, v)
KeysInv ==
  /\ \A k \in keys : Held(k, broken, requests, rows, work)
  /\ Reached(groupOffset, broken, requests, rows, work)
  /\ owner # NoReplica => /\ groupOffset <= work[owner].position
                          /\ Reached(work[owner].position, broken, requests, rows, work)

\* An alert that was tried on every channel stays so.
LEMMA TriesStay ==
  ASSUME NEW q \in Seq(Record0), NEW q2 \in Seq(Record0), Grows(q, q2),
         NEW t \in Seq(RowShape), NEW t2 \in Seq(RowShape), NEW x, RowsGrow(t, t2, x), NEW k, Tries(k, q, t)
  PROVE  Tries(k, q2, t2)
<1>1. PICK p \in 1..Len(q) : /\ q[p].key = k
        /\ \A i \in 1..Len(Channels(q[p].severity)) :
             \E r \in 1..Len(t) : Tried(t[r], k, Channels(q[p].severity)[i])
  BY DEF Tries
<1>2. p \in 1..Len(q2) /\ q2[p] = q[p]
  BY DEF Grows
<1>3. \A i \in 1..Len(Channels(q[p].severity)) :
        \E r \in 1..Len(t2) : Tried(t2[r], k, Channels(q[p].severity)[i])
  BY <1>1, TriedStays
<1> QED BY <1>1, <1>2, <1>3 DEF Tries

\* What a key was owed before a step of c, it is owed after it.
Carries(c, x) ==
  /\ Grows(requests, requests') /\ RowsGrow(rows, rows', x) /\ broken \subseteq broken'
  /\ \A d \in Replicas : d # c => work'[d] = work[d]
  /\ IsBusy(work[c]) =>
       \/ KeyOf(work[c], requests) \in broken'
       \/ Tries(KeyOf(work[c], requests), requests', rows')
       \/ IsBusy(work'[c]) /\ KeyOf(work'[c], requests') = KeyOf(work[c], requests)
       \/ \E d \in Replicas : d # c /\ IsBusy(work[d]) /\ KeyOf(work[d], requests) = KeyOf(work[c], requests)
  /\ IsSending(work[c]) =>
       \/ KeyOf(work[c], requests) \in broken'
       \/ Tries(KeyOf(work[c], requests), requests', rows')
       \/ IsSending(work'[c]) /\ KeyOf(work'[c], requests') = KeyOf(work[c], requests)
Stays == \A k : /\ Handled(k, broken, requests, rows, work) => Handled(k, broken', requests', rows', work')
                /\ Held(k, broken, requests, rows, work) => Held(k, broken', requests', rows', work')

\* A replica keeps its key while the topic grows.
LEMMA BusyKey ==
  ASSUME WorkInv, NEW d \in Replicas, IsBusy(work[d]), NEW q, Grows(requests, q)
  PROVE  /\ KeyOf(work[d], q) = KeyOf(work[d], requests) /\ AskedOf(work[d], q) = AskedOf(work[d], requests)
         /\ work[d].record \in 1..Len(requests) /\ KeyOf(work[d], requests) \in Alerts
         /\ requests[work[d].record].severity \in Severities
<1>1. work[d].record # 0 /\ work[d].record \in 0..Len(requests) /\ Len(requests) \in Nat
      /\ requests \in Seq(Record0)
  BY WorkTypes DEF Good
<1>2. work[d].record \in 1..Len(requests)
  BY <1>1
<1>3. requests[work[d].record] \in Record0
  BY <1>1, <1>2
<1>4. q[work[d].record] = requests[work[d].record]
  BY <1>2 DEF Grows
<1> QED BY <1>2, <1>3, <1>4 DEF KeyOf, AskedOf, Record0

\* Then every key is owed no less.
LEMMA CarriesStays ==
  ASSUME WorkInv, WorkInv', NEW c \in Replicas, NEW x, Carries(c, x) PROVE Stays
<1>t. /\ requests \in Seq(Record0) /\ requests' \in Seq(Record0) /\ rows \in Seq(RowShape)
      /\ rows' \in Seq(RowShape)
  BY DEF WorkInv, NoticeTypes
<1>1. /\ Grows(requests, requests') /\ RowsGrow(rows, rows', x) /\ broken \subseteq broken'
      /\ \A d \in Replicas : d # c => work'[d] = work[d]
  BY DEF Carries
<1>2. \A k : Tries(k, requests, rows) => Tries(k, requests', rows')
  BY <1>1, <1>t, TriesStay
<1>3. \A d \in Replicas : IsBusy(work[d]) => KeyOf(work[d], requests') = KeyOf(work[d], requests)
  BY <1>1, BusyKey
<1>4. ASSUME NEW k, Handled(k, broken, requests, rows, work)
      PROVE  Handled(k, broken', requests', rows', work')
  <2>1. CASE k \in broken \/ Tries(k, requests, rows)
    BY <1>1, <1>2, <2>1 DEF Handled
  <2>2. ASSUME NEW d \in Replicas, d # c, IsBusy(work[d]), KeyOf(work[d], requests) = k
        PROVE  Handled(k, broken', requests', rows', work')
    <3>1. work'[d] = work[d] /\ KeyOf(work[d], requests') = k
      BY <1>1, <1>3, <2>2
    <3> QED BY <2>2, <3>1 DEF Handled
  <2>3. CASE IsBusy(work[c]) /\ KeyOf(work[c], requests) = k
    <3>1. \/ k \in broken' \/ Tries(k, requests', rows')
          \/ IsBusy(work'[c]) /\ KeyOf(work'[c], requests') = k
          \/ \E d \in Replicas : d # c /\ IsBusy(work[d]) /\ KeyOf(work[d], requests) = k
      BY <2>3 DEF Carries
    <3> QED BY <2>2, <3>1 DEF Handled
  <2> QED BY <1>4, <2>1, <2>2, <2>3 DEF Handled
<1>5. ASSUME NEW k, Held(k, broken, requests, rows, work)
      PROVE  Held(k, broken', requests', rows', work')
  <2>1. CASE k \in broken \/ Tries(k, requests, rows)
    BY <1>1, <1>2, <2>1 DEF Held
  <2>2. ASSUME NEW d \in Replicas, d # c, IsSending(work[d]), KeyOf(work[d], requests) = k
        PROVE  Held(k, broken', requests', rows', work')
    <3>1. IsBusy(work[d])
      BY <2>2 DEF IsSending, IsBusy
    <3>2. work'[d] = work[d] /\ KeyOf(work[d], requests') = k
      BY <1>1, <1>3, <2>2, <3>1
    <3> QED BY <2>2, <3>2 DEF Held
  <2>3. CASE IsSending(work[c]) /\ KeyOf(work[c], requests) = k
    <3>1. \/ k \in broken' \/ Tries(k, requests', rows')
          \/ IsSending(work'[c]) /\ KeyOf(work'[c], requests') = k
      BY <2>3 DEF Carries
    <3> QED BY <3>1 DEF Held
  <2> QED BY <1>5, <2>1, <2>2, <2>3 DEF Held
<1> QED BY <1>4, <1>5 DEF Stays

Old(o) == o \in 1..groupOffset \/ (owner # NoReplica /\ o \in 1..work[owner].position)

\* A step that owes no less keeps the invariant of the keys, if what it reaches was.
LEMMA KeysKeep ==
  ASSUME WorkInv, KeysInv, WorkInv', Stays, Grows(requests, requests'),
         \A k \in keys' : k \in keys \/ Held(k, broken', requests', rows', work'),
         \A o \in 1..groupOffset' : Old(o),
         owner' # NoReplica =>
           /\ groupOffset' <= work'[owner'].position
           /\ \A o \in 1..work'[owner'].position :
                Old(o) \/ Handled(requests'[o].key, broken', requests', rows', work')
  PROVE  KeysInv'
<1>t. /\ groupOffset \in 0..Len(requests) /\ Len(requests) \in Nat
      /\ owner # NoReplica => owner \in Replicas
  BY DEF WorkInv, NoticeTypes
<1>1. owner # NoReplica => work[owner].position \in 0..Len(requests)
  BY <1>t, WorkTypes
<1>2. ASSUME NEW o, Old(o) PROVE Handled(requests'[o].key, broken', requests', rows', work')
  <2>1. o \in 1..Len(requests) /\ Handled(requests[o].key, broken, requests, rows, work)
    BY <1>2, <1>t, <1>1 DEF KeysInv, Reached, Old
  <2>2. requests'[o] = requests[o]
    BY <2>1 DEF Grows
  <2> QED BY <2>1, <2>2 DEF Stays
<1>3. \A k \in keys' : Held(k, broken', requests', rows', work')
  BY DEF KeysInv, Stays
<1> QED BY <1>2, <1>3 DEF KeysInv, Reached

\* The steps that leave the offsets alone.
LEMMA KeysKeepHere ==
  ASSUME WorkInv, KeysInv, WorkInv', NEW c \in Replicas, NEW x, Carries(c, x), NEW w, Puts(c, w),
         w.position = work[c].position, groupOffset' = groupOffset, owner' = owner,
         \A k \in keys' : k \in keys \/ Held(k, broken', requests', rows', work')
  PROVE  KeysInv'
<1>1. Stays /\ Grows(requests, requests')
  BY CarriesStays DEF Carries
<1>2. \A d \in Replicas : work'[d].position = work[d].position
  BY DEF Puts
<1>3. owner # NoReplica => owner \in Replicas
  BY DEF WorkInv, NoticeTypes
<1>4. \A o \in 1..groupOffset' : Old(o)
  BY DEF Old
<1>5. owner' # NoReplica => /\ groupOffset' <= work'[owner'].position
                            /\ \A o \in 1..work'[owner'].position : Old(o)
  BY <1>2, <1>3 DEF Old, KeysInv
<1> QED BY <1>1, <1>4, <1>5, KeysKeep

\* The steps before the sending keep it,
LEMMA KeysOfMoves ==
  ASSUME WorkInv, KeysInv, WorkInv', NEW c \in Replicas,
         StartReplica(c) \/ SkipDuplicate(c) \/ GetNothing(c) \/ SetKey(c)
  PROVE  KeysInv'
<1>g. Grows(requests, requests) /\ RowsGrow(rows, rows, 0) /\ requests \in Seq(Record0) /\ rows \in Seq(RowShape)
  BY StillGrows DEF WorkInv, NoticeTypes
<1>1. CASE StartReplica(c)
  <2>1. PICK w \in WorkShape(requests, rows) : Puts(c, w) /\ w.position = work[c].position
    <3>1. Move(c, "idle") /\ "idle" \in Places
      BY <1>1 DEF StartReplica, Places
    <3> QED BY <3>1, MoveForm
  <2>2. UNCHANGED <<requests, rows, broken, keys, groupOffset, owner>> /\ work[c].at = "off"
    BY <1>1 DEF StartReplica, notices, told
  <2>3. Carries(c, 0)
    BY <1>g, <2>1, <2>2 DEF Carries, Puts, IsBusy, IsSending
  <2> QED BY <2>1, <2>2, <2>3, KeysKeepHere
<1>2. CASE SkipDuplicate(c)
  <2>1. PICK w \in WorkShape(requests, rows) : Puts(c, w) /\ w.position = work[c].position
    BY <1>2, RestForm DEF SkipDuplicate
  <2>2. UNCHANGED <<requests, rows, broken, keys, groupOffset, owner>> /\ work[c].at = "get"
        /\ KeyOf(work[c], requests) \in keys
    BY <1>2 DEF SkipDuplicate, notices, told, Key, Request, KeyOf
  <2>3. ~IsSending(work[c])
    BY <2>2 DEF IsSending
  <2> DEFINE k == KeyOf(work[c], requests)
  <2>4. \/ k \in broken \/ Tries(k, requests, rows)
        \/ \E d \in Replicas : IsSending(work[d]) /\ KeyOf(work[d], requests) = k
    BY <2>2 DEF KeysInv, Held
  <2>5. \/ k \in broken \/ Tries(k, requests, rows)
        \/ \E d \in Replicas : d # c /\ IsBusy(work[d]) /\ KeyOf(work[d], requests) = k
    BY <2>3, <2>4 DEF IsSending, IsBusy
  <2>6. Carries(c, 0)
    BY <1>g, <2>1, <2>2, <2>3, <2>5 DEF Carries, Puts
  <2> QED BY <2>1, <2>2, <2>6, KeysKeepHere
<1>3. CASE GetNothing(c)
  <2>1. PICK w \in WorkShape(requests, rows) :
          Puts(c, w) /\ w.position = work[c].position /\ w.at = "set" /\ w.record = work[c].record
    <3>1. Move(c, "set") /\ "set" \in Places
      BY <1>3 DEF GetNothing, Places
    <3> QED BY <3>1, MoveForm
  <2>2. UNCHANGED <<requests, rows, broken, keys, groupOffset, owner>> /\ work[c].at = "get"
    BY <1>3 DEF GetNothing, notices
  <2>3. IsBusy(w) /\ KeyOf(w, requests) = KeyOf(work[c], requests) /\ ~IsSending(work[c])
    BY <2>1, <2>2 DEF IsBusy, IsSending, KeyOf
  <2>4. Carries(c, 0)
    BY <1>g, <2>1, <2>2, <2>3 DEF Carries, Puts
  <2> QED BY <2>1, <2>2, <2>4, KeysKeepHere
<1>4. CASE SetKey(c)
  <2>1. PICK w \in WorkShape(requests, rows) :
          Puts(c, w) /\ w.position = work[c].position /\ w.at = "insert" /\ w.record = work[c].record
    BY <1>4, SetForm
  <2>2. UNCHANGED <<requests, rows, broken, groupOffset, owner>> /\ work[c].at = "set"
        /\ keys' = keys \cup {KeyOf(work[c], requests)}
    BY <1>4, SetForm DEF SetKey, told
  <2>3. IsBusy(w) /\ IsSending(w) /\ KeyOf(w, requests) = KeyOf(work[c], requests) /\ ~IsSending(work[c])
    BY <2>1, <2>2 DEF IsBusy, IsSending, KeyOf
  <2>4. Carries(c, 0)
    BY <1>g, <2>1, <2>2, <2>3 DEF Carries, Puts
  <2>5. Held(KeyOf(work[c], requests), broken', requests', rows', work')
    BY <2>1, <2>2, <2>3 DEF Held, Puts
  <2> QED BY <2>1, <2>2, <2>4, <2>5, KeysKeepHere
<1> QED BY <1>1, <1>2, <1>3, <1>4

\* so do those of the sending,
LEMMA KeysOfRows ==
  ASSUME WorkInv, KeysInv, WorkInv', NEW c \in Replicas, InsertRow(c) \/ Send(c) \/ Record(c)
  PROVE  KeysInv'
<1>g. Grows(requests, requests) /\ RowsGrow(rows, rows, 0) /\ requests \in Seq(Record0) /\ rows \in Seq(RowShape)
      /\ Len(rows) \in Nat
  BY StillGrows DEF WorkInv, NoticeTypes
<1>1. CASE InsertRow(c)
  <2>1. PICK w \in WorkShape(requests, rows') :
          Puts(c, w) /\ w.position = work[c].position /\ w.at = "send" /\ w.record = work[c].record
    BY <1>1, InsertForm
  <2>2. UNCHANGED <<requests, broken, keys, groupOffset, owner>>
    BY <1>1 DEF InsertRow, told
  <2>3. RowsGrow(rows, rows', 0)
    <3>1. Len(rows') = Len(rows) + 1 /\ \A r \in 1..Len(rows) : rows'[r] = rows[r]
      BY <1>1, InsertForm
    <3> QED BY <1>g, <3>1 DEF RowsGrow
  <2>4. IsBusy(w) /\ IsSending(w) /\ KeyOf(w, requests) = KeyOf(work[c], requests)
    BY <2>1 DEF IsBusy, IsSending, KeyOf
  <2>5. Carries(c, 0)
    BY <1>g, <2>1, <2>2, <2>3, <2>4 DEF Carries, Puts
  <2> QED BY <2>1, <2>2, <2>5, KeysKeepHere
<1>2. CASE Send(c)
  <2>1. PICK w \in WorkShape(requests, rows) :
          Puts(c, w) /\ w.position = work[c].position /\ w.at \in {"sent", "failed"}
          /\ w.record = work[c].record
    BY <1>2, SendForm
  <2>2. UNCHANGED <<requests, rows, broken, keys, groupOffset, owner>>
    BY <1>2 DEF Send, told
  <2>4. IsBusy(w) /\ IsSending(w) /\ KeyOf(w, requests) = KeyOf(work[c], requests)
    BY <2>1 DEF IsBusy, IsSending, KeyOf
  <2>5. Carries(c, 0)
    BY <1>g, <2>1, <2>2, <2>4 DEF Carries, Puts
  <2> QED BY <2>1, <2>2, <2>5, KeysKeepHere
<1>3. CASE Record(c)
  <2>1. PICK w \in WorkShape(requests, rows) :
              /\ Puts(c, w) /\ w.position = work[c].position /\ w.queue = Tail(work[c].queue)
              /\ w.at = (IF w.queue = <<>> THEN "idle" ELSE "insert")
              /\ w.queue # <<>> => w.record = work[c].record
    BY <1>3, RecordForm
  <2>2. UNCHANGED <<requests, broken, keys, groupOffset, owner>>
    BY <1>3 DEF Record, told
  <2> DEFINE k == KeyOf(work[c], requests)
             asked == AskedOf(work[c], requests)
             done == DoneOf(work[c], requests)
  <2>3. /\ RowsGrow(rows, rows', work[c].row)
        /\ QueueOK(work[c], requests) /\ work[c].record \in 1..Len(requests)
        /\ asked \in Seq(Names) /\ done \in Nat
        /\ \A i \in 1..(done + 1) : \E r \in 1..Len(rows') : Tried(rows'[r], k, asked[i])
    BY <1>3, RecordTries
  <2>4. CASE w.queue # <<>>
    <3>1. IsBusy(w) /\ IsSending(w) /\ KeyOf(w, requests) = KeyOf(work[c], requests)
      BY <2>1, <2>4 DEF IsBusy, IsSending, KeyOf
    <3>2. Carries(c, work[c].row)
      BY <1>g, <2>1, <2>2, <2>3, <3>1 DEF Carries, Puts
    <3> QED BY <2>1, <2>2, <3>2, KeysKeepHere
  <2>5. CASE w.queue = <<>>
    <3>1. Len(work[c].queue) = 1
      <4>1. work[c].queue \in Seq(Names) /\ Len(work[c].queue) >= 1
        <5>1. work[c].queue \in Seq(Names) /\ Len(asked) \in Nat
          BY <2>3, WorkTypes
        <5>2. Len(work[c].queue) \in 1..Len(asked)
          BY <2>3 DEF QueueOK
        <5> QED BY <5>1, <5>2
      <4>2. Len(Tail(work[c].queue)) = Len(work[c].queue) - 1
        BY <4>1
      <4>3. Len(Tail(work[c].queue)) = 0
        <5>1. Tail(work[c].queue) = <<>> /\ Len(<<>>) = 0
          BY <2>1, <2>5
        <5> QED BY <5>1
      <4> QED BY <4>1, <4>2, <4>3
    <3>2. done + 1 = Len(asked)
      <4>1. done = Len(asked) - 1
        BY <3>1 DEF DoneOf
      <4>2. Len(asked) \in Nat
        BY <2>3
      <4> HIDE DEF done, asked
      <4> QED BY <4>1, <4>2
    <3>3. Tries(k, requests, rows')
      <4>1. \A i \in 1..Len(asked) : \E r \in 1..Len(rows') : Tried(rows'[r], k, asked[i])
        BY <2>3, <3>2
      <4> QED BY <2>3, <4>1 DEF Tries, KeyOf, AskedOf
    <3>4. Carries(c, work[c].row)
      BY <1>g, <2>1, <2>2, <2>3, <3>3 DEF Carries, Puts
    <3> QED BY <2>1, <2>2, <3>4, KeysKeepHere
  <2> QED BY <2>4, <2>5
<1> QED BY <1>1, <1>2, <1>3

\* those that move an offset
LEMMA KeysOfOffsets ==
  ASSUME WorkInv, KeysInv, WorkInv', NEW c \in Replicas, AssignTo(c) \/ Take(c) \/ EndLoop(c)
  PROVE  KeysInv'
<1>g. /\ Grows(requests, requests) /\ RowsGrow(rows, rows, 0) /\ requests \in Seq(Record0)
      /\ rows \in Seq(RowShape) /\ groupOffset \in 0..Len(requests) /\ Len(requests) \in Nat
      /\ owner # NoReplica => owner \in Replicas
  BY StillGrows DEF WorkInv, NoticeTypes
<1>1. CASE AssignTo(c)
  <2>1. PICK w \in WorkShape(requests, rows) :
          Puts(c, w) /\ w.position = groupOffset' /\ w.at = work[c].at /\ w.record = work[c].record
    BY <1>1, AssignForm
  <2>2. UNCHANGED <<requests, rows, broken, keys>>
    BY <1>1 DEF AssignTo, notices, told
  <2>3. (IsBusy(work[c]) <=> IsBusy(w)) /\ (IsSending(work[c]) <=> IsSending(w))
        /\ KeyOf(w, requests) = KeyOf(work[c], requests)
    BY <2>1 DEF IsBusy, IsSending, KeyOf
  <2>4. Carries(c, 0)
    BY <1>g, <2>1, <2>2, <2>3 DEF Carries, Puts
  <2>5. owner' = c /\ groupOffset' \in 0..Len(requests)
        /\ (owner = NoReplica => groupOffset' = groupOffset)
        /\ (owner # NoReplica => groupOffset' = groupOffset \/ groupOffset' = work[owner].position)
    BY <1>1, AssignForm
  <2>6. \A o \in 1..groupOffset' : Old(o)
    BY <2>5 DEF Old
  <2>7. work'[owner'].position = groupOffset' /\ groupOffset' <= groupOffset'
    BY <2>1, <2>5 DEF Puts
  <2> QED BY <1>g, <2>2, <2>4, <2>6, <2>7, CarriesStays, KeysKeep
<1>2. CASE Take(c)
  <2>1. PICK w \in WorkShape(requests, rows) :
          /\ Puts(c, w) /\ w.at = "get" /\ w.position = work[c].position + 1
          /\ w.record = work[c].position + 1
    BY <1>2, TakeForm
  <2>2. UNCHANGED <<requests, rows, broken, keys, groupOffset, owner>> /\ work[c].at = "idle" /\ owner = c
        /\ work[c].position \in 0..Len(requests)
    BY <1>2, WorkTypes DEF Take, notices, told
  <2>3. Carries(c, 0)
    BY <1>g, <2>1, <2>2 DEF Carries, Puts, IsBusy, IsSending
  <2> DEFINE n == work[c].position + 1
  <2>4. work'[owner'].position = n
    BY <2>1, <2>2 DEF Puts
  <2>5. Handled(requests[n].key, broken, requests, rows, work')
    BY <2>1 DEF Handled, Puts, IsBusy, KeyOf
  <2>6. \A o \in 1..groupOffset : Old(o)
    BY DEF Old
  <2>7. owner # NoReplica => groupOffset <= n /\ \A o \in 1..n :
          Old(o) \/ Handled(requests[o].key, broken, requests, rows, work')
    <3> SUFFICES ASSUME owner # NoReplica
                 PROVE  groupOffset <= n /\ \A o \in 1..n :
                          Old(o) \/ Handled(requests[o].key, broken, requests, rows, work')
      OBVIOUS
    <3>1. groupOffset <= work[c].position
      BY <2>2 DEF KeysInv
    <3>2. \A o \in 1..n : o \in 1..work[c].position \/ o = n
      BY <2>2
    <3>3. groupOffset <= n
      BY <1>g, <2>2, <3>1
    <3> HIDE DEF n
    <3> QED BY <2>2, <2>5, <3>2, <3>3 DEF Old
  <2> HIDE DEF n
  <2>8. \A k \in keys' : k \in keys
    BY <2>2
  <2> QED BY <1>g, <2>2, <2>3, <2>4, <2>6, <2>7, <2>8, CarriesStays, KeysKeep
<1>3. CASE EndLoop(c)
  <2>1. /\ Puts(c, Off) /\ broken \subseteq broken'
        /\ owner = c => owner' = NoReplica /\ (groupOffset' = groupOffset \/ groupOffset' = work[c].position)
        /\ owner # c => owner' = owner /\ groupOffset' = groupOffset
        /\ IsBusy(work[c]) => KeyOf(work[c], requests) \in broken'
    BY <1>3, OffForm
  <2>2. UNCHANGED <<requests, rows, keys>>
    BY <1>3 DEF EndLoop, notices
  <2>3. Carries(c, 0)
    BY <1>g, <2>1, <2>2 DEF Carries, Puts, IsBusy, IsSending
  <2>4. \A o \in 1..groupOffset' : Old(o)
    <3>1. owner = c => owner # NoReplica
      BY NoticeAssumption DEF NoticeAssumption
    <3> QED BY <2>1, <3>1 DEF Old, KeysInv
  <2>5. owner' # NoReplica =>
           groupOffset' <= work'[owner'].position /\ \A o \in 1..work'[owner'].position : Old(o)
    BY <1>g, <2>1 DEF Puts, Old, KeysInv
  <2> QED BY <1>g, <2>2, <2>3, <2>4, <2>5, CarriesStays, KeysKeep
<1> QED BY <1>1, <1>2, <1>3

\* Where nobody moves, every key is owed no less,
LEMMA StillStays ==
  ASSUME WorkInv, WorkInv', work' = work, rows' = rows, broken' = broken, Grows(requests, requests')
  PROVE  Stays
<1>t. requests \in Seq(Record0) /\ requests' \in Seq(Record0) /\ rows \in Seq(RowShape)
      /\ RowsGrow(rows, rows, 0)
  BY StillGrows DEF WorkInv, NoticeTypes
<1>1. \A k : Tries(k, requests, rows) => Tries(k, requests', rows)
  BY <1>t, TriesStay
<1>2. \A d \in Replicas : IsBusy(work[d]) => KeyOf(work[d], requests') = KeyOf(work[d], requests)
  BY BusyKey
<1>3. \A d \in Replicas : IsSending(work[d]) => IsBusy(work[d])
  BY DEF IsSending, IsBusy
<1>4. ASSUME NEW k, Handled(k, broken, requests, rows, work) PROVE Handled(k, broken, requests', rows, work)
  BY <1>1, <1>2, <1>4 DEF Handled
<1>5. ASSUME NEW k, Held(k, broken, requests, rows, work) PROVE Held(k, broken, requests', rows, work)
  BY <1>1, <1>2, <1>3, <1>5 DEF Held
<1> QED BY <1>4, <1>5 DEF Stays

\* so the others keep it too.
LEMMA KeysOfOthers ==
  ASSUME WorkInv, KeysInv, WorkInv',
         \/ Ask \/ (\E c \in Replicas : CommitOffset(c)) \/ (\E k \in Alerts : Expire(k))
         \/ UNCHANGED noticeVars
  PROVE  KeysInv'
<1>g. /\ Grows(requests, requests) /\ groupOffset \in 0..Len(requests) /\ Len(requests) \in Nat
      /\ owner # NoReplica => owner \in Replicas
  BY StillGrows DEF WorkInv, NoticeTypes
<1>0. owner # NoReplica => work[owner].position \in Nat /\ groupOffset <= work[owner].position
  BY <1>g, WorkTypes DEF KeysInv
<1>1. \A o \in 1..groupOffset : Old(o)
  BY DEF Old
<1>2. owner # NoReplica => \A o \in 1..work[owner].position : Old(o)
  BY DEF Old
<1>3. CASE Ask
  <2>1. UNCHANGED <<groupOffset, owner, work, keys, rows, broken>>
    BY <1>3 DEF Ask, notices, told
  <2>2. Grows(requests, requests')
    BY <1>3, AskForm
  <2>3. Stays
    BY <2>1, <2>2, StillStays
  <2> QED BY <1>0, <1>1, <1>2, <2>1, <2>2, <2>3, KeysKeep
<1>4. ASSUME NEW c \in Replicas, CommitOffset(c) PROVE KeysInv'
  <2>1. UNCHANGED <<requests, owner, work, keys, rows, broken>> /\ owner = c /\ owner # NoReplica
        /\ groupOffset' = work[owner].position
    BY <1>4, NoticeAssumption DEF CommitOffset, notices, told, NoticeAssumption
  <2>2. Stays
    BY <1>g, <2>1, StillStays
  <2>3. groupOffset' <= work'[owner'].position
    BY <1>0, <2>1
  <2> QED BY <1>g, <1>2, <2>1, <2>2, <2>3, KeysKeep
<1>5. ASSUME NEW k \in Alerts, Expire(k) PROVE KeysInv'
  <2>1. UNCHANGED <<requests, groupOffset, owner, work, rows, broken>> /\ keys' \subseteq keys
    BY <1>5 DEF Expire
  <2>2. Stays
    BY <1>g, <2>1, StillStays
  <2> QED BY <1>g, <1>0, <1>1, <1>2, <2>1, <2>2, KeysKeep
<1>6. CASE UNCHANGED noticeVars
  <2>1. UNCHANGED <<requests, groupOffset, owner, work, keys, rows, broken>>
    BY <1>6 DEF noticeVars, notices, told
  <2>2. Stays
    BY <1>g, <2>1, StillStays
  <2> QED BY <1>g, <1>0, <1>1, <1>2, <2>1, <2>2, KeysKeep
<1> QED BY <1>3, <1>4, <1>5, <1>6

\* The invariant of the keys is inductive.
LEMMA KeysPreserved ==
  ASSUME WorkInv, KeysInv, WorkInv', [NoticeNext]_noticeVars PROVE KeysInv'
<1>1. CASE Ask \/ (\E c \in Replicas : CommitOffset(c)) \/ (\E k \in Alerts : Expire(k))
           \/ UNCHANGED noticeVars
  BY <1>1, KeysOfOthers
<1>2. ASSUME NEW c \in Replicas,
             StartReplica(c) \/ SkipDuplicate(c) \/ GetNothing(c) \/ SetKey(c)
      PROVE  KeysInv'
  BY <1>2, KeysOfMoves
<1>3. ASSUME NEW c \in Replicas, AssignTo(c) \/ Take(c) \/ EndLoop(c) PROVE KeysInv'
  BY <1>3, KeysOfOffsets
<1>4. ASSUME NEW c \in Replicas, InsertRow(c) \/ Send(c) \/ Record(c) PROVE KeysInv'
  BY <1>4, KeysOfRows
<1> QED BY <1>1, <1>2, <1>3, <1>4 DEF NoticeNext

\* It holds at the start.
LEMMA KeysInitial == NoticeInit => KeysInv
<1> SUFFICES ASSUME NoticeInit PROVE KeysInv
  OBVIOUS
<1>1. groupOffset = 0 /\ owner = NoReplica /\ keys = {}
  BY DEF NoticeInit
<1>2. \A o \in 1..groupOffset : FALSE
  BY <1>1
<1> QED BY <1>1, <1>2 DEF KeysInv, Reached

\* Together they contain the property.
LEMMA NotifiedSafe == WorkInv /\ KeysInv => NotifiedOrBroken
<1> SUFFICES ASSUME WorkInv, KeysInv PROVE NotifiedOrBroken
  OBVIOUS
<1>t. /\ requests \in Seq(Record0) /\ rows \in Seq(RowShape) /\ DOMAIN requests = 1..Len(requests)
      /\ DOMAIN rows = 1..Len(rows) /\ groupOffset \in 0..Len(requests) /\ Len(requests) \in Nat
      /\ owner # NoReplica => owner \in Replicas
  BY DEF WorkInv, NoticeTypes
<1>1. \A k : Dispatching(k) <=> \E c \in Replicas : IsBusy(work[c]) /\ KeyOf(work[c], requests) = k
  BY DEF Dispatching, Busy, Key, Request, IsBusy, KeyOf
<1>2. ASSUME NEW k, NEW s \in Severities,
             \A i \in 1..Len(Channels(s)) : \E r \in 1..Len(rows) : Tried(rows[r], k, Channels(s)[i])
      PROVE  Attempted(k, s)
  <2>1. DOMAIN Channels(s) = 1..Len(Channels(s))
    BY NoticeAssumption, ChannelsDiffer
  <2> QED BY <1>2, <1>t, <2>1 DEF Attempted, Tried
<1>3. ASSUME NEW k, Tries(k, requests, rows)
      PROVE  \E p \in DOMAIN requests : requests[p].key = k /\ Attempted(k, requests[p].severity)
  <2>1. PICK p \in 1..Len(requests) : /\ requests[p].key = k
          /\ \A i \in 1..Len(Channels(requests[p].severity)) :
               \E r \in 1..Len(rows) : Tried(rows[r], k, Channels(requests[p].severity)[i])
    BY <1>3 DEF Tries
  <2>2. requests[p] \in Record0
    BY <1>t
  <2>3. requests[p].severity \in Severities
    BY <2>2 DEF Record0
  <2> QED BY <1>2, <1>t, <2>1, <2>3
<1>4. ASSUME NEW o \in Consumed
      PROVE  \/ requests[o].key \in broken \/ Dispatching(requests[o].key)
             \/ \E p \in DOMAIN requests :
                  requests[p].key = requests[o].key /\ Attempted(requests[o].key, requests[p].severity)
  <2>1. Handled(requests[o].key, broken, requests, rows, work)
    BY <1>4 DEF Consumed, KeysInv, Reached
  <2> QED BY <1>1, <1>3, <2>1 DEF Handled
<1>5. ASSUME NEW r \in 1..Len(rows)
      PROVE  /\ rows[r].status = "PENDING" => rows[r].key \in broken \/ Dispatching(rows[r].key)
             /\ rows[r].status = "SENT" /\ rows[r].channel \in Remote => r \in sent
  <2>1. RowOK(r)
    BY DEF WorkInv
  <2>2. ASSUME NEW c \in Replicas, HasRow(work[c]), work[c].row = r PROVE Dispatching(rows[r].key)
    <3>1. Good(work[c], requests, rows) /\ IsBusy(work[c])
      BY <2>2 DEF WorkInv, HasRow, IsBusy
    <3>2. rows[r].key = KeyOf(work[c], requests)
      BY <2>2, <3>1 DEF Good, Fresh0
    <3> QED BY <1>1, <3>1, <3>2
  <2> QED BY <2>1, <2>2 DEF RowOK
<1> QED BY <1>4, <1>5, <1>t DEF NotifiedOrBroken
-----------------------------------------------------------------------------
\* Where nothing was raced and nothing expired, one dispatch at a time is past the
\* look-up of a key, and the rows of the key are those it has made.
Holds(w) == w.at = "set" \/ IsSending(w)
Made(w, q, t, r) == \/ \E i \in 1..DoneOf(w, q) : t[r].channel = AskedOf(w, q)[i]
                    \/ HasRow(w) /\ r = w.row
HolderOK(w, q, t, ks) ==
  /\ w.at = "set" => KeyOf(w, q) \notin ks
  /\ IsSending(w) => /\ KeyOf(w, q) \in ks
                     /\ \A r \in 1..Len(t) : t[r].key = KeyOf(w, q) => Made(w, q, t, r)
RowsOnce(k, t, ks) ==
  \A r \in 1..Len(t) : t[r].key = k =>
    k \in ks /\ \A s \in 1..Len(t) : t[s].key = k /\ t[s].channel = t[r].channel => r = s
OnceInv ==
  /\ \A c \in Replicas : Holds(work[c]) /\ KeyOf(work[c], requests) \notin raced \cup expired =>
       HolderOK(work[c], requests, rows, keys)
  /\ \A c, d \in Replicas :
       /\ Holds(work[c]) /\ Holds(work[d]) /\ KeyOf(work[c], requests) = KeyOf(work[d], requests)
       /\ KeyOf(work[c], requests) \notin raced \cup expired
       => c = d
  /\ \A k : k \notin raced \cup expired => RowsOnce(k, rows, keys)

\* What a step of c leaves to the others, makes of c's own work, and of the table.
Spares(c) ==
  /\ requests' = requests /\ raced \subseteq raced' /\ expired \subseteq expired'
  /\ Len(rows') >= Len(rows)
  /\ \A r \in 1..Len(rows) : rows'[r].key = rows[r].key /\ rows'[r].channel = rows[r].channel
  /\ \A d \in Replicas : d # c /\ Holds(work[d]) /\ KeyOf(work[d], requests) \notin raced' \cup expired' =>
       /\ KeyOf(work[d], requests) \in keys' <=> KeyOf(work[d], requests) \in keys
       /\ \A r \in 1..Len(rows') : rows'[r].key = KeyOf(work[d], requests) => r \in 1..Len(rows)
Alone(c, w) ==
  Holds(w) /\ KeyOf(w, requests) \notin raced' \cup expired' =>
    /\ HolderOK(w, requests, rows', keys')
    /\ \A d \in Replicas : d # c => ~(Holds(work[d]) /\ KeyOf(work[d], requests) = KeyOf(w, requests))
RowsStay == \A k : k \notin raced' \cup expired' => RowsOnce(k, rows', keys')

\* A step that spares the others so keeps the invariant.
LEMMA OnceKeeps ==
  ASSUME WorkInv, OnceInv, NEW c \in Replicas, NEW w, Puts(c, w), Spares(c), Alone(c, w), RowsStay
  PROVE  OnceInv'
<1>1. work'[c] = w /\ (\A d \in Replicas : d # c => work'[d] = work[d]) /\ requests' = requests
      /\ \A k : k \notin raced' \cup expired' => k \notin raced \cup expired
  BY DEF Puts, Spares
<1>2. ASSUME NEW d \in Replicas, Holds(work'[d]), KeyOf(work'[d], requests) \notin raced' \cup expired'
      PROVE  HolderOK(work'[d], requests, rows', keys')
  <2>1. CASE d = c
    BY <1>1, <1>2, <2>1 DEF Alone
  <2>2. CASE d # c
    <3>1. work'[d] = work[d] /\ HolderOK(work[d], requests, rows, keys)
      BY <1>1, <1>2, <2>2 DEF OnceInv
    <3>2. KeyOf(work[d], requests) \in keys' <=> KeyOf(work[d], requests) \in keys
      BY <1>2, <2>2, <3>1 DEF Spares
    <3>3. ASSUME IsSending(work[d]), NEW r \in 1..Len(rows'), rows'[r].key = KeyOf(work[d], requests)
          PROVE  Made(work[d], requests, rows', r)
      <4>1. r \in 1..Len(rows)
        BY <1>2, <2>2, <3>1, <3>3 DEF Spares
      <4>2. rows'[r].key = rows[r].key /\ rows'[r].channel = rows[r].channel
        BY <4>1 DEF Spares
      <4>3. Made(work[d], requests, rows, r)
        BY <3>1, <3>3, <4>1, <4>2 DEF HolderOK
      <4> QED BY <4>2, <4>3 DEF Made
    <3> QED BY <3>1, <3>2, <3>3 DEF HolderOK
  <2> QED BY <2>1, <2>2
<1>3. ASSUME NEW d \in Replicas, NEW e \in Replicas, Holds(work'[d]), Holds(work'[e]),
             KeyOf(work'[d], requests) = KeyOf(work'[e], requests),
             KeyOf(work'[d], requests) \notin raced' \cup expired'
      PROVE  d = e
  <2>1. CASE d # c /\ e # c
    <3>1. work'[d] = work[d] /\ work'[e] = work[e]
      BY <1>1, <2>1
    <3> QED BY <1>1, <1>3, <3>1 DEF OnceInv
  <2>2. ASSUME d = c, e # c PROVE FALSE
    BY <1>1, <1>3, <2>2 DEF Alone
  <2>3. ASSUME d # c, e = c PROVE FALSE
    BY <1>1, <1>3, <2>3 DEF Alone
  <2> QED BY <2>1, <2>2, <2>3
<1> QED BY <1>1, <1>2, <1>3 DEF OnceInv, RowsStay

\* The steps that change neither the table nor Redis.
LEMMA OnceMoves ==
  ASSUME WorkInv, OnceInv, NEW c \in Replicas, NEW w, Puts(c, w),
         UNCHANGED <<requests, rows, keys, raced, expired>>,
         Holds(w) => KeyOf(w, requests) = KeyOf(work[c], requests),
         w.at = "set" => work[c].at = "set",
         IsSending(w) => /\ IsSending(work[c]) /\ w.record = work[c].record /\ w.queue = work[c].queue
                         /\ HasRow(work[c]) => HasRow(w) /\ w.row = work[c].row
  PROVE  OnceInv'
<1>1. Spares(c)
  <2>1. Len(rows) \in Nat
    BY DEF WorkInv, NoticeTypes
  <2> QED BY <2>1 DEF Spares
<1>2. RowsStay
  BY DEF RowsStay, OnceInv
<1>3. Alone(c, w)
  <2> SUFFICES ASSUME Holds(w), KeyOf(w, requests) \notin raced \cup expired
               PROVE  /\ HolderOK(w, requests, rows, keys)
                      /\ \A d \in Replicas : d # c =>
                           ~(Holds(work[d]) /\ KeyOf(work[d], requests) = KeyOf(w, requests))
    BY DEF Alone
  <2>1. Holds(work[c]) /\ KeyOf(w, requests) = KeyOf(work[c], requests)
    BY DEF Holds
  <2>2. HolderOK(work[c], requests, rows, keys)
    BY <2>1 DEF OnceInv
  <2>3. \A d \in Replicas : d # c => ~(Holds(work[d]) /\ KeyOf(work[d], requests) = KeyOf(w, requests))
    BY <2>1 DEF OnceInv
  <2>4. ASSUME IsSending(w), NEW r \in 1..Len(rows), rows[r].key = KeyOf(w, requests)
        PROVE  Made(w, requests, rows, r)
    <3>1. Made(work[c], requests, rows, r)
      BY <2>1, <2>2, <2>4 DEF HolderOK
    <3>2. DoneOf(w, requests) = DoneOf(work[c], requests) /\ AskedOf(w, requests) = AskedOf(work[c], requests)
      BY <2>4 DEF DoneOf, AskedOf
    <3> QED BY <2>4, <3>1, <3>2 DEF Made
  <2> QED BY <2>1, <2>2, <2>3, <2>4 DEF HolderOK
<1> QED BY <1>1, <1>2, <1>3, OnceKeeps

\* The steps that only move a replica keep it,
LEMMA OnceOfMoves ==
  ASSUME WorkInv, OnceInv, NEW c \in Replicas,
         StartReplica(c) \/ AssignTo(c) \/ Take(c) \/ SkipDuplicate(c) \/ Send(c) \/ EndLoop(c)
  PROVE  OnceInv'
<1>1. CASE StartReplica(c)
  <2>1. PICK w \in WorkShape(requests, rows) : Puts(c, w) /\ w.at = "idle"
    <3>1. Move(c, "idle") /\ "idle" \in Places
      BY <1>1 DEF StartReplica, Places
    <3> QED BY <3>1, MoveForm
  <2>2. ~Holds(w) /\ w.at # "set" /\ ~IsSending(w)
    BY <2>1 DEF Holds, IsSending
  <2>3. UNCHANGED <<requests, rows, keys, raced, expired>>
    BY <1>1 DEF StartReplica, notices, told
  <2> QED BY <2>1, <2>2, <2>3, OnceMoves
<1>2. CASE AssignTo(c)
  <2>1. PICK w \in WorkShape(requests, rows) :
              /\ Puts(c, w) /\ w.at = work[c].at /\ w.record = work[c].record
              /\ w.queue = work[c].queue /\ w.row = work[c].row
    BY <1>2, AssignForm
  <2>2. KeyOf(w, requests) = KeyOf(work[c], requests) /\ (IsSending(w) <=> IsSending(work[c]))
        /\ (HasRow(w) <=> HasRow(work[c]))
    BY <2>1 DEF KeyOf, IsSending, HasRow
  <2>3. UNCHANGED <<requests, rows, keys, raced, expired>>
    BY <1>2 DEF AssignTo, notices, told
  <2> QED BY <2>1, <2>2, <2>3, OnceMoves
<1>3. CASE Take(c)
  <2>1. PICK w \in WorkShape(requests, rows) : Puts(c, w) /\ w.at = "get"
    BY <1>3, TakeForm
  <2>2. ~Holds(w) /\ w.at # "set" /\ ~IsSending(w)
    BY <2>1 DEF Holds, IsSending
  <2>3. UNCHANGED <<requests, rows, keys, raced, expired>>
    BY <1>3 DEF Take, notices, told
  <2> QED BY <2>1, <2>2, <2>3, OnceMoves
<1>4. CASE SkipDuplicate(c)
  <2>1. PICK w \in WorkShape(requests, rows) : Puts(c, w) /\ w.at = "idle"
    BY <1>4, RestForm DEF SkipDuplicate
  <2>2. ~Holds(w) /\ w.at # "set" /\ ~IsSending(w)
    BY <2>1 DEF Holds, IsSending
  <2>3. UNCHANGED <<requests, rows, keys, raced, expired>>
    BY <1>4 DEF SkipDuplicate, notices, told
  <2> QED BY <2>1, <2>2, <2>3, OnceMoves
<1>5. CASE Send(c)
  <2>1. PICK w \in WorkShape(requests, rows) :
              /\ Puts(c, w) /\ w.at \in {"sent", "failed"} /\ w.record = work[c].record
              /\ w.queue = work[c].queue /\ w.row = work[c].row
    BY <1>5, SendForm
  <2>2. work[c].at = "send"
    BY <1>5, SendForm
  <2>3. KeyOf(w, requests) = KeyOf(work[c], requests) /\ w.at # "set" /\ IsSending(work[c]) /\ HasRow(w)
    BY <2>1, <2>2 DEF KeyOf, IsSending, HasRow
  <2>4. UNCHANGED <<requests, rows, keys, raced, expired>>
    BY <1>5 DEF Send, told
  <2> QED BY <2>1, <2>3, <2>4, OnceMoves
<1>6. CASE EndLoop(c)
  <2>1. Puts(c, Off) /\ Off.at = "off"
    BY <1>6, OffForm
  <2>2. ~Holds(Off) /\ Off.at # "set" /\ ~IsSending(Off)
    BY <2>1 DEF Holds, IsSending
  <2>3. UNCHANGED <<requests, rows, keys, raced, expired>>
    BY <1>6 DEF EndLoop, notices
  <2> QED BY <2>1, <2>2, <2>3, OnceMoves
<1> QED BY <1>1, <1>2, <1>3, <1>4, <1>5, <1>6

\* so do the look-up and the SET,
LEMMA OnceOfKeys ==
  ASSUME WorkInv, OnceInv, NEW c \in Replicas, GetNothing(c) \/ SetKey(c)
  PROVE  OnceInv'
<1>0. Len(rows) \in Nat
  BY WorkTypes
<1> DEFINE k == KeyOf(work[c], requests)
<1>1. CASE GetNothing(c)
  <2>1. PICK w \in WorkShape(requests, rows) : Puts(c, w) /\ w.at = "set" /\ w.record = work[c].record
    <3>1. Move(c, "set") /\ "set" \in Places
      BY <1>1 DEF GetNothing, Places
    <3> QED BY <3>1, MoveForm
  <2>2. UNCHANGED <<requests, rows, keys, expired>> /\ k \notin keys
        /\ raced \subseteq raced'
        /\ \A d \in Replicas : d # c /\ work[d].at = "set" /\ KeyOf(work[d], requests) = k => k \in raced'
    BY <1>1 DEF GetNothing, notices, Key, KeyOf, Request
  <2>3. KeyOf(w, requests) = k /\ ~IsSending(w)
    BY <2>1 DEF KeyOf, IsSending
  <2>4. Spares(c)
    BY <1>0, <2>2 DEF Spares
  <2>5. RowsStay
    BY <2>2 DEF RowsStay, OnceInv
  <2>6. ASSUME k \notin raced' \cup expired', NEW d \in Replicas, d # c, Holds(work[d]),
               KeyOf(work[d], requests) = k
        PROVE  FALSE
    <3>1. IsSending(work[d])
      BY <2>2, <2>6 DEF Holds
    <3>2. HolderOK(work[d], requests, rows, keys)
      BY <2>2, <2>6 DEF OnceInv
    <3> QED BY <2>2, <2>6, <3>1, <3>2 DEF HolderOK
  <2>7. HolderOK(w, requests, rows', keys')
    BY <2>2, <2>3 DEF HolderOK
  <2>8. Alone(c, w)
    BY <2>3, <2>6, <2>7 DEF Alone
  <2> QED BY <2>1, <2>4, <2>5, <2>8, OnceKeeps
<1>2. CASE SetKey(c)
  <2>1. PICK w \in WorkShape(requests, rows) : Puts(c, w) /\ w.at = "insert" /\ w.record = work[c].record
    BY <1>2, SetForm
  <2>2. UNCHANGED <<requests, rows, raced, expired>> /\ keys' = keys \cup {k} /\ work[c].at = "set"
    BY <1>2, SetForm DEF SetKey, told
  <2>3. KeyOf(w, requests) = k /\ w.at # "set" /\ Holds(work[c])
    BY <2>1, <2>2 DEF KeyOf, Holds
  <2>4. k \notin raced \cup expired =>
          /\ \A d \in Replicas : d # c => ~(Holds(work[d]) /\ KeyOf(work[d], requests) = k)
          /\ k \notin keys
    BY <2>2, <2>3 DEF OnceInv, HolderOK
  <2>5. Spares(c)
    BY <1>0, <2>2, <2>4 DEF Spares
  <2>6. RowsStay
    BY <2>2 DEF RowsStay, OnceInv, RowsOnce
  <2>7. k \notin raced \cup expired => \A r \in 1..Len(rows) : rows[r].key # k
    BY <2>4 DEF OnceInv, RowsOnce
  <2>8. k \notin raced \cup expired => HolderOK(w, requests, rows', keys')
    BY <2>2, <2>3, <2>7 DEF HolderOK
  <2>9. Alone(c, w)
    BY <2>2, <2>3, <2>4, <2>8 DEF Alone
  <2> QED BY <2>1, <2>5, <2>6, <2>9, OnceKeeps
<1> QED BY <1>1, <1>2

\* the row of a new channel,
LEMMA OnceOfInsert ==
  ASSUME WorkInv, OnceInv, NEW c \in Replicas, InsertRow(c)
  PROVE  OnceInv'
<1> DEFINE v == work[c]
           k == KeyOf(v, requests)
           asked == AskedOf(v, requests)
           done == DoneOf(v, requests)
           n == Len(rows) + 1
<1>1. PICK w \in WorkShape(requests, rows') :
            Puts(c, w) /\ w.at = "send" /\ w.row = n /\ w.record = v.record /\ w.queue = v.queue
  BY InsertForm
<1>2. /\ v.at = "insert" /\ Len(rows') = n /\ Len(rows) \in Nat
      /\ \A r \in 1..Len(rows) : rows'[r] = rows[r]
      /\ rows'[n] = Fresh0(k, v.queue[1])
      /\ UNCHANGED <<requests, keys, raced, expired>>
  BY InsertForm, WorkTypes DEF InsertRow, told
<1>3. /\ KeyOf(w, requests) = k /\ AskedOf(w, requests) = asked /\ DoneOf(w, requests) = done
      /\ IsSending(v) /\ Holds(v) /\ ~HasRow(v) /\ IsBusy(v) /\ HasRow(w) /\ w.at # "set"
  BY <1>1, <1>2 DEF KeyOf, AskedOf, DoneOf, IsSending, Holds, HasRow, IsBusy
<1>4. done \in Nat /\ done + 1 \in 1..Len(asked) /\ v.queue[1] = asked[done + 1]
      /\ \A i, j \in 1..Len(asked) : asked[i] = asked[j] => i = j
  <2>1. requests[v.record].severity \in Severities
    BY <1>3, BusyKey, StillGrows
  <2>2. asked \in Seq(Names) /\ \A i, j \in 1..Len(asked) : asked[i] = asked[j] => i = j
    BY <2>1, NoticeAssumption, ChannelsDiffer DEF AskedOf
  <2>3. QueueOK(v, requests)
    BY <1>3 DEF WorkInv, Good
  <2> DEFINE a == Len(asked)
             m == Len(v.queue)
  <2>4. a \in Nat /\ m \in 1..a /\ done = a - m /\ \A i \in 1..m : v.queue[i] = asked[done + i]
    <3>1. a \in Nat
      BY <2>2
    <3>2. done = a - m
      BY DEF DoneOf
    <3>3. m \in 1..a /\ \A i \in 1..m : v.queue[i] = asked[done + i]
      BY <2>3 DEF QueueOK
    <3> QED BY <3>1, <3>2, <3>3
  <2>5. \A i, j \in 1..a : asked[i] = asked[j] => i = j
    BY <2>2
  <2> HIDE DEF a, m, done, asked
  <2>6. done \in Nat /\ done + 1 \in 1..a /\ 1 \in 1..m
    BY <2>4
  <2>7. v.queue[1] = asked[done + 1]
    BY <2>4, <2>6
  <2> QED BY <2>5, <2>6, <2>7 DEF a
<1>5. k \notin raced \cup expired =>
        /\ \A d \in Replicas : d # c => ~(Holds(work[d]) /\ KeyOf(work[d], requests) = k)
        /\ HolderOK(v, requests, rows, keys) /\ RowsOnce(k, rows, keys)
  BY <1>3 DEF OnceInv
<1>6. \A r \in 1..n : r = n \/ r \in 1..Len(rows)
  BY <1>2
<1>7. rows'[n].key = k /\ rows'[n].channel = asked[done + 1]
  BY <1>2, <1>4 DEF Fresh0
<1> HIDE DEF asked, done, k, n
<1>8. Spares(c)
  <2>1. n >= Len(rows)
    BY <1>2 DEF n
  <2>2. ASSUME NEW d \in Replicas, d # c, Holds(work[d]),
               KeyOf(work[d], requests) \notin raced' \cup expired',
               NEW r \in 1..Len(rows'), rows'[r].key = KeyOf(work[d], requests)
        PROVE  r \in 1..Len(rows)
    BY <1>2, <1>5, <1>6, <1>7, <2>2
  <2> QED BY <1>2, <2>1, <2>2 DEF Spares
<1>9. ASSUME k \notin raced \cup expired, NEW r \in 1..Len(rows), rows[r].key = k
      PROVE  \E i \in 1..done : rows[r].channel = asked[i]
  <2>1. Made(v, requests, rows, r)
    BY <1>3, <1>5, <1>9 DEF HolderOK, k
  <2> QED BY <1>3, <2>1 DEF Made, done, asked
<1>10. ASSUME k \notin raced \cup expired PROVE HolderOK(w, requests, rows', keys')
  <2>1. k \in keys'
    BY <1>2, <1>3, <1>5, <1>10 DEF HolderOK, k
  <2>2. ASSUME NEW r \in 1..Len(rows'), rows'[r].key = k PROVE Made(w, requests, rows', r)
    <3>1. CASE r = n
      BY <1>1, <1>3, <3>1 DEF Made
    <3>2. CASE r \in 1..Len(rows)
      <4>1. rows'[r] = rows[r]
        BY <1>2, <3>2
      <4>2. \E i \in 1..done : rows[r].channel = asked[i]
        BY <1>9, <1>10, <2>2, <3>2, <4>1
      <4> QED BY <1>3, <4>1, <4>2 DEF Made
    <3> QED BY <1>2, <1>6, <2>2, <3>1, <3>2
  <2> QED BY <1>3, <2>1, <2>2 DEF HolderOK
<1>11. Alone(c, w)
  BY <1>2, <1>3, <1>5, <1>10 DEF Alone
<1>12. RowsStay
  <2> SUFFICES ASSUME NEW j, j \notin raced \cup expired PROVE RowsOnce(j, rows', keys)
    BY <1>2 DEF RowsStay
  <2>1. RowsOnce(j, rows, keys)
    BY DEF OnceInv
  <2>2. CASE j # k
    <3>1. \A r \in 1..Len(rows') : rows'[r].key = j => r \in 1..Len(rows) /\ rows'[r] = rows[r]
      BY <1>2, <1>6, <1>7, <2>2
    <3> QED BY <2>1, <3>1 DEF RowsOnce
  <2>3. CASE j = k
    <3>1. k \in keys
      BY <1>3, <1>5, <2>3 DEF HolderOK, k
    <3>2. ASSUME NEW r \in 1..Len(rows), rows[r].key = k, rows[r].channel = asked[done + 1] PROVE FALSE
      <4>1. PICK i \in 1..done : rows[r].channel = asked[i]
        BY <1>9, <2>3, <3>2
      <4>2. i \in 1..Len(asked) /\ i # done + 1
        <5> DEFINE a == Len(asked)
        <5>1. done \in Nat /\ done + 1 \in 1..a
          BY <1>4
        <5>2. a \in Nat
          BY <5>1
        <5> HIDE DEF a
        <5>3. i \in 1..a /\ i # done + 1
          BY <5>1, <5>2
        <5> QED BY <5>3 DEF a
      <4> QED BY <1>4, <3>2, <4>1, <4>2
    <3>3. ASSUME NEW r \in 1..Len(rows'), NEW s \in 1..Len(rows'), rows'[r].key = k, rows'[s].key = k,
                 rows'[s].channel = rows'[r].channel
          PROVE  r = s
      <4>1. CASE r = n /\ s = n
        BY <4>1
      <4>2. CASE r \in 1..Len(rows) /\ s \in 1..Len(rows)
        <5>1. rows'[r] = rows[r] /\ rows'[s] = rows[s]
          BY <1>2, <4>2
        <5> QED BY <2>1, <2>3, <3>3, <4>2, <5>1 DEF RowsOnce
      <4>3. CASE r = n /\ s \in 1..Len(rows)
        <5>1. rows'[s] = rows[s]
          BY <1>2, <4>3
        <5> QED BY <1>7, <3>2, <3>3, <4>3, <5>1
      <4>4. CASE s = n /\ r \in 1..Len(rows)
        <5>1. rows'[r] = rows[r]
          BY <1>2, <4>4
        <5> QED BY <1>7, <3>2, <3>3, <4>4, <5>1
      <4> QED BY <1>2, <1>6, <4>1, <4>2, <4>3, <4>4
    <3> QED BY <2>3, <3>1, <3>3 DEF RowsOnce
  <2> QED BY <2>2, <2>3
<1> QED BY <1>1, <1>8, <1>11, <1>12, OnceKeeps

\* its outcome
LEMMA OnceOfRecord ==
  ASSUME WorkInv, OnceInv, NEW c \in Replicas, Record(c)
  PROVE  OnceInv'
<1> DEFINE v == work[c]
           k == KeyOf(v, requests)
           asked == AskedOf(v, requests)
           done == DoneOf(v, requests)
<1>1. PICK w \in WorkShape(requests, rows) :
            /\ Puts(c, w) /\ w.queue = Tail(v.queue)
            /\ w.at = (IF w.queue = <<>> THEN "idle" ELSE "insert")
            /\ w.queue # <<>> => w.record = v.record
  BY RecordForm
<1>2. /\ Recorded(c) /\ v.at \in {"sent", "failed"} /\ Len(rows) \in Nat /\ v.queue \in Seq(Names)
      /\ UNCHANGED <<requests, keys, raced, expired>>
  BY RecordRows, RecordForm, WorkTypes DEF Record, told
<1>3. /\ Len(rows') = Len(rows)
      /\ \A r \in 1..Len(rows) : rows'[r].key = rows[r].key /\ rows'[r].channel = rows[r].channel
      /\ rows[v.row].channel = v.queue[1] /\ v.row \in 1..Len(rows)
  BY <1>2 DEF Recorded, Fresh0
<1>4. IsSending(v) /\ Holds(v) /\ w.at # "set"
  BY <1>1, <1>2 DEF IsSending, Holds
<1>5. Spares(c)
  BY <1>2, <1>3 DEF Spares
<1>6. RowsStay
  BY <1>2, <1>3 DEF RowsStay, OnceInv, RowsOnce
<1>7. ASSUME IsSending(w), k \notin raced \cup expired
      PROVE  HolderOK(w, requests, rows', keys') /\ KeyOf(w, requests) = k
             /\ \A d \in Replicas : d # c => ~(Holds(work[d]) /\ KeyOf(work[d], requests) = k)
  <2>1. w.queue # <<>> /\ w.record = v.record
    BY <1>1, <1>7 DEF IsSending
  <2>2. KeyOf(w, requests) = k /\ AskedOf(w, requests) = asked
    BY <2>1 DEF KeyOf, AskedOf
  <2>3. QueueOK(v, requests) /\ asked \in Seq(Names) /\ done \in Nat /\ v.queue[1] = asked[done + 1]
    BY RecordTries
  <2>4. DoneOf(w, requests) = done + 1
    <3>1. DoneOf(w, requests) = Len(asked) - Len(w.queue) /\ done = Len(asked) - Len(v.queue)
      BY <2>2 DEF DoneOf
    <3>2. Len(v.queue) \in 1..Len(asked)
      BY <2>3 DEF QueueOK
    <3>3. Len(asked) \in Nat
      BY <2>3
    <3>4. Len(v.queue) # 0
      <4> DEFINE a == Len(asked)
                 m == Len(v.queue)
      <4>1. a \in Nat /\ m \in 1..a
        BY <3>2, <3>3
      <4> HIDE DEF a, m
      <4>2. m # 0
        BY <4>1
      <4> QED BY <4>2 DEF m
    <3>5. Len(w.queue) = Len(v.queue) - 1
      BY <1>1, <1>2, <3>4
    <3> DEFINE a == Len(asked)
               m == Len(v.queue)
               l == Len(w.queue)
               x == DoneOf(w, requests)
    <3>6. a \in Nat /\ m \in 1..a /\ l = m - 1 /\ x = a - l /\ done = a - m
      BY <3>1, <3>2, <3>3, <3>5
    <3> HIDE DEF a, m, l, x, done
    <3>7. x = done + 1
      BY <3>6
    <3> QED BY <3>7 DEF x
  <2>5. HolderOK(v, requests, rows, keys)
        /\ \A d \in Replicas : d # c => ~(Holds(work[d]) /\ KeyOf(work[d], requests) = k)
    BY <1>4, <1>7 DEF OnceInv
  <2>6. ASSUME NEW r \in 1..Len(rows'), rows'[r].key = k PROVE Made(w, requests, rows', r)
    <3>1. Made(v, requests, rows, r) /\ rows'[r].channel = rows[r].channel
      BY <1>3, <1>4, <2>5, <2>6 DEF HolderOK
    <3>2. CASE \E i \in 1..done : rows[r].channel = asked[i]
      <4>1. PICK i \in 1..done : rows[r].channel = asked[i]
        BY <3>2
      <4>2. i \in 1..(done + 1)
        <5> HIDE DEF done
        <5> QED BY <2>3
      <4> QED BY <2>2, <2>4, <3>1, <4>1, <4>2 DEF Made
    <3>3. CASE r = v.row
      <4>1. rows'[r].channel = asked[done + 1]
        BY <1>3, <2>3, <3>1, <3>3
      <4>2. done + 1 \in 1..(done + 1)
        <5> HIDE DEF done
        <5> QED BY <2>3
      <4> QED BY <2>2, <2>4, <4>1, <4>2 DEF Made
    <3> QED BY <3>1, <3>2, <3>3 DEF Made
  <2>7. k \in keys'
    BY <1>2, <1>4, <2>5 DEF HolderOK
  <2> QED BY <1>4, <2>2, <2>5, <2>6, <2>7 DEF HolderOK
<1>8. Alone(c, w)
  <2>1. Holds(w) => IsSending(w)
    BY <1>4 DEF Holds
  <2>2. IsSending(w) => KeyOf(w, requests) = k
    BY <1>1 DEF IsSending, KeyOf
  <2> QED BY <1>2, <1>7, <2>1, <2>2 DEF Alone
<1> QED BY <1>1, <1>5, <1>6, <1>8, OnceKeeps

\* and the steps of nobody's work.
LEMMA OnceOfOthers ==
  ASSUME WorkInv, OnceInv,
         \/ Ask \/ (\E c \in Replicas : CommitOffset(c)) \/ (\E k \in Alerts : Expire(k))
         \/ UNCHANGED noticeVars
  PROVE  OnceInv'
<1>g. Grows(requests, requests)
  BY StillGrows
<1>1. CASE Ask
  <2>1. UNCHANGED <<work, keys, rows, raced, expired>>
    BY <1>1 DEF Ask, notices, told
  <2>2. Grows(requests, requests')
    BY <1>1, AskForm
  <2>3. \A c \in Replicas : Holds(work[c]) =>
          /\ KeyOf(work[c], requests') = KeyOf(work[c], requests)
          /\ AskedOf(work[c], requests') = AskedOf(work[c], requests)
          /\ DoneOf(work[c], requests') = DoneOf(work[c], requests)
    <3>1. \A c \in Replicas : Holds(work[c]) => IsBusy(work[c])
      BY DEF Holds, IsSending, IsBusy
    <3> QED BY <2>2, <3>1, BusyKey DEF DoneOf
  <2>4. ASSUME NEW c \in Replicas, Holds(work[c]), HolderOK(work[c], requests, rows, keys)
        PROVE  HolderOK(work[c], requests', rows, keys)
    <3>1. \A r \in 1..Len(rows) : Made(work[c], requests, rows, r) => Made(work[c], requests', rows, r)
      BY <2>3, <2>4 DEF Made
    <3> QED BY <2>3, <2>4, <3>1 DEF HolderOK
  <2> QED BY <2>1, <2>3, <2>4 DEF OnceInv
<1>2. ASSUME NEW c \in Replicas, CommitOffset(c) PROVE OnceInv'
  <2>1. UNCHANGED <<requests, work, keys, rows, raced, expired>>
    BY <1>2 DEF CommitOffset, notices, told
  <2> QED BY <2>1 DEF OnceInv
<1>3. ASSUME NEW k \in Alerts, Expire(k) PROVE OnceInv'
  <2>1. UNCHANGED <<requests, work, rows, raced>> /\ keys' = keys \ {k} /\ expired' = expired \cup {k}
    BY <1>3 DEF Expire
  <2>2. \A j : j \notin raced \cup expired' => j \notin raced \cup expired /\ (j \in keys' <=> j \in keys)
    BY <2>1
  <2>3. ASSUME NEW c \in Replicas, HolderOK(work[c], requests, rows, keys),
               KeyOf(work[c], requests) \notin raced \cup expired'
        PROVE  HolderOK(work[c], requests, rows, keys')
    BY <2>2, <2>3 DEF HolderOK
  <2>4. ASSUME NEW j, j \notin raced \cup expired', RowsOnce(j, rows, keys) PROVE RowsOnce(j, rows, keys')
    BY <2>2, <2>4 DEF RowsOnce
  <2> QED BY <2>1, <2>2, <2>3, <2>4 DEF OnceInv
<1>4. CASE UNCHANGED noticeVars
  <2>1. UNCHANGED <<requests, work, keys, rows, raced, expired>>
    BY <1>4 DEF noticeVars, notices, told
  <2> QED BY <2>1 DEF OnceInv
<1> QED BY <1>1, <1>2, <1>3, <1>4

\* The invariant of the deliveries is inductive.
LEMMA OncePreserved == ASSUME WorkInv, OnceInv, [NoticeNext]_noticeVars PROVE OnceInv'
<1>1. CASE Ask \/ (\E c \in Replicas : CommitOffset(c)) \/ (\E k \in Alerts : Expire(k))
           \/ UNCHANGED noticeVars
  BY <1>1, OnceOfOthers
<1>2. ASSUME NEW c \in Replicas,
             StartReplica(c) \/ AssignTo(c) \/ Take(c) \/ SkipDuplicate(c) \/ Send(c) \/ EndLoop(c)
      PROVE  OnceInv'
  BY <1>2, OnceOfMoves
<1>3. ASSUME NEW c \in Replicas, GetNothing(c) \/ SetKey(c) PROVE OnceInv'
  BY <1>3, OnceOfKeys
<1>4. ASSUME NEW c \in Replicas, InsertRow(c) PROVE OnceInv'
  BY <1>4, OnceOfInsert
<1>5. ASSUME NEW c \in Replicas, Record(c) PROVE OnceInv'
  BY <1>5, OnceOfRecord
<1> QED BY <1>1, <1>2, <1>3, <1>4, <1>5 DEF NoticeNext

\* It holds at the start.
LEMMA OnceInitial == NoticeInit => OnceInv
<1> SUFFICES ASSUME NoticeInit PROVE OnceInv
  OBVIOUS
<1>1. (\A c \in Replicas : work[c].at = "off") /\ Len(rows) = 0
  BY DEF NoticeInit, Off
<1>2. (\A c \in Replicas : ~Holds(work[c])) /\ \A r \in 1..Len(rows) : FALSE
  BY <1>1 DEF Holds, IsSending
<1> QED BY <1>2 DEF OnceInv, RowsOnce

\* It contains the property.
LEMMA DeliveriesSafe == WorkInv /\ OnceInv => DeliveriesExplained
<1> SUFFICES ASSUME WorkInv, OnceInv PROVE DeliveriesExplained
  OBVIOUS
<1>1. DOMAIN rows = 1..Len(rows)
  BY DEF WorkInv, NoticeTypes
<1> QED BY <1>1 DEF DeliveriesExplained, OnceInv, RowsOnce
-----------------------------------------------------------------------------
\* Every step of the composition is a step of each part or leaves it alone.
PartSteps == /\ [RateNext]_rateVars /\ [VelocityNext]_velocityVars /\ [CounterNext]_counterVars
             /\ [StreamNext]_streamVars /\ [NoticeNext]_noticeVars
\* A step of the composition is a step or a stutter of each part.
LEMMA WindowsParts == [WindowsNext]_windowsVars => PartSteps
<1>1. RateStep => PartSteps
  BY Zenon DEF RateStep, PartSteps
<1>2. VelocityStep => PartSteps
  BY Zenon DEF VelocityStep, PartSteps
<1>3. CounterStep => PartSteps
  BY Zenon DEF CounterStep, PartSteps
<1>4. StreamStep => PartSteps
  BY Zenon DEF StreamStep, PartSteps
<1>5. NoticeStep => PartSteps
  BY Zenon DEF NoticeStep, PartSteps
<1>6. UNCHANGED windowsVars => PartSteps
  BY Zenon DEF windowsVars, PartSteps
<1> QED BY <1>1, <1>2, <1>3, <1>4, <1>5, <1>6, Zenon DEF WindowsNext

\* The invariant of every part, together.
NoticeInv == WorkInv /\ KeysInv /\ OnceInv
StreamSafe == StreamInv /\ StreamTimes /\ StreamSolo
WindowsInv == RateInv /\ VelocityInv /\ CounterInv /\ StreamSafe /\ NoticeInv

\* It holds in every state of the composition.
LEMMA WindowsInvariant == WindowsSpec => []WindowsInv
<1>0. RateAssumption /\ VelocityAssumption /\ CounterAssumption /\ StreamAssumption /\ NoticeAssumption
  BY RateAssumption, VelocityAssumption, CounterAssumption, StreamAssumption, NoticeAssumption
<1>1. WindowsInit => WindowsInv
  BY <1>0, RateInitial, VelocityInitial, CounterInitial, StreamInitial, StreamStarts, WorkInitial, KeysInitial, OnceInitial
  DEF WindowsInit, WindowsInv, NoticeInv, StreamSafe
<1>2. ASSUME WindowsInv, [WindowsNext]_windowsVars PROVE WindowsInv'
  <2>1. PartSteps
    BY <1>2, WindowsParts
  <2>2. RateInv' /\ VelocityInv' /\ CounterInv' /\ StreamSafe'
    BY <1>0, <1>2, <2>1, RatePreserved, VelocityPreserved, CounterPreserved, StreamPreserved, StreamKept
    DEF WindowsInv, StreamSafe, PartSteps
  <2>3. NoticeInv'
    BY <1>2, <2>1, WorkPreserved, KeysPreserved, OncePreserved DEF WindowsInv, NoticeInv, PartSteps
  <2> QED BY <2>2, <2>3 DEF WindowsInv
<1> QED BY <1>1, <1>2, PTL DEF WindowsSpec

\* The state of every component with a window is well-typed.
THEOREM WindowsTypeCorrect == WindowsSpec => []WindowsTypeOK
<1>0. CounterAssumption
  BY CounterAssumption
<1>1. WindowsInv => WindowsTypeOK
  BY <1>0, CounterSafe, StreamTypesSafe, NoticeTypesSafe
  DEF WindowsInv, WindowsTypeOK, RateInv, VelocityInv, StreamSafe, NoticeInv
<1> QED BY <1>1, WindowsInvariant, PTL

\* More requests of a client than its limit are let through in a window only if two of
\* them took the same tick of the clock, and so are one member of the set, or a check
\* was executed out of the order of the clocks it took, or after its entries could
\* expire (rate_limiter.py: the clock is read before the pipeline is sent, and is the
\* member's name).
THEOREM LimitCorrect == WindowsSpec => []LimitNeedsDelay
<1>0. RateAssumption
  BY RateAssumption
<1>1. WindowsInv => LimitNeedsDelay
  BY <1>0, LimitHolds DEF WindowsInv
<1> QED BY <1>1, WindowsInvariant, PTL

\* A count of the velocity counter meets no threshold its events do not, and misses
\* one only after a shorter window or a later clock (redis_utils.py, VelocityCounter).
THEOREM CountsCorrect == WindowsSpec => CountsExplained
<1> DEFINE A == \A c \in Callers :
                  caller[c].op \in {"increment", "get_count"} /\ caller'[c].op = "counted" =>
                    LET cut  == caller[c].now - caller[c].window
                        real == Total(recorded', cut + 1)
                    IN /\ \A n \in 1..MaxRecorded : ThresholdMet(caller'[c].count, n) => n <= real
                       /\ caller'[c].count < real =>
                            shortest < caller[c].window \/ newest > caller[c].now
<1>0. VelocityAssumption
  BY VelocityAssumption
<1>1. ASSUME WindowsInv, [WindowsNext]_windowsVars PROVE [A]_velocityVars
  <2>1. VelocityInv /\ [VelocityNext]_velocityVars
    BY <1>1, WindowsParts DEF WindowsInv, PartSteps
  <2>2. \A c \in Callers : CountExplained(c)
    BY <1>0, <2>1, VelocityCounts
  <2> QED BY <2>2 DEF CountExplained
<1>2. WindowsSpec => [][A]_velocityVars
  BY <1>1, WindowsInvariant, PTL DEF WindowsSpec
<1> QED BY <1>2 DEF CountsExplained

\* A counter that is over its limit counts events of its window, or its key outlived
\* a longer window, or never expires because an EXPIRE failed (redis_utils.py, incr
\* and check_velocity).
THEOREM ExceededCorrect == WindowsSpec => []ExceededExplained
<1>0. CounterAssumption
  BY CounterAssumption
<1>1. WindowsInv => ExceededExplained
  BY <1>0, CounterSafe DEF WindowsInv
<1> QED BY <1>1, WindowsInvariant, PTL

\* What the stream processor reads of a customer is the window of the transaction it
\* added, if no other holder of the partition ever added to it, and never more; the sums
\* reach back no further than the last pause as long as the keys live
\* (stream_processor.py, the two pipelines).
THEOREM SnapshotCorrect == WindowsSpec => []SnapshotExplained
<1>0. StreamAssumption
  BY StreamAssumption
<1>1. WindowsInv => SnapshotExplained
  BY <1>0, SnapshotFollows DEF WindowsInv, StreamSafe
<1> QED BY <1>1, WindowsInvariant, PTL

\* An alert whose request was consumed was tried on every channel of a request for it,
\* or a loop ended on it, no notification stays PENDING, and one over Slack or a webhook
\* that is SENT did arrive (notification-service, consumer and dispatcher).
THEOREM NotifiedCorrect == WindowsSpec => []NotifiedOrBroken
<1>1. WindowsInv => NotifiedOrBroken
  BY NotifiedSafe DEF WindowsInv, NoticeInv
<1> QED BY <1>1, WindowsInvariant, PTL

\* A recipient has two notifications over one channel only after two look-ups raced or
\* the key expired (notification-service, the GET and the SET of the dedup key).
THEOREM DeliveriesCorrect == WindowsSpec => []DeliveriesExplained
<1>1. WindowsInv => DeliveriesExplained
  BY DeliveriesSafe DEF WindowsInv, NoticeInv
<1> QED BY <1>1, WindowsInvariant, PTL
=============================================================================
