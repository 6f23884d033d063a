--------------------------- MODULE GatewayProofs ---------------------------
(***************************************************************************)
(* Proofs about what a browser meets: for each of the five components the  *)
(* inductive invariant its property rests on, and at the end the theorems  *)
(* about the composition that MCGateway explores.                          *)
(***************************************************************************)
EXTENDS MCGateway, CountingLemmas, SequenceTheorems, TLAPS
-----------------------------------------------------------------------------
\* The ingestion path.  The connections in use are those of the requests in a
\* session, of which there are finitely many, and of the health check.
Sessions == {r \in Requests : InSession(r)}

PoolInv == IngestTypeOK /\ IsFiniteSet(Sessions) /\ ConnectionsReturned

\* No session is open when the transaction service starts.
LEMMA PoolInvInit == IngestInit => PoolInv
<1> SUFFICES ASSUME IngestInit PROVE PoolInv
  OBVIOUS
<1>1. IngestTypeOK
  <2>1. /\ pc \in [Requests -> {"idle"}] /\ answer \in [Requests -> {"none"}]
        /\ payload \in [Requests -> {NoBody}] /\ causes \in [Requests -> {{}}]
    BY DEF IngestInit
  <2>2. inUse \in 0..PoolLimit /\ failures \in 0..MaxFaults
    BY IngestionAssumption DEF IngestInit
  <2> QED BY <2>1, <2>2 DEF IngestInit, IngestTypeOK
<1>2. Sessions = {}
  BY DEF IngestInit, Sessions, InSession
<1>3. IsFiniteSet(Sessions) /\ Cardinality(Sessions) = 0
  BY <1>2, FS_EmptySet
<1>4. inUse = Cardinality(Sessions) + (IF probing THEN 1 ELSE 0)
  BY <1>3 DEF IngestInit
<1> QED BY <1>1, <1>3, <1>4 DEF PoolInv, ConnectionsReturned, Sessions

\* A request in a session holds one of the connections in use.
LEMMA SessionInUse ==
  ASSUME PoolInv, NEW r \in Requests, InSession(r)
  PROVE  inUse >= 1
<1>1. r \in Sessions /\ IsFiniteSet(Sessions)
  BY DEF Sessions, PoolInv
<1>2. Cardinality(Sessions) = Cardinality(Sessions \ {r}) + 1
      /\ Cardinality(Sessions \ {r}) \in Nat
  BY <1>1, CountWithout
<1>3. inUse = Cardinality(Sessions) + (IF probing THEN 1 ELSE 0)
  BY DEF PoolInv, ConnectionsReturned, Sessions
<1> QED BY <1>2, <1>3

\* Every action of a request keeps the types.
LEMMA RequestTypeOK ==
  ASSUME PoolInv, NEW r \in Requests, Forward(r) \/ GatewayGivesUp(r) \/ Handle(r)
  PROVE  IngestTypeOK'
<1> USE DEF PoolInv, IngestTypeOK, lifecycle, Goto, Blame, Answer, Fault
<1>1. CASE Forward(r)
  <2>1. PICK b \in Bodies : payload' = [payload EXCEPT ![r] = b]
    BY <1>1 DEF Forward
  <2>2. payload' \in [Requests -> Bodies \cup {NoBody}]
    BY <2>1
  <2> QED BY <1>1, <2>2 DEF Forward
<1>2. CASE GatewayGivesUp(r)
  BY <1>2 DEF GatewayGivesUp
<1>3. CASE Receive(r)
  BY <1>3 DEF Receive
<1>4. CASE OpenSession(r)
  BY <1>4, IngestionAssumption DEF OpenSession
<1>5. CASE Execute(r)
  BY <1>5 DEF Execute
<1>6. ASSUME pc[r] \in {"session", "commit"}, inUse' = inUse - 1
      PROVE  inUse' \in 0..PoolLimit
  BY <1>6, SessionInUse, IngestionAssumption DEF InSession
<1>7. CASE ExecuteRaises(r)
  BY <1>6, <1>7, IngestionAssumption DEF ExecuteRaises
<1>8. CASE Commit(r)
  BY <1>6, <1>8 DEF Commit
<1>9. CASE CommitRaises(r)
  BY <1>6, <1>9, IngestionAssumption DEF CommitRaises
<1>10. CASE Respond(r)
  BY <1>10 DEF Respond
<1>11. CASE Publish(r)
  BY <1>11, IngestionAssumption DEF Publish
<1> QED BY <1>1, <1>2, <1>3, <1>4, <1>5, <1>7, <1>8, <1>9, <1>10, <1>11 DEF Handle

\* A step of one request moves that request alone in or out of a session, and
\* the connection with it.
LEMMA RequestFrame ==
  ASSUME PoolInv, NEW r \in Requests, Forward(r) \/ GatewayGivesUp(r) \/ Handle(r)
  PROVE  /\ Sessions \ {r} = Sessions' \ {r}
         /\ probing' = probing
         /\ inUse' = inUse + (IF r \in Sessions' THEN 1 ELSE 0)
                           - (IF r \in Sessions THEN 1 ELSE 0)
<1> USE DEF PoolInv, IngestTypeOK
<1>1. \A q \in Requests \ {r} : pc'[q] = pc[q]
  BY DEF Forward, GatewayGivesUp, Handle, Receive, OpenSession, Execute,
     ExecuteRaises, Commit, CommitRaises, Respond, Publish, Goto
<1>2. Sessions \ {r} = Sessions' \ {r}
  BY <1>1 DEF Sessions, InSession
<1>3. probing' = probing
  BY DEF Forward, GatewayGivesUp, Handle, Receive, OpenSession, Execute,
     ExecuteRaises, Commit, CommitRaises, Respond, Publish
<1>4. CASE Forward(r) \/ GatewayGivesUp(r) \/ Receive(r) \/ Respond(r) \/ Publish(r)
           \/ Execute(r)
  <2>1. inUse' = inUse /\ (InSession(r) <=> InSession(r)')
    BY <1>4 DEF Forward, GatewayGivesUp, Receive, Respond, Publish, Execute,
       Goto, InSession, Served
  <2> QED BY <1>2, <1>3, <2>1 DEF Sessions
<1>5. CASE OpenSession(r)
  <2>1. ~InSession(r) /\ inUse' = inUse + (IF InSession(r)' THEN 1 ELSE 0)
    BY <1>5 DEF OpenSession, Goto, InSession
  <2> QED BY <1>2, <1>3, <2>1 DEF Sessions
<1>6. CASE ExecuteRaises(r) \/ Commit(r) \/ CommitRaises(r)
  <2>1. InSession(r) /\ ~InSession(r)' /\ inUse' = inUse - 1
    BY <1>6 DEF ExecuteRaises, Commit, CommitRaises, Goto, InSession
  <2> QED BY <1>2, <1>3, <2>1 DEF Sessions
<1> QED BY <1>4, <1>5, <1>6 DEF Handle

\* A request holds a connection exactly while it is in its session.
LEMMA RequestPoolInv ==
  ASSUME PoolInv, NEW r \in Requests, Forward(r) \/ GatewayGivesUp(r) \/ Handle(r)
  PROVE  PoolInv'
<1>1. IsFiniteSet(Sessions') /\ IsFiniteSet(Sessions)
  <2>1. Sessions' \subseteq Sessions \cup {r}
    BY RequestFrame
  <2> QED BY <2>1, FS_AddElement, FS_Subset DEF PoolInv
<1>2. PICK n \in Nat : /\ Cardinality(Sessions) = n + (IF r \in Sessions THEN 1 ELSE 0)
                       /\ Cardinality(Sessions') = n + (IF r \in Sessions' THEN 1 ELSE 0)
  BY <1>1, RequestFrame, CountAt
<1>3. inUse = Cardinality(Sessions) + (IF probing THEN 1 ELSE 0)
  BY DEF PoolInv, ConnectionsReturned, Sessions
<1>4. inUse' = Cardinality(Sessions') + (IF probing' THEN 1 ELSE 0)
  <2>1. probing \in BOOLEAN
    BY DEF PoolInv, IngestTypeOK
  <2> QED BY <1>2, <1>3, <2>1, RequestFrame
<1> QED BY <1>1, <1>4, RequestTypeOK DEF PoolInv, ConnectionsReturned, Sessions

\* PoolInv is inductive.
LEMMA PoolInvStep == PoolInv /\ [IngestNext]_ingestVars => PoolInv'
<1> SUFFICES ASSUME PoolInv, [IngestNext]_ingestVars PROVE PoolInv'
  OBVIOUS
<1>1. CASE \E r \in Requests : Forward(r) \/ GatewayGivesUp(r) \/ Handle(r)
  BY <1>1, RequestPoolInv
<1>2. CASE CreateEngine \/ StartProducer \/ Shutdown \/ UNCHANGED ingestVars
  <2>1. UNCHANGED <<pc, inUse, probing>>
    BY <1>2 DEF CreateEngine, StartProducer, Shutdown, ingestVars
  <2>2. Sessions' = Sessions
    BY <2>1 DEF Sessions, InSession
  <2>3. IngestTypeOK'
    <3>1. UNCHANGED <<payload, pc, answer, inUse, rows, events, causes, probing>>
      BY <1>2 DEF CreateEngine, StartProducer, Shutdown, ingestVars
    <3>2. /\ service' \in {"down", "starting", "up"} /\ engine' \in BOOLEAN
          /\ producer' \in BOOLEAN /\ failures' \in 0..MaxFaults
      <4>1. failures' = failures \/ (failures < MaxFaults /\ failures' = failures + 1)
        <5>1. CASE StartProducer
          BY <5>1 DEF StartProducer, Fault
        <5>2. CASE CreateEngine \/ Shutdown \/ UNCHANGED ingestVars
          BY <5>2 DEF CreateEngine, Shutdown, ingestVars
        <5> QED BY <1>2, <5>1, <5>2
      <4>2. failures' \in 0..MaxFaults
        <5>1. failures \in 0..MaxFaults
          BY DEF PoolInv, IngestTypeOK
        <5> QED BY <4>1, <5>1, IngestionAssumption
      <4>3. /\ service \in {"down", "starting", "up"} /\ engine \in BOOLEAN
            /\ producer \in BOOLEAN
        BY DEF PoolInv, IngestTypeOK
      <4>4. /\ service' \in {"down", "starting", "up", service}
            /\ engine' \in {TRUE, FALSE, engine} /\ producer' \in {TRUE, FALSE, producer}
        BY <1>2 DEF CreateEngine, StartProducer, Shutdown, ingestVars, lifecycle
      <4>5. /\ service' \in {"down", "starting", "up"} /\ engine' \in BOOLEAN
            /\ producer' \in BOOLEAN
        BY <4>3, <4>4
      <4> QED BY <4>2, <4>5
    <3> QED BY <3>1, <3>2 DEF PoolInv, IngestTypeOK
  <2> QED BY <2>1, <2>2, <2>3 DEF PoolInv, ConnectionsReturned, Sessions
<1>3. CASE Crash
  <2>1. Sessions' = {}
    BY <1>3 DEF Crash, Sessions, InSession, Served
  <2>2. /\ rows' \in SUBSET Requests /\ events' \in SUBSET Requests
    BY <1>3 DEF Crash, PoolInv, IngestTypeOK
  <2>3. /\ pc' \in [Requests -> {"idle", "forwarded", "handling", "session", "commit",
                                "respond", "publish", "done", "dead"}]
        /\ answer' \in [Requests -> {"none", "202", "422", "502"}]
    BY <1>3 DEF Crash, PoolInv, IngestTypeOK
  <2>4. causes' \in [Requests -> SUBSET {"duplicate", "unstorable", "pool",
                                         "database", "broker", "crash"}]
    BY <1>3 DEF Crash, PoolInv, IngestTypeOK
  <2>5. /\ service' = "down" /\ producer' = FALSE /\ engine' = FALSE
        /\ inUse' = 0 /\ probing' = FALSE /\ payload' = payload
        /\ inUse' \in 0..PoolLimit /\ failures' \in 0..MaxFaults
    BY <1>3, IngestionAssumption DEF Crash, Fault, PoolInv, IngestTypeOK
  <2>6. IngestTypeOK'
    BY <2>2, <2>3, <2>4, <2>5 DEF PoolInv, IngestTypeOK
  <2>7. IsFiniteSet(Sessions') /\ Cardinality(Sessions') = 0
    BY <2>1, FS_EmptySet
  <2>8. inUse' = Cardinality(Sessions') + (IF probing' THEN 1 ELSE 0)
    BY <2>5, <2>7
  <2> QED BY <2>6, <2>7, <2>8 DEF PoolInv, ConnectionsReturned, Sessions
<1>4. CASE ProbeConnects \/ ProbeEnds
  <2>1. Sessions' = Sessions
    BY <1>4 DEF ProbeConnects, ProbeEnds, Sessions, InSession
  <2>2. /\ inUse = Cardinality(Sessions) + (IF probing THEN 1 ELSE 0)
        /\ Cardinality(Sessions) \in Nat
    BY FS_CardinalityType DEF PoolInv, ConnectionsReturned, Sessions
  <2>3. /\ inUse' \in 0..PoolLimit /\ probing' \in BOOLEAN
        /\ inUse' = Cardinality(Sessions) + (IF probing' THEN 1 ELSE 0)
    <3> DEFINE n == Cardinality(Sessions)
    <3>1. inUse \in 0..PoolLimit /\ probing \in BOOLEAN
      BY DEF PoolInv, IngestTypeOK
    <3> HIDE DEF n
    <3>2. n \in Nat /\ inUse = n + (IF probing THEN 1 ELSE 0)
      BY <2>2 DEF n
    <3>3. CASE ProbeConnects
      <4>1. ~probing /\ probing' = TRUE /\ inUse < PoolLimit /\ inUse' = inUse + 1
        BY <3>3 DEF ProbeConnects
      <4>2. inUse = n
        BY <3>2, <4>1
      <4>3. inUse' \in 0..PoolLimit
        BY <3>1, <4>1, IngestionAssumption
      <4> QED BY <4>1, <4>2, <4>3 DEF n
    <3>4. CASE ProbeEnds
      <4>1. probing /\ probing' = FALSE /\ inUse' = inUse - 1
        BY <3>1, <3>4 DEF ProbeEnds
      <4>2. inUse' = n /\ n \in 0..PoolLimit
        BY <3>1, <3>2, <4>1, IngestionAssumption
      <4>3. inUse' = n + (IF probing' THEN 1 ELSE 0)
        BY <3>2, <4>1, <4>2
      <4> QED BY <4>1, <4>2, <4>3 DEF n
    <3> QED BY <1>4, <3>3, <3>4
  <2>4. IngestTypeOK'
    BY <1>4, <2>3 DEF ProbeConnects, ProbeEnds, lifecycle, PoolInv, IngestTypeOK
  <2> QED BY <2>1, <2>3, <2>4 DEF PoolInv, ConnectionsReturned, Sessions
<1> QED BY <1>1, <1>2, <1>3, <1>4 DEF IngestNext
-----------------------------------------------------------------------------
\* What a request's place in the handler says of its answer, its row, its
\* event and the causes recorded for it.
CauseInv ==
  \A r \in Requests :
    /\ Served(r) => payload[r].kind # "invalid"
    /\ pc[r] \in {"idle", "forwarded", "handling", "session", "commit", "respond"} =>
         answer[r] \in {"none", "502"} /\ r \notin events
    /\ pc[r] = "publish" => answer[r] \in {"202", "502"}
    /\ r \in rows => pc[r] \in {"respond", "publish", "done", "dead"}
    /\ pc[r] \in {"respond", "publish"} => r \in rows \/ causes[r] \ {"broker"} # {}

DivergenceInv == CauseInv /\ DivergenceNeedsCause

\* No request has ended when the system starts.
LEMMA DivergenceInvInit == IngestInit => DivergenceInv
BY DEF IngestInit, DivergenceInv, CauseInv, DivergenceNeedsCause, Ended, Served,
   InSession, NoBody

\* What the two say of one request.
CauseOf(r) ==
  /\ Served(r) => payload[r].kind # "invalid"
  /\ pc[r] \in {"idle", "forwarded", "handling", "session", "commit", "respond"} =>
       answer[r] \in {"none", "502"} /\ r \notin events
  /\ pc[r] = "publish" => answer[r] \in {"202", "502"}
  /\ r \in rows => pc[r] \in {"respond", "publish", "done", "dead"}
  /\ pc[r] \in {"respond", "publish"} => r \in rows \/ causes[r] \ {"broker"} # {}
  /\ Ended(r) /\ answer[r] = "202" =>
       /\ r \in rows \/ causes[r] \ {"broker"} # {}
       /\ r \in events \/ causes[r] \cap {"broker", "crash"} # {}
  /\ r \in rows \cup events => payload[r].kind # "invalid"
  /\ r \in events /\ "crash" \notin causes[r] => answer[r] \in {"202", "502"}

\* DivergenceInv, request by request.
LEMMA CauseOfAll == DivergenceInv <=> \A r \in Requests : CauseOf(r)
BY DEF DivergenceInv, CauseInv, DivergenceNeedsCause, CauseOf

\* A step of a request that gives up a write blames what made it.
LEMMA RequestCause ==
  ASSUME IngestTypeOK, NEW r \in Requests, CauseOf(r),
         Forward(r) \/ GatewayGivesUp(r) \/ Handle(r)
  PROVE  CauseOf(r)'
<1> USE DEF IngestTypeOK, CauseOf, Served, InSession, Ended, Goto, Blame, Answer
<1>1. CASE Forward(r)
  BY <1>1 DEF Forward
<1>2. CASE GatewayGivesUp(r)
  BY <1>2 DEF GatewayGivesUp
<1>3. CASE Receive(r)
  BY <1>3 DEF Receive
<1>4. CASE OpenSession(r)
  BY <1>4 DEF OpenSession
<1>5. CASE Execute(r)
  BY <1>5 DEF Execute
<1>6. CASE ExecuteRaises(r)
  BY <1>6 DEF ExecuteRaises
<1>7. CASE Commit(r)
  BY <1>7 DEF Commit
<1>8. CASE CommitRaises(r)
  BY <1>8 DEF CommitRaises
<1>9. CASE Respond(r)
  BY <1>9 DEF Respond
<1>10. CASE Publish(r)
  BY <1>10 DEF Publish
<1> QED BY <1>1, <1>2, <1>3, <1>4, <1>5, <1>6, <1>7, <1>8, <1>9, <1>10 DEF Handle

\* A step of one request says nothing new of another.
LEMMA OtherCause ==
  ASSUME IngestTypeOK, NEW r \in Requests, NEW q \in Requests \ {r}, CauseOf(q),
         Forward(r) \/ GatewayGivesUp(r) \/ Handle(r)
  PROVE  CauseOf(q)'
<1>1. /\ pc'[q] = pc[q] /\ payload'[q] = payload[q] /\ answer'[q] = answer[q]
      /\ causes'[q] = causes[q]
      /\ (q \in rows' <=> q \in rows) /\ (q \in events' <=> q \in events)
  BY DEF Forward, GatewayGivesUp, Handle, Receive, OpenSession, Execute,
     ExecuteRaises, Commit, CommitRaises, Respond, Publish, Goto, Blame, Answer,
     IngestTypeOK
<1> QED BY <1>1 DEF CauseOf, Served, InSession, Ended

\* DivergenceInv is inductive, given the types.
LEMMA DivergenceInvStep ==
  IngestTypeOK /\ DivergenceInv /\ [IngestNext]_ingestVars => DivergenceInv'
<1> SUFFICES ASSUME IngestTypeOK, \A q \in Requests : CauseOf(q),
                    [IngestNext]_ingestVars, NEW r \in Requests
             PROVE  CauseOf(r)'
  BY CauseOfAll DEF DivergenceInv, CauseInv, DivergenceNeedsCause, CauseOf
<1>1. ASSUME NEW q \in Requests, Forward(q) \/ GatewayGivesUp(q) \/ Handle(q)
      PROVE  CauseOf(r)'
  BY <1>1, RequestCause, OtherCause
<1>2. CASE Crash
  BY <1>2 DEF Crash, CauseOf, IngestTypeOK, Served, InSession, Ended
<1>3. CASE CreateEngine \/ StartProducer \/ Shutdown \/ ProbeConnects \/ ProbeEnds
           \/ UNCHANGED ingestVars
  <2>1. UNCHANGED <<pc, payload, answer, causes, rows, events>>
    BY <1>3 DEF CreateEngine, StartProducer, Shutdown, ProbeConnects, ProbeEnds, ingestVars
  <2> QED BY <2>1 DEF CauseOf, Served, InSession, Ended
<1> QED BY <1>1, <1>2, <1>3 DEF IngestNext
-----------------------------------------------------------------------------
\* f has what is left of q after each of its elements.
Leaves(q, gone, A, f) ==
  /\ f \in [0..Len(q) -> Seq(A)] /\ f[0] = <<>>
  /\ \A i \in 1..Len(q) :
       f[i] = IF q[i] \in gone THEN f[i - 1] ELSE Append(f[i - 1], q[i])
  /\ Without(q, gone) = f[Len(q)]

\* What Without leaves is the list in its old order, without those removed.
LEMMA WithoutKeeps ==
  ASSUME NEW A, NEW q \in Seq(A), NEW gone
  PROVE  \E f : Leaves(q, gone, A, f)
<1> DEFINE G == [i \in Nat |-> [v \in Seq(A) |->
                  IF i + 1 \notin 1..Len(q) THEN v
                  ELSE IF q[i + 1] \in gone THEN v ELSE Append(v, q[i + 1])]]
           Is(f) == f = [i \in 0..Len(q) |->
                           IF i = 0 THEN <<>>
                           ELSE IF q[i] \in gone THEN f[i - 1] ELSE Append(f[i - 1], q[i])]
           K == CHOOSE f : Is(f)
<1>0. Len(q) \in Nat /\ <<>> \in Seq(A)
  OBVIOUS
<1>1. G \in [Nat -> [Seq(A) -> Seq(A)]]
  <2>1. ASSUME NEW i \in Nat, NEW v \in Seq(A)
        PROVE  (IF i + 1 \notin 1..Len(q) THEN v
                  ELSE IF q[i + 1] \in gone THEN v ELSE Append(v, q[i + 1])) \in Seq(A)
    OBVIOUS
  <2> QED BY <2>1
<1>2. PICK f : Steps(Len(q), <<>>, G, Seq(A), f)
  <2> HIDE DEF G
  <2> QED BY <1>0, <1>1, StepsExist
<1>3. ASSUME NEW i \in 1..Len(q)
      PROVE  f[i] = IF q[i] \in gone THEN f[i - 1] ELSE Append(f[i - 1], q[i])
  <2>1. i - 1 \in 0..(Len(q) - 1) /\ (i - 1) + 1 = i /\ i - 1 \in Nat
    BY <1>0
  <2>2. f[i - 1] \in Seq(A) /\ f[i] = G[i - 1][f[i - 1]]
    <3> HIDE DEF G
    <3> DEFINE j == i - 1
    <3>1. j \in 0..(Len(q) - 1) /\ j \in 0..Len(q) /\ j + 1 = i
      BY <1>0
    <3> HIDE DEF j
    <3>2. f[j] \in Seq(A) /\ f[j + 1] = G[j][f[j]]
      BY <1>2, <3>1 DEF Steps
    <3>3. f[j] \in Seq(A) /\ f[i] = G[j][f[j]]
      BY <3>1, <3>2
    <3> QED BY <3>3 DEF j
  <2> QED BY <2>1, <2>2
<1> HIDE DEF G
<1>4. Is(f)
  <2>1. f \in [0..Len(q) -> Seq(A)] /\ f[0] = <<>>
    BY <1>2 DEF Steps
  <2>2. \A i \in 0..Len(q) : i # 0 => i \in 1..Len(q)
    BY <1>0
  <2> QED BY <1>3, <2>1, <2>2
<1>5. Is(K)
  <2> HIDE DEF Is
  <2> QED BY <1>4
<1>6. Without(q, gone) = K[Len(q)]
  BY DEF Without
<1> HIDE DEF K
<1>7. K[0] = <<>> /\ \A i \in 1..Len(q) :
        K[i] = IF q[i] \in gone THEN K[i - 1] ELSE Append(K[i - 1], q[i])
  <2>1. 0 \in 0..Len(q) /\ \A i \in 1..Len(q) : i \in 0..Len(q) /\ i # 0
    BY <1>0
  <2>2. \A i \in 0..Len(q) :
          K[i] = IF i = 0 THEN <<>>
                 ELSE IF q[i] \in gone THEN K[i - 1] ELSE Append(K[i - 1], q[i])
    BY <1>5
  <2> QED BY <2>1, <2>2
<1>8. K \in [0..Len(q) -> Seq(A)]
  <2> DEFINE S == {n \in Nat : n <= Len(q) => K[n] \in Seq(A)}
  <2>1. 0 \in S
    BY <1>0, <1>7
  <2>2. ASSUME NEW n \in Nat, n \in S PROVE n + 1 \in S
    <3> SUFFICES ASSUME n + 1 <= Len(q) PROVE K[n + 1] \in Seq(A)
      OBVIOUS
    <3>1. K[n] \in Seq(A) /\ n + 1 \in 1..Len(q) /\ (n + 1) - 1 = n
      BY <1>0, <2>2
    <3>2. K[n + 1] = IF q[n + 1] \in gone THEN K[n] ELSE Append(K[n], q[n + 1])
      BY <1>7, <3>1
    <3>3. q[n + 1] \in A
      BY <3>1
    <3> QED BY <3>1, <3>2, <3>3
  <2> HIDE DEF S
  <2>3. Nat \subseteq S
    BY <2>1, <2>2, SetInduction
  <2> USE DEF S
  <2>4. \A n \in 0..Len(q) : K[n] \in Seq(A)
    BY <1>0, <2>3
  <2>5. K = [n \in 0..Len(q) |-> K[n]]
    BY <1>5
  <2> QED BY <2>4, <2>5
<1> QED BY <1>6, <1>7, <1>8 DEF Leaves

OnceEach(q) == \A i, j \in DOMAIN q : q[i] = q[j] => i = j
Elements(q) == {q[i] : i \in DOMAIN q}

\* The list without gone has the others, each once.
LEMMA WithoutLeaves ==
  ASSUME NEW A, NEW q \in Seq(A), NEW gone, OnceEach(q)
  PROVE  /\ Without(q, gone) \in Seq(A) /\ OnceEach(Without(q, gone))
         /\ Elements(Without(q, gone)) = Elements(q) \ gone
<1>0. PICK f : Leaves(q, gone, A, f)
  BY WithoutKeeps
<1>1. /\ f \in [0..Len(q) -> Seq(A)] /\ f[0] = <<>>
      /\ \A i \in 1..Len(q) :
           f[i] = IF q[i] \in gone THEN f[i - 1] ELSE Append(f[i - 1], q[i])
      /\ Without(q, gone) = f[Len(q)]
  BY <1>0 DEF Leaves
<1>2. Len(q) \in Nat /\ DOMAIN q = 1..Len(q)
  OBVIOUS
<1> DEFINE Kept(n, g) ==
             /\ OnceEach(g)
             /\ \A i \in DOMAIN g : \E j \in 1..n : g[i] = q[j] /\ q[j] \notin gone
             /\ \A j \in 1..n : q[j] \notin gone => \E i \in DOMAIN g : g[i] = q[j]
           S == {n \in Nat : n <= Len(q) => Kept(n, f[n])}
<1>3. 0 \in S
  BY <1>1, <1>2 DEF OnceEach
<1>4. ASSUME NEW n \in Nat, n \in S PROVE n + 1 \in S
  <2> HIDE DEF Kept
  <2> SUFFICES ASSUME n + 1 <= Len(q) PROVE Kept(n + 1, f[n + 1])
    OBVIOUS
  <2> USE DEF Kept
  <2> DEFINE g == f[n]
             x == q[n + 1]
             h == f[n + 1]
  <2>1. /\ g \in Seq(A) /\ h = (IF x \in gone THEN g ELSE Append(g, x)) /\ x \in A
        /\ Kept(n, g)
    <3>1. n \in 0..Len(q) /\ n + 1 \in 1..Len(q) /\ (n + 1) - 1 = n
      BY <1>2
    <3> QED BY <1>1, <1>4, <3>1
  <2>2. ASSUME NEW j \in 1..n PROVE q[j] # x /\ j \in 1..(n + 1)
    BY <1>2 DEF OnceEach
  <2>3. n + 1 \in 1..(n + 1) /\ \A j \in 1..(n + 1) : j = n + 1 \/ j \in 1..n
    OBVIOUS
  <2> HIDE DEF g, x, h
  <2>4. CASE x \in gone
    <3>1. h = g
      BY <2>1, <2>4
    <3>2. \A j \in 1..(n + 1) : q[j] \notin gone => j \in 1..n
      BY <2>3, <2>4 DEF x
    <3>3. Kept(n + 1, g)
      BY <2>1, <2>2, <3>2
    <3> QED BY <3>1, <3>3 DEF h
  <2>5. CASE x \notin gone
    <3>1. h = Append(g, x)
      BY <2>1, <2>5
    <3>2. /\ DOMAIN h = 1..(Len(g) + 1) /\ DOMAIN g = 1..Len(g) /\ Len(g) \in Nat
          /\ h[Len(g) + 1] = x /\ \A i \in 1..Len(g) : h[i] = g[i]
      BY <2>1, <3>1
    <3>3. /\ \A i \in DOMAIN h : i = Len(g) + 1 \/ i \in DOMAIN g
          /\ DOMAIN g \subseteq DOMAIN h /\ Len(g) + 1 \in DOMAIN h
      BY <3>2
    <3>4. \A i \in DOMAIN g : g[i] # x
      BY <2>1, <2>2
    <3>5. OnceEach(h)
      <4>1. \A i, j \in DOMAIN g : g[i] = g[j] => i = j
        BY <2>1 DEF OnceEach
      <4> SUFFICES ASSUME NEW i \in DOMAIN h, NEW j \in DOMAIN h, h[i] = h[j] PROVE i = j
        BY DEF OnceEach
      <4>2. CASE i \in DOMAIN g /\ j \in DOMAIN g
        BY <3>2, <4>1, <4>2
      <4>3. CASE i \in DOMAIN g /\ j \notin DOMAIN g
        BY <3>2, <3>3, <3>4, <4>3
      <4>4. CASE i \notin DOMAIN g /\ j \in DOMAIN g
        BY <3>2, <3>3, <3>4, <4>4
      <4>5. CASE i \notin DOMAIN g /\ j \notin DOMAIN g
        BY <3>3, <4>5
      <4> QED BY <4>2, <4>3, <4>4, <4>5
    <3>6. \A i \in DOMAIN h : \E j \in 1..(n + 1) : h[i] = q[j] /\ q[j] \notin gone
      <4> TAKE i \in DOMAIN h
      <4>1. CASE i \in DOMAIN g
        BY <2>1, <2>2, <3>2, <4>1
      <4>2. CASE i = Len(g) + 1
        BY <2>3, <2>5, <3>2, <4>2 DEF x
      <4> QED BY <3>3, <4>1, <4>2
    <3>7. \A j \in 1..(n + 1) : q[j] \notin gone => \E i \in DOMAIN h : h[i] = q[j]
      <4> TAKE j \in 1..(n + 1)
      <4>1. CASE j \in 1..n
        BY <2>1, <3>2, <3>3, <4>1
      <4>2. CASE j = n + 1
        BY <3>2, <3>3, <4>2 DEF x
      <4> QED BY <2>3, <4>1, <4>2
    <3> QED BY <3>5, <3>6, <3>7 DEF h
  <2> QED BY <2>4, <2>5
<1> HIDE DEF S
<1>5. Len(q) \in S
  BY <1>2, <1>3, <1>4, SetInduction
<1>6. Kept(Len(q), f[Len(q)])
  <2> HIDE DEF Kept
  <2> QED BY <1>2, <1>5 DEF S
<1> DEFINE w == Without(q, gone)
<1>7. w = f[Len(q)] /\ w \in Seq(A)
  BY <1>1, <1>2
<1> HIDE DEF w
<1>8. Elements(w) = Elements(q) \ gone
  <2>1. /\ \A i \in DOMAIN w : \E j \in DOMAIN q : w[i] = q[j] /\ q[j] \notin gone
        /\ \A j \in DOMAIN q : q[j] \notin gone => \E i \in DOMAIN w : w[i] = q[j]
    BY <1>2, <1>6, <1>7
  <2>2. \A y \in Elements(w) : y \in Elements(q) /\ y \notin gone
    BY <2>1 DEF Elements
  <2>3. \A y \in Elements(q) : y \notin gone => y \in Elements(w)
    BY <2>1 DEF Elements
  <2> QED BY <2>2, <2>3
<1> QED BY <1>6, <1>7, <1>8 DEF w

\* To take one element out moves what follows it by one place.
LEMMA WithoutOne ==
  ASSUME NEW A, NEW q \in Seq(A), NEW x, OnceEach(q)
  PROVE  LET w == Without(q, {x}) IN
         /\ \A i \in DOMAIN w : w[i] = q[i] \/ (i + 1 \in DOMAIN q /\ w[i] = q[i + 1])
         /\ x \notin Elements(q) => w = q
<1>0. PICK f : Leaves(q, {x}, A, f)
  BY WithoutKeeps
<1>1. /\ f \in [0..Len(q) -> Seq(A)] /\ f[0] = <<>>
      /\ \A i \in 1..Len(q) :
           f[i] = IF q[i] \in {x} THEN f[i - 1] ELSE Append(f[i - 1], q[i])
      /\ Without(q, {x}) = f[Len(q)]
  BY <1>0 DEF Leaves
<1>2. Len(q) \in Nat /\ DOMAIN q = 1..Len(q)
  OBVIOUS
<1> DEFINE AtMostOne(n, g) ==
             /\ \/ Len(g) = n /\ \A i \in 1..n : g[i] = q[i] /\ q[i] # x
                \/ Len(g) = n - 1 /\ \E j \in 1..n : q[j] = x
             /\ \A i \in DOMAIN g : g[i] = q[i] \/ (i + 1 \in 1..n /\ g[i] = q[i + 1])
           S == {n \in Nat : n <= Len(q) => AtMostOne(n, f[n])}
<1>3. 0 \in S
  BY <1>1, <1>2
<1>4. ASSUME NEW n \in Nat, n \in S PROVE n + 1 \in S
  <2> HIDE DEF AtMostOne
  <2> SUFFICES ASSUME n + 1 <= Len(q) PROVE AtMostOne(n + 1, f[n + 1])
    OBVIOUS
  <2> USE DEF AtMostOne
  <2> DEFINE g == f[n]
             y == q[n + 1]
             h == f[n + 1]
  <2>1. /\ g \in Seq(A) /\ h = (IF y \in {x} THEN g ELSE Append(g, y)) /\ y \in A
        /\ AtMostOne(n, g)
    <3>1. n \in 0..Len(q) /\ n + 1 \in 1..Len(q) /\ (n + 1) - 1 = n
      BY <1>2
    <3> QED BY <1>1, <1>4, <3>1
  <2>2. ASSUME NEW j \in 1..n PROVE q[j] # y /\ j \in 1..(n + 1)
    BY <1>2 DEF OnceEach
  <2>3. n + 1 \in 1..(n + 1) /\ \A j \in 1..(n + 1) : j = n + 1 \/ j \in 1..n
    OBVIOUS
  <2> HIDE DEF g, y, h
  <2>4. CASE y = x
    <3>1. h = g
      BY <2>1, <2>4
    <3>2. Len(g) = n
      BY <2>1, <2>2, <2>4
    <3>3. Len(g) = (n + 1) - 1 /\ \E j \in 1..(n + 1) : q[j] = x
      BY <2>3, <2>4, <3>2 DEF y
    <3>4. \A i \in DOMAIN g : g[i] = q[i] \/ (i + 1 \in 1..(n + 1) /\ g[i] = q[i + 1])
      BY <2>1, <2>2
    <3> QED BY <3>1, <3>3, <3>4 DEF h
  <2>5. CASE y # x
    <3>1. h = Append(g, y)
      BY <2>1, <2>5
    <3>2. /\ DOMAIN h = 1..(Len(g) + 1) /\ DOMAIN g = 1..Len(g) /\ Len(g) \in Nat
          /\ Len(h) = Len(g) + 1
          /\ h[Len(g) + 1] = y /\ \A i \in 1..Len(g) : h[i] = g[i]
      BY <2>1, <3>1
    <3>3. /\ \A i \in DOMAIN h : i = Len(g) + 1 \/ i \in DOMAIN g
      BY <3>2
    <3>4. \/ Len(h) = n + 1 /\ \A i \in 1..(n + 1) : h[i] = q[i] /\ q[i] # x
          \/ Len(h) = (n + 1) - 1 /\ \E j \in 1..(n + 1) : q[j] = x
      <4>1. CASE Len(g) = n /\ \A i \in 1..n : g[i] = q[i] /\ q[i] # x
        BY <2>3, <2>5, <3>2, <4>1 DEF y
      <4>2. CASE Len(g) = n - 1 /\ \E j \in 1..n : q[j] = x
        BY <2>2, <3>2, <4>2
      <4> QED BY <2>1, <4>1, <4>2
    <3>5. \A i \in DOMAIN h : h[i] = q[i] \/ (i + 1 \in 1..(n + 1) /\ h[i] = q[i + 1])
      <4> TAKE i \in DOMAIN h
      <4>1. CASE i \in DOMAIN g
        BY <2>1, <2>2, <3>2, <4>1
      <4>2. CASE i = Len(g) + 1
        <5>1. Len(g) = n \/ Len(g) = n - 1
          BY <2>1
        <5> QED BY <2>3, <3>2, <4>2, <5>1 DEF y
      <4> QED BY <3>3, <4>1, <4>2
    <3> QED BY <3>4, <3>5 DEF h
  <2> QED BY <2>4, <2>5
<1> HIDE DEF S
<1>5. Len(q) \in S
  BY <1>2, <1>3, <1>4, SetInduction
<1>6. AtMostOne(Len(q), f[Len(q)])
  <2> HIDE DEF AtMostOne
  <2> QED BY <1>2, <1>5 DEF S
<1> DEFINE w == Without(q, {x})
<1>7. w = f[Len(q)] /\ w \in Seq(A)
  BY <1>1, <1>2
<1> HIDE DEF w
<1>8. ASSUME x \notin Elements(q) PROVE w = q
  <2>1. Len(w) = Len(q) /\ \A i \in 1..Len(q) : w[i] = q[i]
    BY <1>2, <1>6, <1>7, <1>8 DEF Elements
  <2> QED BY <1>7, <2>1
<1>9. \A i \in DOMAIN w : w[i] = q[i] \/ (i + 1 \in DOMAIN q /\ w[i] = q[i + 1])
  BY <1>2, <1>6, <1>7
<1> QED BY <1>8, <1>9 DEF w

\* A list that has each element once is as long as its set is large.
LEMMA OnceCount ==
  ASSUME NEW A, NEW q \in Seq(A), OnceEach(q)
  PROVE  IsFiniteSet(Elements(q)) /\ Cardinality(Elements(q)) = Len(q)
<1>1. Len(q) \in Nat /\ DOMAIN q = 1..Len(q)
  OBVIOUS
<1>2. IsFiniteSet(1..Len(q)) /\ Cardinality(1..Len(q)) = Len(q)
  BY <1>1, FS_Interval
<1> DEFINE f == [i \in 1..Len(q) |-> q[i]]
<1>3. f \in Bijection(1..Len(q), Elements(q))
  BY <1>1 DEF Bijection, Injection, Surjection, IsInjective, Elements, OnceEach
<1> QED BY <1>2, <1>3, FS_Bijection DEF ExistsBijection

\* The live feed.  Passed are the open connections listed throughout the
\* broadcast that the iterator has left behind without a message.
Passed ==
  {s \in staying \ reached :
     socket[s] = "open" /\ \E i \in DOMAIN active : i < cursor /\ active[i] = s}

FeedInv ==
  /\ FeedTypeOK /\ OnceEach(active)
  /\ \A s \in Listed \cup reached \cup staying : socket[s] # "new"
  /\ staying \subseteq Listed
  /\ cursor # NoOffset =>
       /\ \A i \in DOMAIN active : i >= cursor => active[i] \notin reached
       /\ Cardinality(Passed) <= removals

\* No browser is connected when the gateway starts.
LEMMA FeedInvInit == FeedInit => FeedInv
<1> SUFFICES ASSUME FeedInit PROVE FeedInv
  OBVIOUS
<1>1. Cardinality(Sockets) \in Nat
  BY FeedAssumption, FS_CardinalityType
<1>2. FeedTypeOK
  BY <1>1, FeedAssumption DEF FeedInit, FeedTypeOK, NoOffset
<1> QED BY <1>2 DEF FeedInit, FeedInv, OnceEach, Listed, NoOffset

\* What FeedTypeOK says, action by action, of what the others leave alone.
LEMMA FeedFacts ==
  ASSUME FeedInv
  PROVE  /\ active \in Seq(Sockets) /\ Len(active) \in Nat /\ DOMAIN active = 1..Len(active)
         /\ Listed = Elements(active) /\ IsFiniteSet(Listed) /\ Cardinality(Listed) = Len(active)
         /\ Len(active) <= Cardinality(Sockets) /\ Cardinality(Sockets) \in Nat
         /\ IsFiniteSet(Passed) /\ Cardinality(Passed) \in Nat /\ removals \in Nat
         /\ cursor \in Nat /\ socket \in [Sockets -> {"new", "open", "broken", "closed"}]
<1>1. /\ active \in Seq(Sockets) /\ removals \in Nat /\ cursor \in Nat /\ OnceEach(active)
      /\ socket \in [Sockets -> {"new", "open", "broken", "closed"}]
      /\ Cardinality(Sockets) \in Nat
  BY FeedAssumption, FS_CardinalityType DEF FeedInv, FeedTypeOK
<1>2. Len(active) \in Nat /\ DOMAIN active = 1..Len(active) /\ Listed = Elements(active)
  BY <1>1 DEF Listed, Elements
<1>3. IsFiniteSet(Listed) /\ Cardinality(Listed) = Len(active)
  BY <1>1, <1>2, OnceCount
<1>4. Listed \subseteq Sockets
  BY <1>1, <1>2 DEF Listed
<1>5. Cardinality(Listed) <= Cardinality(Sockets)
  BY <1>4, FeedAssumption, FS_Subset
<1>6. IsFiniteSet(Passed)
  BY <1>3, FS_Subset DEF Passed, FeedInv
<1> QED BY <1>1, <1>2, <1>3, <1>5, <1>6, FS_CardinalityType

\* The steps of the consumer and the topic leave the broadcast alone.
LEMMA GroupStep ==
  ASSUME FeedInv, StartConsumer \/ PublishEvaluated \/ AutoCommit \/ ConsumerError
  PROVE  FeedInv'
<1>1. UNCHANGED <<socket, active, broadcasting, staying, removals>>
  BY DEF StartConsumer, PublishEvaluated, AutoCommit, ConsumerError
<1>2. /\ feed' \in 0..MaxFeed /\ committed' \in 0..MaxFeed + 1 /\ position' \in 0..MaxFeed + 1
      /\ consumer' \in {"stopped", "running", "sleeping"}
  BY FeedAssumption DEF FeedInv, FeedTypeOK, StartConsumer, PublishEvaluated, AutoCommit,
     ConsumerError, group
<1>3. FeedTypeOK'
  BY <1>1, <1>2 DEF FeedInv, FeedTypeOK, broadcasting
<1>4. Listed' = Listed /\ Passed' = Passed
  BY <1>1 DEF Listed, Passed, broadcasting
<1> QED BY <1>1, <1>3, <1>4 DEF FeedInv, OnceEach, broadcasting

\* A connection is new, or its peer leaves.
LEMMA ConnectStep == ASSUME FeedInv, NEW s \in Sockets, Connect(s) PROVE FeedInv'
<1>1. /\ socket[s] = "new" /\ socket' = [socket EXCEPT ![s] = "open"]
      /\ active' = Append(active, s)
      /\ UNCHANGED <<feed, committed, consumer, position, cursor, dead, reached, staying, removals>>
  BY DEF Connect, group, broadcasting
<1>2. s \notin Listed /\ s \notin reached /\ s \notin staying
  BY <1>1 DEF FeedInv
<1>3. /\ active' \in Seq(Sockets) /\ DOMAIN active' = 1..(Len(active) + 1)
      /\ active'[Len(active) + 1] = s /\ \A i \in DOMAIN active : active'[i] = active[i]
  BY <1>1, FeedFacts, AppendProperties
<1>4. \A i \in DOMAIN active' : i = Len(active) + 1 \/ i \in DOMAIN active
  BY <1>3, FeedFacts
<1>5. Len(active) + 1 \in DOMAIN active' /\ DOMAIN active \subseteq DOMAIN active'
  BY <1>3, FeedFacts
<1>6. Listed' = Listed \cup {s}
  BY <1>3, <1>4, <1>5 DEF Listed
<1>7. OnceEach(active)'
  <2>1. \A i \in DOMAIN active : active[i] # s
    BY <1>2 DEF Listed
  <2> QED BY <1>3, <1>4, <2>1 DEF OnceEach, FeedInv
<1>8. socket' \in [Sockets -> {"new", "open", "broken", "closed"}] /\ socket'[s] = "open"
      /\ \A t \in Sockets \ {s} : socket'[t] = socket[t]
  BY <1>1, FeedFacts
<1>9. Passed' = Passed
  <2>1. \A t \in staying \ reached : t # s /\ t \in Sockets
    BY <1>2 DEF FeedInv, FeedTypeOK
  <2>2. \A t \in staying \ reached : socket'[t] = socket[t]
    BY <1>8, <2>1
  <2>3. \A t \in staying \ reached :
          (\E i \in DOMAIN active : i < cursor /\ active[i] = t)
            <=> (\E i \in DOMAIN active' : i < cursor /\ active'[i] = t)
    BY <1>3, <1>4, <1>5, <2>1
  <2> QED BY <1>1, <2>2, <2>3 DEF Passed
<1>10. FeedTypeOK'
  BY <1>1, <1>3, <1>8 DEF FeedInv, FeedTypeOK
<1>11. \A t \in (Listed \cup reached \cup staying)' : socket'[t] # "new"
  <2>1. \A t \in Listed \cup reached \cup staying : t \in Sockets /\ socket[t] # "new"
    <3>1. Listed \subseteq Sockets
      BY FeedFacts DEF Listed
    <3> QED BY <3>1 DEF FeedInv, FeedTypeOK
  <2> QED BY <1>1, <1>6, <1>8, <2>1
<1>12. cursor' # NoOffset =>
         /\ \A i \in DOMAIN active' : i >= cursor' => active'[i] \notin reached'
         /\ Cardinality(Passed') <= removals'
  BY <1>1, <1>2, <1>3, <1>4, <1>9 DEF FeedInv
<1> QED BY <1>1, <1>6, <1>7, <1>10, <1>11, <1>12 DEF FeedInv

\* A browser that goes away stays in the list until a send or a receive fails.
LEMMA LeaveStep == ASSUME FeedInv, NEW s \in Sockets, PeerLeaves(s) PROVE FeedInv'
<1>1. /\ socket[s] = "open" /\ socket' = [socket EXCEPT ![s] = "broken"]
      /\ UNCHANGED <<active, feed, committed, consumer, position, cursor, dead, reached, staying,
                     removals>>
  BY DEF PeerLeaves, group, broadcasting
<1>2. /\ socket' \in [Sockets -> {"new", "open", "broken", "closed"}]
      /\ \A t \in Sockets : socket'[t] = socket[t] \/ socket'[t] = "broken"
  BY <1>1, FeedFacts
<1>3. Listed' = Listed /\ \A t \in Listed \cup reached \cup staying : t \in Sockets
  BY <1>1, FeedFacts DEF Listed, FeedInv, FeedTypeOK
<1>4. Passed' \subseteq Passed
  BY <1>1, <1>2, <1>3 DEF Passed
<1>5. Cardinality(Passed') <= Cardinality(Passed) /\ Cardinality(Passed') \in Nat
  BY <1>4, FeedFacts, FS_Subset, FS_CardinalityType
<1>6. cursor # NoOffset => Cardinality(Passed') <= removals
  BY <1>5, FeedFacts DEF FeedInv
<1>7. FeedTypeOK'
  BY <1>1, <1>2 DEF FeedInv, FeedTypeOK
<1>8. \A t \in Listed \cup reached \cup staying : socket'[t] # "new"
  BY <1>2, <1>3 DEF FeedInv
<1> QED BY <1>1, <1>3, <1>6, <1>7, <1>8 DEF FeedInv, OnceEach

\* The list loses one connection, perhaps under the iterator.
LEMMA ReceiveStep == ASSUME FeedInv, NEW s \in Sockets, ReceiveRaises(s) PROVE FeedInv'
<1>1. /\ socket[s] = "broken" /\ socket' = [socket EXCEPT ![s] = "closed"]
      /\ active' = Without(active, {s}) /\ staying' = staying \ {s}
      /\ removals' = removals + Cardinality({s} \cap Listed)
      /\ UNCHANGED <<feed, committed, consumer, position, cursor, dead, reached>>
  BY DEF ReceiveRaises, Unlist, group, broadcasting
<1>2. /\ active' \in Seq(Sockets) /\ OnceEach(active') /\ Elements(active') = Listed \ {s}
      /\ \A i \in DOMAIN active' :
           active'[i] = active[i] \/ (i + 1 \in DOMAIN active /\ active'[i] = active[i + 1])
      /\ s \notin Listed => active' = active
  <2> DEFINE w == Without(active, {s})
  <2>1. /\ w \in Seq(Sockets) /\ OnceEach(w) /\ Elements(w) = Listed \ {s}
    BY FeedFacts, WithoutLeaves DEF FeedInv
  <2>2. /\ \A i \in DOMAIN w : w[i] = active[i] \/ (i + 1 \in DOMAIN active /\ w[i] = active[i + 1])
        /\ s \notin Listed => w = active
    BY FeedFacts, WithoutOne DEF FeedInv
  <2> HIDE DEF w
  <2>3. active' = w
    BY <1>1 DEF w
  <2> QED BY <2>1, <2>2, <2>3
<1>3. Listed' = Listed \ {s} /\ DOMAIN active' \subseteq Nat
  BY <1>2 DEF Listed, Elements
<1>4. /\ socket' \in [Sockets -> {"new", "open", "broken", "closed"}]
      /\ \A t \in Sockets : socket'[t] = socket[t] \/ socket'[t] = "closed"
  BY <1>1, FeedFacts
<1>5. /\ Cardinality({s} \cap Listed) = IF s \in Listed THEN 1 ELSE 0
  <2>1. Cardinality({s}) = 1 /\ Cardinality({}) = 0
    BY FS_Singleton, FS_EmptySet
  <2>2. {s} \cap Listed = IF s \in Listed THEN {s} ELSE {}
    OBVIOUS
  <2> QED BY <2>1, <2>2
<1>6. removals' = removals + (IF s \in Listed THEN 1 ELSE 0) /\ removals' \in Nat
  BY <1>1, <1>5, FeedFacts
<1>7. \A t \in Listed \cup reached \cup staying : t \in Sockets /\ socket[t] # "new"
  BY FeedFacts DEF Listed, FeedInv, FeedTypeOK
<1>8. FeedTypeOK'
  BY <1>1, <1>2, <1>4, <1>6 DEF FeedInv, FeedTypeOK
<1>9. \A t \in Listed' \cup reached' \cup staying' : socket'[t] # "new"
  BY <1>1, <1>3, <1>4, <1>7
<1>10. ASSUME cursor' # NoOffset PROVE Cardinality(Passed') <= removals'
  <2>1. Cardinality(Passed) <= removals
    BY <1>1, <1>10 DEF FeedInv
  <2>2. CASE s \notin Listed
    <3>1. Passed' \subseteq Passed
      BY <1>1, <1>2, <1>4, <1>7, <2>2 DEF Passed
    <3>2. Cardinality(Passed') <= Cardinality(Passed) /\ Cardinality(Passed') \in Nat
      BY <3>1, FeedFacts, FS_Subset, FS_CardinalityType
    <3> QED BY <1>6, <2>1, <2>2, <3>2, FeedFacts
  <2>3. CASE s \in Listed
    <3> DEFINE x == active[cursor]
    <3>1. Passed' \subseteq Passed \cup {x}
      <4> SUFFICES ASSUME NEW t \in Passed', t # x PROVE t \in Passed
        OBVIOUS
      <4>1. /\ t \in staying \ reached /\ socket'[t] = "open" /\ socket[t] = "open"
            /\ \E i \in DOMAIN active' : i < cursor /\ active'[i] = t
        BY <1>1, <1>4, <1>7 DEF Passed
      <4>2. PICK i \in DOMAIN active' : i < cursor /\ active'[i] = t
        BY <4>1
      <4>3. i \in Nat /\ cursor \in Nat
        BY <1>3, FeedFacts
      <4>4. CASE active'[i] = active[i] /\ i \in DOMAIN active
        BY <4>1, <4>2, <4>4 DEF Passed
      <4>5. CASE i + 1 \in DOMAIN active /\ active'[i] = active[i + 1]
        <5>1. i + 1 # cursor
          BY <4>2, <4>5
        <5>2. i + 1 < cursor /\ active[i + 1] = t
          BY <4>2, <4>3, <4>5, <5>1
        <5> QED BY <4>1, <4>5, <5>2 DEF Passed
      <4>6. i \in DOMAIN active
        <5>1. Len(active') <= Len(active)
          <6>1. Cardinality(Elements(active')) = Len(active')
            BY <1>2, OnceCount
          <6>2. Cardinality(Listed \ {s}) <= Cardinality(Listed)
            BY FeedFacts, FS_Subset
          <6> QED BY <1>2, <6>1, <6>2, FeedFacts
        <5>2. DOMAIN active' = 1..Len(active') /\ Len(active') \in Nat
          BY <1>2
        <5> QED BY <5>1, <5>2, FeedFacts
      <4> QED BY <1>2, <4>4, <4>5, <4>6
    <3> HIDE DEF x
    <3>2. /\ IsFiniteSet(Passed \cup {x})
          /\ Cardinality(Passed \cup {x}) = IF x \in Passed THEN Cardinality(Passed)
                                            ELSE Cardinality(Passed) + 1
      BY FeedFacts, FS_AddElement
    <3>3. Cardinality(Passed') <= Cardinality(Passed \cup {x}) /\ Cardinality(Passed') \in Nat
      BY <3>1, <3>2, FS_Subset, FS_CardinalityType
    <3> QED BY <1>6, <2>1, <2>3, <3>2, <3>3, FeedFacts
  <2> QED BY <2>2, <2>3
<1>11. cursor' # NoOffset => \A i \in DOMAIN active' : i >= cursor' => active'[i] \notin reached'
  <2> SUFFICES ASSUME cursor # NoOffset, NEW i \in DOMAIN active', i >= cursor
               PROVE  active'[i] \notin reached
    BY <1>1
  <2>1. i \in Nat /\ cursor \in Nat
    BY <1>3, FeedFacts
  <2>2. \A j \in DOMAIN active : j >= cursor => active[j] \notin reached
    BY DEF FeedInv
  <2>3. active'[i] \in Listed
    BY <1>2 DEF Elements
  <2>4. CASE active'[i] = active[i]
    <3>1. i \in DOMAIN active
      <4>1. Len(active') <= Len(active)
        <5>1. Cardinality(Elements(active')) = Len(active')
          BY <1>2, OnceCount
        <5>2. Cardinality(Listed \ {s}) <= Cardinality(Listed)
          BY FeedFacts, FS_Subset
        <5> QED BY <1>2, <5>1, <5>2, FeedFacts
      <4>2. DOMAIN active' = 1..Len(active') /\ Len(active') \in Nat
        BY <1>2
      <4> QED BY <4>1, <4>2, FeedFacts
    <3> QED BY <2>2, <2>4, <3>1
  <2>5. CASE i + 1 \in DOMAIN active /\ active'[i] = active[i + 1]
    <3>1. i + 1 >= cursor
      BY <2>1
    <3> QED BY <2>2, <2>5, <3>1
  <2> QED BY <1>2, <2>4, <2>5
<1>12. staying' \subseteq Listed'
  BY <1>1, <1>3 DEF FeedInv
<1> QED BY <1>2, <1>8, <1>9, <1>10, <1>11, <1>12 DEF FeedInv

\* The broadcast itself.
LEMMA FetchStep == ASSUME FeedInv, Fetch PROVE FeedInv'
<1>1. /\ cursor' = 1 /\ position' = position + 1 /\ position <= feed
      /\ dead' = <<>> /\ reached' = {} /\ staying' = Listed /\ removals' = 0
      /\ UNCHANGED <<socket, active, feed, committed, consumer>>
  BY DEF Fetch
<1>2. Listed' = Listed /\ Listed \subseteq Sockets
  BY <1>1, FeedFacts DEF Listed
<1>3. Passed' = {}
  BY <1>1, FeedFacts DEF Passed
<1>4. FeedTypeOK'
  <2>1. position' \in 0..MaxFeed + 1
    BY <1>1, FeedAssumption DEF FeedInv, FeedTypeOK
  <2>2. cursor' \in 0..Cardinality(Sockets) + 1
    BY <1>1, FeedFacts
  <2> QED BY <1>1, <1>2, <2>1, <2>2 DEF FeedInv, FeedTypeOK
<1>5. Cardinality(Passed') <= removals'
  BY <1>1, <1>3, FS_EmptySet
<1> QED BY <1>1, <1>2, <1>4, <1>5 DEF FeedInv, OnceEach

\* A send reaches the connection under the cursor or finds it dead.
LEMMA SendStep == ASSUME FeedInv, Send PROVE FeedInv'
<1> DEFINE s == active[cursor]
<1>1. /\ cursor \in DOMAIN active /\ cursor' = cursor + 1
      /\ UNCHANGED <<socket, active, feed, committed, consumer, position, staying, removals>>
  BY DEF Send, group
<1>2. \/ socket[s] = "open" /\ reached' = reached \cup {s} /\ dead' = dead
      \/ socket[s] # "open" /\ dead' = Append(dead, s) /\ reached' = reached
  BY DEF Send
<1>3. s \in Sockets /\ s \in Listed /\ socket[s] # "new" /\ cursor # NoOffset
  BY <1>1, FeedFacts DEF Listed, FeedInv, NoOffset
<1>4. FeedTypeOK'
  <2>1. cursor' \in 0..Cardinality(Sockets) + 1
    BY <1>1, FeedFacts
  <2>2. dead' \in Seq(Sockets) /\ reached' \in SUBSET Sockets
    <3>1. dead \in Seq(Sockets) /\ reached \in SUBSET Sockets
      BY DEF FeedInv, FeedTypeOK
    <3> HIDE DEF s
    <3>2. Append(dead, s) \in Seq(Sockets)
      BY <1>3, <3>1, AppendProperties
    <3> QED BY <1>2, <1>3, <3>1, <3>2
  <2> QED BY <1>1, <2>1, <2>2 DEF FeedInv, FeedTypeOK
<1>5. Listed' = Listed /\ \A t \in Listed' \cup reached' \cup staying' : socket'[t] # "new"
  BY <1>1, <1>2, <1>3 DEF FeedInv, Listed
<1>6. \A i \in DOMAIN active' : i >= cursor' => active'[i] \notin reached'
  <2> SUFFICES ASSUME NEW i \in DOMAIN active, i >= cursor + 1 PROVE active[i] \notin reached'
    BY <1>1
  <2>1. i >= cursor /\ i # cursor
    BY <1>1, FeedFacts
  <2>2. active[i] # s
    BY <1>1, <2>1 DEF FeedInv, OnceEach
  <2>3. active[i] \notin reached
    BY <1>3, <2>1 DEF FeedInv
  <2> QED BY <1>2, <2>2, <2>3
<1>7. Passed' \subseteq Passed
  <2> SUFFICES ASSUME NEW t \in Passed' PROVE t \in Passed
    OBVIOUS
  <2>1. t \in staying /\ t \notin reached' /\ socket[t] = "open"
        /\ \E i \in DOMAIN active : i < cursor + 1 /\ active[i] = t
    BY <1>1 DEF Passed
  <2>2. PICK i \in DOMAIN active : i < cursor + 1 /\ active[i] = t
    BY <2>1
  <2>3. t \notin reached /\ t # s
    BY <1>2, <2>1
  <2>4. i # cursor
    BY <2>2, <2>3
  <2>5. i < cursor
    BY <1>1, <2>2, <2>4, FeedFacts
  <2> QED BY <2>1, <2>2, <2>3, <2>5 DEF Passed
<1>8. Cardinality(Passed') <= Cardinality(Passed) /\ Cardinality(Passed') \in Nat
  BY <1>7, FeedFacts, FS_Subset, FS_CardinalityType
<1>9. Cardinality(Passed') <= removals'
  BY <1>1, <1>3, <1>8, FeedFacts DEF FeedInv
<1> QED BY <1>1, <1>4, <1>5, <1>6, <1>9 DEF FeedInv, OnceEach

\* The end of a broadcast unlists the dead, which no longer count as staying.
LEMMA EndStep == ASSUME FeedInv, EndBroadcast PROVE FeedInv'
<1> DEFINE gone == ToSet(dead)
<1>1. /\ cursor' = NoOffset /\ active' = Without(active, gone) /\ staying' = staying \ gone
      /\ removals' = removals + Cardinality(gone \cap Listed)
      /\ UNCHANGED <<socket, feed, committed, consumer, position, dead, reached>>
  BY DEF EndBroadcast, Unlist, group
<1>2. /\ Without(active, gone) \in Seq(Sockets) /\ OnceEach(Without(active, gone))
      /\ Elements(Without(active, gone)) = Listed \ gone
  BY FeedFacts, WithoutLeaves DEF FeedInv
<1>3. active' \in Seq(Sockets) /\ OnceEach(active') /\ Elements(active') = Listed \ gone
  BY <1>1, <1>2
<1>4. Listed' = Listed \ gone
  BY <1>3 DEF Listed, Elements
<1>5. removals' \in Nat
  <2>1. IsFiniteSet(gone \cap Listed)
    BY FeedFacts, FS_Subset
  <2> QED BY <1>1, <2>1, FeedFacts, FS_CardinalityType
<1>6. FeedTypeOK'
  <2>1. cursor' \in 0..Cardinality(Sockets) + 1
    BY <1>1, FeedFacts DEF NoOffset
  <2> QED BY <1>1, <1>3, <1>5, <2>1 DEF FeedInv, FeedTypeOK
<1> QED BY <1>1, <1>3, <1>4, <1>6 DEF FeedInv

\* FeedInv is inductive.
LEMMA FeedInvStep == FeedInv /\ [FeedNext]_feedVars => FeedInv'
<1> SUFFICES ASSUME FeedInv, [FeedNext]_feedVars PROVE FeedInv'
  OBVIOUS
<1>1. CASE UNCHANGED feedVars
  BY <1>1 DEF feedVars, FeedInv, FeedTypeOK, OnceEach, Listed, Passed
<1>2. CASE FeedNext
  BY <1>2, GroupStep, ConnectStep, LeaveStep, ReceiveStep, FetchStep, SendStep, EndStep
     DEF FeedNext
<1> QED BY <1>1, <1>2

\* Each removal under the iterator costs at most one connection its message.
LEMMA FeedInvImplies == FeedInv => BroadcastReaches
<1> SUFFICES ASSUME FeedInv PROVE BroadcastReaches
  OBVIOUS
<1>1. Cardinality(Listed) = Len(active)
  BY FeedFacts
<1>2. cursor # NoOffset => \A i \in cursor..Len(active) : active[i] \notin reached
  BY FeedFacts DEF FeedInv, NoOffset
<1>3. ASSUME cursor > Len(active)
      PROVE  Cardinality({s \in staying \ reached : socket[s] = "open"}) <= removals
  <2>1. \A s \in staying : \E i \in DOMAIN active : i < cursor /\ active[i] = s
    BY <1>3, FeedFacts DEF FeedInv, Listed
  <2>2. {s \in staying \ reached : socket[s] = "open"} = Passed
    BY <2>1 DEF Passed
  <2>3. cursor # NoOffset
    BY <1>3, FeedFacts DEF NoOffset
  <2> QED BY <2>2, <2>3 DEF FeedInv
<1> QED BY <1>1, <1>2, <1>3 DEF BroadcastReaches
-----------------------------------------------------------------------------
\* The dashboards.  The five places are apart, no number is queued twice or held
\* by two clients, and a client holds a record exactly while it yields it.
Apart(a, b, c, d, e) ==
  /\ a \cap b = {} /\ a \cap c = {} /\ a \cap d = {} /\ a \cap e = {}
  /\ b \cap c = {} /\ b \cap d = {} /\ b \cap e = {}
  /\ c \cap d = {} /\ c \cap e = {} /\ d \cap e = {}

HoldsOnce ==
  /\ \A c \in Clients : client[c].holds # 0 <=> client[c].at = "yield"
  /\ \A c, d \in Clients : client[c].holds = client[d].holds /\ client[c].holds # 0 => c = d

QueuedOnce ==
  \A s, t \in Streams : \A i \in DOMAIN queue[s], j \in DOMAIN queue[t] :
    queue[s][i] = queue[t][j] => s = t /\ i = j

ClientType ==
  [at : {"away", "check", "wait", "yield", "gone"}, stream : Streams,
   holds : 0..MaxEvents, here : BOOLEAN]

PlaceInv ==
  /\ DashTypeOK /\ HoldsOnce /\ QueuedOnce
  /\ Relayed = Queued \cup Held \cup shown \cup dropped \cup lost
  /\ Apart(Queued, Held, shown, dropped, lost)

\* No record was consumed when customer-profile starts.
LEMMA PlaceInvInit == DashInit => PlaceInv
<1> SUFFICES ASSUME DashInit PROVE PlaceInv
  OBVIOUS
<1>1. DashTypeOK
  BY DashboardAssumption DEF DashInit, DashTypeOK, Streams
<1>2. HoldsOnce /\ QueuedOnce
  BY DEF DashInit, HoldsOnce, QueuedOnce
<1>3. Queued = {} /\ Held = {} /\ Relayed = {}
  BY DEF DashInit, Queued, Held, Relayed, ToSet
<1> QED BY <1>1, <1>2, <1>3 DEF PlaceInv, Apart, DashInit

\* What a client's own step does to its record, and what it holds.
LEMMA ClientMoves ==
  ASSUME PlaceInv, NEW c \in Clients, NEW g \in ClientType,
         client' = [client EXCEPT ![c] = g]
  PROVE  /\ client' \in [Clients -> ClientType]
         /\ client'[c] = g /\ \A d \in Clients \ {c} : client'[d] = client[d]
         /\ Held' = (Held \ {client[c].holds}) \cup ({g.holds} \ {0})
<1>1. client \in [Clients -> ClientType]
  BY DEF PlaceInv, DashTypeOK, ClientType
<1>2. /\ client' \in [Clients -> ClientType]
      /\ client'[c] = g /\ \A d \in Clients \ {c} : client'[d] = client[d]
  BY <1>1
<1>3. \A d \in Clients \ {c} : client[d].holds # 0 => client[d].holds # client[c].holds
  BY DEF PlaceInv, HoldsOnce
<1> HIDE DEF ClientType
<1>4. Held' = (Held \ {client[c].holds}) \cup ({g.holds} \ {0})
  BY <1>2, <1>3 DEF Held
<1> QED BY <1>2, <1>4

\* A step of a client that takes and yields nothing.
LEMMA IdleClient ==
  ASSUME PlaceInv, NEW c \in Clients, Open(c) \/ Leave(c) \/ Check(c) \/ Ping(c)
  PROVE  PlaceInv'
<1> DEFINE g == client'[c]
<1>0. UNCHANGED <<records, consuming, queue, shown, dropped, lost>>
  BY DEF Open, Leave, Check, Ping
<1>1. client \in [Clients -> ClientType] /\ client[c] \in ClientType
  BY DEF PlaceInv, DashTypeOK, ClientType
<1>2. client' = [client EXCEPT ![c] = g]
  BY <1>1 DEF Open, Leave, Check, Ping, Move
<1>3. /\ g \in ClientType /\ g.holds = client[c].holds
      /\ (g.at # "yield" /\ client[c].at # "yield") \/ g.at = client[c].at
  <2> DEFINE h == client[c]
  <2>1. CASE Open(c)
    <3>1. PICK s \in Streams : g = [[h EXCEPT !.at = "check"] EXCEPT !.stream = s]
      BY <1>1, <2>1 DEF Open
    <3> HIDE DEF g, h
    <3>2. g \in ClientType /\ g.holds = h.holds /\ g.at = "check"
      BY <1>1, <3>1 DEF ClientType, h
    <3> QED BY <2>1, <3>2 DEF Open, h
  <2>2. CASE Leave(c)
    <3>1. g = [h EXCEPT !.here = FALSE]
      BY <1>1, <2>2 DEF Leave
    <3> HIDE DEF g, h
    <3>2. g \in ClientType /\ g.holds = h.holds /\ g.at = h.at
      BY <1>1, <3>1 DEF ClientType, h
    <3> QED BY <2>2, <3>2 DEF h
  <2>3. CASE Check(c) \/ Ping(c)
    <3>1. PICK a \in {"wait", "gone", "check"} : g = [h EXCEPT !.at = a]
      BY <1>1, <2>3 DEF Check, Ping, Move
    <3>2. h.at # "yield"
      BY <2>3 DEF Check, Ping
    <3> HIDE DEF g, h
    <3>3. g \in ClientType /\ g.holds = h.holds /\ g.at = a
      BY <1>1, <3>1 DEF ClientType, h
    <3> QED BY <3>2, <3>3 DEF h
  <2> QED BY <2>1, <2>2, <2>3
<1> HIDE DEF g
<1>4. /\ client' \in [Clients -> ClientType] /\ client'[c] = g
      /\ \A d \in Clients \ {c} : client'[d] = client[d]
      /\ Held' = (Held \ {client[c].holds}) \cup ({g.holds} \ {0})
  BY <1>2, <1>3, ClientMoves
<1>5. Held' = Held
  BY <1>3, <1>4 DEF Held
<1>6. Queued' = Queued /\ Relayed' = Relayed
  BY <1>0 DEF Queued, Relayed
<1>7. HoldsOnce'
  <2>1. \A d \in Clients : client'[d].holds = client[d].holds
    BY <1>3, <1>4
  <2>2. \A d \in Clients : client'[d].at = "yield" <=> client[d].at = "yield"
    BY <1>3, <1>4
  <2> QED BY <2>1, <2>2 DEF HoldsOnce, PlaceInv
<1>8. DashTypeOK'
  BY <1>0, <1>4 DEF PlaceInv, DashTypeOK, ClientType
<1> QED BY <1>0, <1>5, <1>6, <1>7, <1>8 DEF PlaceInv, QueuedOnce

\* The record at the head of a queue goes to the client.
LEMMA TakeInv == ASSUME PlaceInv, NEW c \in Clients, Take(c) PROVE PlaceInv'
<1> DEFINE s == client[c].stream
           q == queue[s]
           n == Head(q)
           g == client'[c]
<1>1. /\ client \in [Clients -> ClientType] /\ client[c] \in ClientType /\ s \in Streams
      /\ queue \in [Streams -> Seq(1..MaxEvents)] /\ q \in Seq(1..MaxEvents)
  BY DEF PlaceInv, DashTypeOK, ClientType
<1>2. /\ client[c].at = "wait" /\ q # <<>> /\ queue' = [queue EXCEPT ![s] = Tail(q)]
      /\ UNCHANGED <<records, consuming, shown, dropped, lost>>
  BY DEF Take
<1>3. n \in 1..MaxEvents /\ Tail(q) \in Seq(1..MaxEvents) /\ n = q[1] /\ 1 \in DOMAIN q
  <2> HIDE DEF q
  <2>1. Head(q) \in 1..MaxEvents /\ Tail(q) \in Seq(1..MaxEvents)
    BY <1>1, <1>2, HeadTailProperties
  <2>2. Head(q) = q[1] /\ 1 \in DOMAIN q
    BY <1>1, <1>2
  <2> QED BY <2>1, <2>2
<1>4. DOMAIN Tail(q) = 1..(Len(q) - 1) /\ DOMAIN q = 1..Len(q) /\ Len(q) \in Nat
      /\ \A i \in DOMAIN Tail(q) : Tail(q)[i] = q[i + 1]
  BY <1>1, <1>2, HeadTailProperties
<1>5. /\ queue' \in [Streams -> Seq(1..MaxEvents)] /\ queue'[s] = Tail(q)
      /\ \A t \in Streams \ {s} : queue'[t] = queue[t]
  BY <1>1, <1>2, <1>3
<1>6. client[c].holds = 0
  BY <1>2 DEF PlaceInv, HoldsOnce
<1>7. g = [[client[c] EXCEPT !.at = "yield"] EXCEPT !.holds = n]
      /\ client' = [client EXCEPT ![c] = g]
  BY <1>1 DEF Take
<1> HIDE DEF g, n
<1>8. g \in ClientType /\ g.holds = n /\ g.at = "yield" /\ n # 0
  <2> DEFINE h == client[c]
             k == [h EXCEPT !.at = "yield"]
  <2>1. h \in ClientType /\ g = [k EXCEPT !.holds = n] /\ n \in 0..MaxEvents /\ n # 0
    BY <1>1, <1>3, <1>7
  <2> HIDE DEF h
  <2>2. k \in ClientType /\ k.at = "yield"
    BY <2>1 DEF ClientType
  <2> HIDE DEF k
  <2> QED BY <2>1, <2>2 DEF ClientType
<1>9. /\ client' \in [Clients -> ClientType] /\ client'[c] = g
      /\ \A d \in Clients \ {c} : client'[d] = client[d]
      /\ Held' = (Held \ {client[c].holds}) \cup ({g.holds} \ {0})
  BY <1>7, <1>8, ClientMoves
<1>10. Held' = Held \cup {n}
  BY <1>6, <1>8, <1>9 DEF Held
<1>11. QueuedOnce'
  <2>1. ASSUME NEW t \in Streams, NEW u \in Streams,
               NEW i \in DOMAIN queue'[t], NEW j \in DOMAIN queue'[u],
               queue'[t][i] = queue'[u][j]
        PROVE  t = u /\ i = j
    <3> DEFINE ii == IF t = s THEN i + 1 ELSE i
               jj == IF u = s THEN j + 1 ELSE j
    <3>0. \A v \in Streams : \A k \in DOMAIN queue'[v] :
            LET kk == IF v = s THEN k + 1 ELSE k IN
            kk \in DOMAIN queue[v] /\ queue[v][kk] = queue'[v][k] /\ k \in Int
      <4> TAKE v \in Streams
      <4> TAKE k \in DOMAIN queue'[v]
      <4> HIDE DEF s
      <4>1. CASE v = s
        <5>1. k \in DOMAIN Tail(q)
          BY <1>5, <4>1
        <5>2. k + 1 \in DOMAIN q /\ Tail(q)[k] = q[k + 1] /\ k \in Int
          BY <1>4, <5>1
        <5> QED BY <1>5, <4>1, <5>2
      <4>2. CASE v # s
        <5>1. queue'[v] = queue[v] /\ queue[v] \in Seq(1..MaxEvents)
          BY <1>1, <1>5, <4>2
        <5>2. k \in Int
          BY <5>1
        <5> QED BY <4>2, <5>1, <5>2
      <4> QED BY <4>1, <4>2
    <3>1. ii \in DOMAIN queue[t] /\ queue[t][ii] = queue'[t][i] /\ i \in Int
      BY <3>0
    <3>2. jj \in DOMAIN queue[u] /\ queue[u][jj] = queue'[u][j] /\ j \in Int
      BY <3>0
    <3>3. t = u /\ ii = jj
      <4> HIDE DEF ii, jj, s
      <4> QED BY <2>1, <3>1, <3>2 DEF PlaceInv, QueuedOnce
    <3> QED BY <3>1, <3>2, <3>3
  <2> QED BY <2>1 DEF QueuedOnce
<1>12. Queued' = Queued \ {n} /\ n \in Queued
  <2>1. \A i \in DOMAIN q : q[i] = n => i = 1
    BY <1>1, <1>3 DEF PlaceInv, QueuedOnce
  <2>2. ToSet(Tail(q)) = ToSet(q) \ {n}
    <3>1. \A i \in DOMAIN Tail(q) : Tail(q)[i] \in ToSet(q) \ {n}
      <4> TAKE i \in DOMAIN Tail(q)
      <4>1. i + 1 \in DOMAIN q /\ i + 1 # 1 /\ Tail(q)[i] = q[i + 1]
        BY <1>4
      <4> QED BY <2>1, <4>1 DEF ToSet
    <3>2. \A i \in DOMAIN q : q[i] # n => i - 1 \in DOMAIN Tail(q) /\ Tail(q)[i - 1] = q[i]
      <4> SUFFICES ASSUME NEW i \in DOMAIN q, q[i] # n
                   PROVE  i - 1 \in DOMAIN Tail(q) /\ Tail(q)[i - 1] = q[i]
        OBVIOUS
      <4>1. i # 1
        BY <1>3
      <4>2. i - 1 \in DOMAIN Tail(q) /\ (i - 1) + 1 = i
        BY <1>4, <4>1
      <4> QED BY <1>4, <4>2
    <3> QED BY <3>1, <3>2 DEF ToSet
  <2>3. \A t \in Streams \ {s} : n \notin ToSet(queue[t])
    BY <1>1, <1>3 DEF PlaceInv, QueuedOnce, ToSet
  <2>4. n \in ToSet(q)
    BY <1>3 DEF ToSet
  <2> HIDE DEF s
  <2> QED BY <1>1, <1>5, <2>2, <2>3, <2>4 DEF Queued
<1>13. n \notin Held
  BY <1>12 DEF PlaceInv, Apart
<1>14. HoldsOnce'
  <2>1. \A d \in Clients \ {c} : client[d].holds # n
    BY <1>8, <1>13 DEF Held
  <2> QED BY <1>8, <1>9, <2>1 DEF PlaceInv, HoldsOnce
<1>15. DashTypeOK'
  BY <1>2, <1>5, <1>9 DEF PlaceInv, DashTypeOK, ClientType
<1>16. Relayed' = Relayed
  BY <1>2 DEF Relayed
<1> QED BY <1>2, <1>10, <1>11, <1>12, <1>13, <1>14, <1>15, <1>16 DEF PlaceInv, Apart

\* The record a client holds is shown to it, or lost with it.
LEMMA YieldInv == ASSUME PlaceInv, NEW c \in Clients, Yield(c) PROVE PlaceInv'
<1> DEFINE n == client[c].holds
           g == client'[c]
<1>1. client \in [Clients -> ClientType] /\ client[c] \in ClientType
  BY DEF PlaceInv, DashTypeOK, ClientType
<1>2. client[c].at = "yield" /\ UNCHANGED <<records, consuming, queue, dropped>>
  BY DEF Yield
<1>3. g = [[client[c] EXCEPT !.at = "check"] EXCEPT !.holds = 0]
      /\ client' = [client EXCEPT ![c] = g]
  BY <1>1 DEF Yield
<1>4. n # 0 /\ n \in 1..MaxEvents /\ n \in Held
  BY <1>1, <1>2 DEF PlaceInv, HoldsOnce, ClientType, Held
<1> HIDE DEF g, n
<1>5. g \in ClientType /\ g.holds = 0 /\ g.at = "check"
  <2> DEFINE h == client[c]
             k == [h EXCEPT !.at = "check"]
  <2>1. h \in ClientType /\ g = [k EXCEPT !.holds = 0] /\ 0 \in 0..MaxEvents
    BY <1>1, <1>3, DashboardAssumption
  <2> HIDE DEF h
  <2>2. k \in ClientType /\ k.at = "check"
    BY <2>1 DEF ClientType
  <2> HIDE DEF k
  <2> QED BY <2>1, <2>2 DEF ClientType
<1>6. /\ client' \in [Clients -> ClientType] /\ client'[c] = g
      /\ \A d \in Clients \ {c} : client'[d] = client[d]
      /\ Held' = (Held \ {client[c].holds}) \cup ({g.holds} \ {0})
  BY <1>3, <1>5, ClientMoves
<1>7. Held' = Held \ {n}
  BY <1>5, <1>6 DEF n
<1>8. \/ shown' = shown \cup {n} /\ lost' = lost
      \/ shown' = shown /\ lost' = lost \cup {n}
  BY DEF Yield, n
<1>9. HoldsOnce'
  BY <1>5, <1>6 DEF PlaceInv, HoldsOnce
<1>10. DashTypeOK'
  <2>1. shown' \in SUBSET (1..MaxEvents) /\ lost' \in SUBSET (1..MaxEvents)
    BY <1>4, <1>8 DEF PlaceInv, DashTypeOK
  <2> QED BY <1>2, <1>6, <2>1 DEF PlaceInv, DashTypeOK, ClientType
<1>11. Relayed' = Relayed /\ Queued' = Queued
  BY <1>2 DEF Relayed, Queued
<1> QED BY <1>2, <1>4, <1>7, <1>8, <1>9, <1>10, <1>11 DEF PlaceInv, Apart, QueuedOnce

\* A new record goes to its queue, or finds it full.
LEMMA RelayInv == ASSUME PlaceInv, Relay PROVE PlaceInv'
<1> DEFINE n == Len(records) + 1
<1>1. /\ records \in Seq(Streams \cup {"bad"}) /\ queue \in [Streams -> Seq(1..MaxEvents)]
      /\ Len(records) \in Nat /\ DOMAIN records = 1..Len(records)
      /\ n \in 1..MaxEvents /\ UNCHANGED <<client, shown, lost>>
  <2>1. /\ records \in Seq(Streams \cup {"bad"}) /\ queue \in [Streams -> Seq(1..MaxEvents)]
        /\ Len(records) < MaxEvents
    BY DEF Relay, PlaceInv, DashTypeOK
  <2>2. Len(records) \in Nat /\ DOMAIN records = 1..Len(records)
    BY <2>1
  <2> QED BY <2>1, <2>2, DashboardAssumption DEF Relay
<1>2. PICK s \in Streams \cup {"bad"} :
        /\ records' = Append(records, s) /\ consuming' = (s # "bad")
        /\ IF s = "bad" THEN UNCHANGED <<queue, dropped>> ELSE Notify(s, n)
  BY DEF Relay
<1>3. /\ records' \in Seq(Streams \cup {"bad"}) /\ DOMAIN records' = 1..n
      /\ records'[n] = s /\ \A i \in 1..Len(records) : records'[i] = records[i]
  BY <1>1, <1>2, AppendProperties
<1>4. Relayed' = Relayed \cup ({n} \ {i \in {n} : s = "bad"}) /\ n \notin Relayed
  BY <1>1, <1>3 DEF Relayed
<1>5. Held' = Held /\ HoldsOnce' /\ consuming' \in BOOLEAN
  BY <1>1, <1>2 DEF Held, PlaceInv, HoldsOnce
<1>6. n \notin Queued /\ n \notin Held /\ n \notin shown /\ n \notin dropped /\ n \notin lost
  BY <1>4 DEF PlaceInv
<1> HIDE DEF n
<1>7. CASE s = "bad"
  <2>1. queue' = queue /\ dropped' = dropped /\ Relayed' = Relayed /\ Queued' = Queued
    BY <1>2, <1>4, <1>7 DEF Queued
  <2> QED BY <1>1, <1>3, <1>5, <2>1 DEF PlaceInv, DashTypeOK, QueuedOnce
<1>8. CASE s # "bad" /\ Len(queue[s]) < QueueSize
  <2> DEFINE q == queue[s]
  <2>1. s \in Streams /\ q \in Seq(1..MaxEvents) /\ Relayed' = Relayed \cup {n}
    BY <1>1, <1>4, <1>8
  <2>2. queue' = [queue EXCEPT ![s] = Append(q, n)] /\ dropped' = dropped
    BY <1>2, <1>8 DEF Notify
  <2>3. /\ Append(q, n) \in Seq(1..MaxEvents) /\ Len(q) \in Nat /\ DOMAIN q = 1..Len(q)
        /\ DOMAIN Append(q, n) = 1..(Len(q) + 1)
        /\ \A i \in 1..Len(q) : Append(q, n)[i] = q[i]
        /\ Append(q, n)[Len(q) + 1] = n
    BY <1>1, <2>1, AppendProperties
  <2>4. /\ queue' \in [Streams -> Seq(1..MaxEvents)] /\ queue'[s] = Append(q, n)
        /\ \A t \in Streams \ {s} : queue'[t] = queue[t]
    BY <1>1, <2>1, <2>2, <2>3
  <2>5. ToSet(Append(q, n)) = ToSet(q) \cup {n}
    BY <2>3 DEF ToSet
  <2>6. Queued' = Queued \cup {n}
    BY <2>1, <2>4, <2>5 DEF Queued
  <2>7. \A t \in Streams : \A i \in DOMAIN queue[t] : queue[t][i] # n
    BY <1>6 DEF Queued, ToSet
  <2>8. QueuedOnce'
    <3>1. ASSUME NEW t \in Streams, NEW u \in Streams,
                 NEW i \in DOMAIN queue'[t], NEW j \in DOMAIN queue'[u],
                 queue'[t][i] = queue'[u][j]
          PROVE  t = u /\ i = j
      <4>0. \A v \in Streams : \A k \in DOMAIN queue'[v] :
              \/ k \in DOMAIN queue[v] /\ queue'[v][k] = queue[v][k]
              \/ v = s /\ k = Len(q) + 1 /\ queue'[v][k] = n
        <5> TAKE v \in Streams
        <5> TAKE k \in DOMAIN queue'[v]
        <5>1. CASE v = s
          <6>1. k \in 1..(Len(q) + 1) /\ queue'[v][k] = Append(q, n)[k]
            BY <2>3, <2>4, <5>1
          <6>2. k = Len(q) + 1 \/ k \in 1..Len(q)
            BY <2>3, <6>1
          <6> QED BY <2>3, <5>1, <6>1, <6>2
        <5>2. CASE v # s
          BY <2>4, <5>2
        <5> QED BY <5>1, <5>2
      <4>1. \/ i \in DOMAIN queue[t] /\ queue'[t][i] = queue[t][i]
            \/ t = s /\ i = Len(q) + 1 /\ queue'[t][i] = n
        BY <4>0
      <4>2. \/ j \in DOMAIN queue[u] /\ queue'[u][j] = queue[u][j]
            \/ u = s /\ j = Len(q) + 1 /\ queue'[u][j] = n
        BY <4>0
      <4> HIDE DEF q
      <4> QED BY <2>7, <3>1, <4>1, <4>2 DEF PlaceInv, QueuedOnce
    <3> QED BY <3>1 DEF QueuedOnce
  <2>9. DashTypeOK'
    BY <1>1, <1>3, <1>5, <2>2, <2>4 DEF PlaceInv, DashTypeOK
  <2> QED BY <1>1, <1>5, <1>6, <2>1, <2>2, <2>6, <2>8, <2>9 DEF PlaceInv, Apart
<1>9. CASE s # "bad" /\ ~(Len(queue[s]) < QueueSize)
  <2>1. queue' = queue /\ dropped' = dropped \cup {n} /\ Relayed' = Relayed \cup {n}
    BY <1>2, <1>4, <1>9 DEF Notify
  <2>2. Queued' = Queued /\ QueuedOnce'
    BY <2>1 DEF Queued, QueuedOnce, PlaceInv
  <2>3. DashTypeOK'
    BY <1>1, <1>3, <1>5, <2>1 DEF PlaceInv, DashTypeOK
  <2> QED BY <1>1, <1>5, <1>6, <2>1, <2>2, <2>3 DEF PlaceInv, Apart
<1> QED BY <1>7, <1>8, <1>9

\* PlaceInv is inductive.
LEMMA PlaceInvStep == PlaceInv /\ [DashNext]_dashVars => PlaceInv'
<1> SUFFICES ASSUME PlaceInv, [DashNext]_dashVars PROVE PlaceInv'
  OBVIOUS
<1>1. CASE UNCHANGED dashVars
  BY <1>1 DEF dashVars, PlaceInv, DashTypeOK, HoldsOnce, QueuedOnce, Relayed, Queued, Held
<1>2. CASE DashNext
  BY <1>2, RelayInv, IdleClient, TakeInv, YieldInv DEF DashNext
<1> QED BY <1>1, <1>2

\* The size of a union of five sets that share nothing.
LEMMA FiveApart ==
  ASSUME NEW a, NEW b, NEW c, NEW d, NEW e, Apart(a, b, c, d, e),
         IsFiniteSet(a), IsFiniteSet(b), IsFiniteSet(c), IsFiniteSet(d), IsFiniteSet(e)
  PROVE  Cardinality(a \cup b \cup c \cup d \cup e) =
           Cardinality(a) + Cardinality(b) + Cardinality(c) + Cardinality(d) + Cardinality(e)
<1>1. /\ a \cap b = {} /\ (a \cup b) \cap c = {} /\ (a \cup b \cup c) \cap d = {}
      /\ (a \cup b \cup c \cup d) \cap e = {}
  BY DEF Apart
<1>2. IsFiniteSet(a \cup b) /\ Cardinality(a \cup b) = Cardinality(a) + Cardinality(b)
  BY <1>1, CountApart
<1>3. /\ IsFiniteSet(a \cup b \cup c)
      /\ Cardinality(a \cup b \cup c) = Cardinality(a \cup b) + Cardinality(c)
  BY <1>1, <1>2, CountApart
<1>4. /\ IsFiniteSet(a \cup b \cup c \cup d)
      /\ Cardinality(a \cup b \cup c \cup d) = Cardinality(a \cup b \cup c) + Cardinality(d)
  BY <1>1, <1>3, CountApart
<1>5. Cardinality(a \cup b \cup c \cup d \cup e) =
        Cardinality(a \cup b \cup c \cup d) + Cardinality(e)
  BY <1>1, <1>4, CountApart
<1> QED BY <1>2, <1>3, <1>4, <1>5

\* The places are disjoint and hold all records, so their sizes add up.
LEMMA PlaceInvImplies == PlaceInv => EachRecordInOnePlace
<1> SUFFICES ASSUME PlaceInv PROVE EachRecordInOnePlace
  OBVIOUS
<1>1. Relayed \subseteq 1..Len(records) /\ IsFiniteSet(1..Len(records))
  BY FS_Interval DEF PlaceInv, DashTypeOK, Relayed
<1>2. /\ IsFiniteSet(Queued) /\ IsFiniteSet(Held) /\ IsFiniteSet(shown) /\ IsFiniteSet(dropped)
      /\ IsFiniteSet(lost)
  <2>1. IsFiniteSet(Relayed)
    BY <1>1, FS_Subset
  <2> QED BY <2>1, FS_Subset DEF PlaceInv
<1>3. Cardinality(Relayed) = Cardinality(Queued) + Cardinality(Held) + Cardinality(shown)
                             + Cardinality(dropped) + Cardinality(lost)
  BY <1>2, FiveApart DEF PlaceInv
<1> DEFINE P == {c \in Clients : client[c].holds # 0}
           f == [n \in Held |-> CHOOSE c \in P : client[c].holds = n]
<1>4. Cardinality(P) = Cardinality(Held)
  <2>1. \A n \in Held : f[n] \in P /\ client[f[n]].holds = n
    BY DEF Held
  <2>2. \A c \in P : client[c].holds \in Held /\ f[client[c].holds] = c
    <3> TAKE c \in P
    <3>1. client[c].holds \in Held
      BY DEF Held
    <3>2. f[client[c].holds] \in P /\ client[f[client[c].holds]].holds = client[c].holds
      BY <2>1, <3>1
    <3> QED BY <3>1, <3>2 DEF PlaceInv, HoldsOnce
  <2>3. f \in Bijection(Held, P)
    <3> HIDE DEF P
    <3>1. f \in [Held -> P]
      BY <2>1
    <3> HIDE DEF f
    <3>2. \A m, n \in Held : f[m] = f[n] => m = n
      BY <2>1
    <3>3. \A c \in P : \E n \in Held : f[n] = c
      BY <2>2
    <3> QED BY <3>1, <3>2, <3>3 DEF Bijection, Injection, Surjection, IsInjective
  <2> QED BY <1>2, <2>3, FS_Bijection DEF ExistsBijection
<1> QED BY <1>3, <1>4 DEF EachRecordInOnePlace, PlaceInv
-----------------------------------------------------------------------------
\* The counters of the dashboard.  What may be left of an order of increments,
\* and what is left when the total is counted and c still is to be.
Rests ==
  Orders \cup {<<>>, <<"volume">>, <<"volume", "fraud">>,
               <<"volume", "blocked", "fraud">>, <<"fraud">>, <<"blocked", "fraud">>}
After ==
  [volume |-> {<<"volume">>, <<"volume", "fraud">>, <<"volume", "blocked", "fraud">>},
   fraud |-> {<<"volume", "fraud">>, <<"volume", "blocked", "fraud">>, <<"fraud">>,
              <<"blocked", "fraud">>},
   blocked |-> {<<"volume", "blocked", "fraud">>, <<"blocked", "fraud">>}]
Shown == {"volume", "fraud", "blocked"}

\* The replicas past the total that still have to count c.
Late(c) == {r \in Replicas : counting[r] \in After[c]}

\* The total is ahead of every other count, by the increments to come at least,
\* and what it covers is ahead of the volume, by the amounts to come.
Counted == Shown \ {"volume"}
AheadInv == \A c \in Counted : kpi[c] + Cardinality(Late(c)) <= kpi["total"]
Due == [r \in Late("volume") |-> due[r]]
OwedInv == \E f : SumsUp(Late("volume"), Due, f) /\ kpi["volume"] + f[Late("volume")] <= covered
ReadInv ==
  /\ Len(reading) <= 4
  /\ \A i \in 2..Len(reading) : i # 4 => reading[i] <= kpi["total"]
  /\ Len(reading) = 4 => reading[4] <= covered

TornInv ==
  /\ MetricsTypeOK /\ kpi \in [Counters -> Nat]
  /\ counting \in [Replicas -> Rests]
  /\ IsFiniteSet({r \in Replicas : counting[r] # <<>>})
  /\ AheadInv /\ OwedInv /\ ReadInv

\* Only replicas that are counting are late with a counter.
LEMMA LateFinite == ASSUME TornInv, NEW c \in Shown
                    PROVE  IsFiniteSet(Late(c)) /\ Cardinality(Late(c)) \in Nat
<1>1. Late(c) \subseteq {r \in Replicas : counting[r] # <<>>}
  BY DEF Late, After, Shown
<1> QED BY <1>1, FS_Subset, FS_CardinalityType DEF TornInv

\* An evaluation that has not counted the total is late for nothing.
LEMMA NoneLate ==
  ASSUME NEW o \in Orders \cup {<<>>}, NEW c \in Shown
  PROVE  o \in Rests /\ o \notin After[c]
<1>1. o \in Rests
  BY DEF Rests
<1>2. \A x \in After["volume"] \cup After["fraud"] \cup After["blocked"] :
        x # <<>> /\ x[1] # "total"
  BY DEF After
<1>3. o = <<>> \/ o[1] = "total"
  BY DEF Orders
<1>4. c \in {"volume", "fraud", "blocked"}
  BY DEF Shown
<1>5. o \notin After["volume"] /\ o \notin After["fraud"] /\ o \notin After["blocked"]
  BY <1>2, <1>3
<1> QED BY <1>1, <1>4, <1>5

\* Nothing was counted when the replicas start.
LEMMA TornInvInit == MetricsInit => TornInv
<1> SUFFICES ASSUME MetricsInit PROVE TornInv
  OBVIOUS
<1>1. kpi \in [Counters -> Nat] /\ kpi["total"] = 0 /\ \A c \in Shown : kpi[c] = 0
  BY DEF MetricsInit, Counters, Shown
<1>2. counting \in [Replicas -> Rests] /\ \A r \in Replicas : counting[r] = <<>>
  BY DEF MetricsInit, Rests
<1>3. counting \in [Replicas -> Seq(Counters)] /\ started \in [Replicas -> 0..MaxCounted]
  BY MetricsAssumption DEF MetricsInit
<1>4. IsFiniteSet({r \in Replicas : counting[r] # <<>>})
  <2>1. {r \in Replicas : counting[r] # <<>>} = {}
    BY <1>2
  <2> QED BY <2>1, FS_EmptySet
<1>5. AheadInv
  <2> SUFFICES ASSUME NEW c \in Shown PROVE kpi[c] + Cardinality(Late(c)) <= kpi["total"]
    BY DEF AheadInv, Counted
  <2>1. Late(c) = {}
    BY <1>2 DEF Late, After, Shown
  <2> QED BY <1>1, <2>1, FS_EmptySet
<1>6. reading = <<>> /\ failed = FALSE /\ covered = 0 /\ due \in [Replicas -> Amounts \cup {0}]
  BY DEF MetricsInit
<1>9. OwedInv
  <2>1. Late("volume") = {} /\ kpi["volume"] = 0
    <3>1. <<>> \notin After["volume"] /\ "volume" \in Shown
      BY DEF After, Shown
    <3> QED BY <1>1, <1>2, <3>1 DEF Late
  <2>2. Due \in [{} -> Int] /\ IsFiniteSet({})
    BY <2>1, FS_EmptySet DEF Due
  <2>3. PICK f : SumsUp({}, Due, f)
    BY <2>2, FoldExists, FoldValue
  <2>4. SumsUp(Late("volume"), Due, f) /\ f[Late("volume")] = 0
    BY <2>1, <2>3 DEF SumsUp
  <2> QED BY <1>6, <2>1, <2>4 DEF OwedInv
<1>7. ReadInv /\ reading \in Seq(Nat)
  BY <1>6 DEF ReadInv
<1>8. MetricsTypeOK
  BY <1>1, <1>3, <1>6, <1>7 DEF MetricsTypeOK
<1> QED BY <1>1, <1>2, <1>4, <1>5, <1>7, <1>8, <1>9 DEF TornInv

\* One increment: its counter is c, or leaves c to be counted as before, or is
\* the total, before which nothing of c is due.
LEMMA OneIncrement ==
  ASSUME NEW q \in Rests, q # <<>>
  PROVE  /\ Head(q) \in Counters /\ Tail(q) \in Rests
         /\ \A c \in Shown : 
              /\ Head(q) = "total" => q \notin After[c]
              /\ Head(q) = c => q \in After[c] /\ Tail(q) \notin After[c]
              /\ Head(q) \notin {"total", c} => (Tail(q) \in After[c] => q \in After[c])
<1> USE DEF Rests, Orders, After, Shown, Counters
<1>1. CASE q = <<"total", "volume">>
  BY <1>1
<1>2. CASE q = <<"total", "volume", "fraud">>
  BY <1>2
<1>3. CASE q = <<"total", "volume", "blocked", "fraud">>
  BY <1>3
<1>4. CASE q = <<"volume">>
  BY <1>4
<1>5. CASE q = <<"volume", "fraud">>
  BY <1>5
<1>6. CASE q = <<"volume", "blocked", "fraud">>
  BY <1>6
<1>7. CASE q = <<"fraud">>
  BY <1>7
<1>8. CASE q = <<"blocked", "fraud">>
  BY <1>8
<1> QED BY <1>1, <1>2, <1>3, <1>4, <1>5, <1>6, <1>7, <1>8

\* What a replica has left changes at that replica alone.
LEMMA LateAt ==
  ASSUME TornInv, NEW r \in Replicas, NEW q \in Rests, NEW c \in Shown,
         counting' = [counting EXCEPT ![r] = q]
  PROVE  /\ IsFiniteSet({p \in Replicas : counting'[p] # <<>>})
         /\ \E n \in Nat :
              /\ Cardinality(Late(c)) = n + (IF counting[r] \in After[c] THEN 1 ELSE 0)
              /\ Cardinality(Late(c)') = n + (IF q \in After[c] THEN 1 ELSE 0)
<1> DEFINE B == {p \in Replicas : counting[p] # <<>>}
           BB == {p \in Replicas : counting'[p] # <<>>}
           L == Late(c)
           LL == {p \in Replicas : counting'[p] \in After[c]}
<1>1. counting \in [Replicas -> Rests] /\ IsFiniteSet(B)
  BY DEF TornInv
<1>2. \A p \in Replicas : counting'[p] = IF p = r THEN q ELSE counting[p]
  BY <1>1
<1>3. IsFiniteSet(BB)
  <2>1. BB \subseteq B \cup {r}
    BY <1>2
  <2> QED BY <1>1, <2>1, FS_AddElement, FS_Subset
<1>4. IsFiniteSet(L) /\ IsFiniteSet(LL)
  <2>1. <<>> \notin After[c]
    BY DEF After, Shown
  <2>2. L \subseteq B /\ LL \subseteq BB
    BY <2>1 DEF Late
  <2> QED BY <1>1, <1>3, <2>2, FS_Subset
<1>5. L \ {r} = LL \ {r}
  BY <1>2 DEF Late
<1>6. (r \in L <=> counting[r] \in After[c]) /\ (r \in LL <=> q \in After[c])
  BY <1>2 DEF Late
<1>7. LL = Late(c)'
  BY DEF Late
<1> HIDE DEF L, LL
<1>8. \E n \in Nat : /\ Cardinality(L) = n + (IF r \in L THEN 1 ELSE 0)
                      /\ Cardinality(LL) = n + (IF r \in LL THEN 1 ELSE 0)
  BY <1>4, <1>5, CountAt
<1>9. \E n \in Nat : /\ Cardinality(L) = n + (IF counting[r] \in After[c] THEN 1 ELSE 0)
                      /\ Cardinality(LL) = n + (IF q \in After[c] THEN 1 ELSE 0)
  BY <1>6, <1>8
<1> QED BY <1>3, <1>7, <1>9 DEF L

\* The amount a replica counts is a number.
LEMMA DueNat == ASSUME TornInv PROVE \A r \in Replicas : due[r] \in Nat
<1>1. due \in [Replicas -> Amounts \cup {0}]
  BY DEF TornInv, MetricsTypeOK
<1>2. Amounts \cup {0} \subseteq Nat
  BY MetricsAssumption
<1> QED BY <1>1, <1>2

\* The amounts a set of replicas owes, before and after, one of them apart.
SumsApart(S, w, f, T, v, r) ==
  \E g, m, n :
    /\ m \in Nat /\ n \in Nat
    /\ SumsUp(T, v, g)
    /\ f[S] = m + (IF r \in S THEN w[r] ELSE 0)
    /\ g[T] = n /\ n <= m + (IF r \in T THEN v[r] ELSE 0)

\* They differ by what that one owes, and by what others stopped to owe.
LEMMA SumAt ==
  ASSUME NEW S, IsFiniteSet(S), NEW w \in [S -> Nat], NEW f, SumsUp(S, w, f),
         NEW T, IsFiniteSet(T), NEW v \in [T -> Nat], NEW r, T \ {r} \subseteq S,
         \A x \in T \ {r} : v[x] = w[x]
  PROVE  SumsApart(S, w, f, T, v, r)
<1>1. PICK g : SumsUp(T, v, g)
  BY FoldExists, FoldValue
<1> DEFINE R == T \ {r}
           u == [x \in R |-> v[x]]
           e == [s \in SUBSET R |-> g[s]]
<1>2. u \in [R -> Int] /\ \A x \in R : u[x] = w[x]
  OBVIOUS
<1>3. SumsUp(R, u, e)
  <2>1. e \in [SUBSET R -> Int] /\ e[{}] = 0
    BY <1>1 DEF SumsUp
  <2>2. ASSUME NEW s \in SUBSET R, NEW x \in s PROVE e[s] = u[x] + e[s \ {x}]
    <3>1. s \in SUBSET T /\ s \ {x} \in SUBSET R /\ x \in R
      OBVIOUS
    <3>2. g[s] = v[x] + g[s \ {x}]
      BY <1>1, <3>1 DEF SumsUp
    <3> QED BY <3>1, <3>2
  <2> QED BY <2>1, <2>2 DEF SumsUp
<1>4. R \in SUBSET S /\ w \in [S -> Int]
  OBVIOUS
<1>5. e[R] = f[R] /\ e[R] = g[R]
  <2> HIDE DEF R, u, e
  <2>1. e[R] = f[R]
    BY <1>2, <1>3, <1>4, SumsAgree
  <2> QED BY <2>1 DEF e
<1>6. S \ {r} \in SUBSET S /\ R \in SUBSET (S \ {r})
  BY <1>4
<1>7. f[R] <= f[S \ {r}] /\ f[{}] <= f[R]
  <2>1. {} \in SUBSET R
    OBVIOUS
  <2> QED BY <1>4, <1>6, <2>1, SumsOrder
<1>8. f[{}] = 0 /\ f[R] \in Int /\ f[S \ {r}] \in Int
  BY <1>4, <1>6 DEF SumsUp
<1>9. f[S] = f[S \ {r}] + (IF r \in S THEN w[r] ELSE 0)
  <2>1. CASE r \in S
    <3>1. f[S] = w[r] + f[S \ {r}] /\ w[r] \in Int
      BY <2>1 DEF SumsUp
    <3> QED BY <1>8, <2>1, <3>1
  <2>2. CASE r \notin S
    <3>1. f[S \ {r}] = f[S]
      <4>1. S \ {r} = S
        BY <2>2
      <4> QED BY <4>1
    <3> QED BY <1>8, <2>2, <3>1
  <2> QED BY <2>1, <2>2
<1>10. g[T] = g[R] + (IF r \in T THEN v[r] ELSE 0)
  <2>0. g[R] \in Int
    BY <1>5, <1>8
  <2>1. CASE r \in T
    <3>1. g[T] = v[r] + g[R] /\ v[r] \in Int
      BY <1>1, <2>1 DEF SumsUp
    <3> QED BY <2>0, <2>1, <3>1
  <2>2. CASE r \notin T
    <3>1. g[R] = g[T]
      <4>1. R = T
        BY <2>2
      <4> QED BY <4>1
    <3> QED BY <2>0, <2>2, <3>1
  <2> QED BY <2>1, <2>2
<1> DEFINE m == f[S \ {r}]
           o == g[R]
           b == IF r \in T THEN v[r] ELSE 0
<1>11. m \in Nat /\ o \in Nat /\ o <= m /\ b \in Nat
  BY <1>5, <1>7, <1>8
<1>12. g[T] = o + b /\ f[S] = m + (IF r \in S THEN w[r] ELSE 0)
  BY <1>9, <1>10
<1> HIDE DEF m, o, b
<1>13. o + b \in Nat /\ o + b <= m + b
  BY <1>11
<1> QED BY <1>1, <1>11, <1>12, <1>13 DEF b, SumsApart

\* What the volume and the debts come to before and after replica r has q left.
Settles(r, q) ==
  \E g, m, n :
    /\ m \in Nat /\ n \in Nat
    /\ SumsUp(Late("volume")', Due', g)
    /\ kpi["volume"] + (IF counting[r] \in After["volume"] THEN due[r] ELSE 0) + m <= covered
    /\ g[Late("volume")'] = n
    /\ n <= m + (IF q \in After["volume"] THEN due'[r] ELSE 0)

\* What is owed changes with what one replica has left.
LEMMA OwedAt ==
  ASSUME TornInv, NEW r \in Replicas, NEW q \in Rests,
         counting' = [counting EXCEPT ![r] = q],
         \A p \in Replicas : due'[p] \in Nat /\ (p # r => due'[p] = due[p])
  PROVE  Settles(r, q)
<1> DEFINE S == Late("volume")
           T == {p \in Replicas : counting'[p] \in After["volume"]}
           w == Due
           v == [p \in T |-> due'[p]]
<1>1. T = Late("volume")' /\ v = Due' /\ "volume" \in Shown
  BY DEF Late, Due, Shown
<1>2. \A p \in Replicas : counting'[p] = IF p = r THEN q ELSE counting[p]
  BY DEF TornInv
<1>3. IsFiniteSet(S) /\ IsFiniteSet(T)
  <2>1. IsFiniteSet(S)
    BY <1>1, LateFinite
  <2>2. T \subseteq S \cup {r}
    BY <1>2 DEF Late
  <2> QED BY <2>1, <2>2, FS_AddElement, FS_Subset
<1>4. w \in [S -> Nat] /\ v \in [T -> Nat]
  BY DueNat DEF Due, Late
<1>5. T \ {r} \subseteq S /\ \A x \in T \ {r} : v[x] = w[x]
  BY <1>2 DEF Due, Late
<1>6. PICK f : SumsUp(S, w, f) /\ kpi["volume"] + f[S] <= covered
  BY DEF TornInv, OwedInv
<1>7. /\ r \in S <=> counting[r] \in After["volume"]
      /\ r \in T <=> q \in After["volume"]
      /\ r \in S => w[r] = due[r]
      /\ r \in T => v[r] = due'[r]
  BY <1>2 DEF Due, Late
<1> HIDE DEF S, T, w, v
<1>11. SumsApart(S, w, f, T, v, r)
  BY <1>3, <1>4, <1>5, <1>6, SumAt
<1>8. PICK g, m, n :
        /\ m \in Nat /\ n \in Nat
        /\ SumsUp(T, v, g)
        /\ f[S] = m + (IF r \in S THEN w[r] ELSE 0)
        /\ g[T] = n /\ n <= m + (IF r \in T THEN v[r] ELSE 0)
  BY <1>11 DEF SumsApart
<1>9. n <= m + (IF q \in After["volume"] THEN due'[r] ELSE 0)
  BY <1>7, <1>8
<1>10. kpi["volume"] + (IF counting[r] \in After["volume"] THEN due[r] ELSE 0) + m <= covered
  <2> DEFINE d == IF counting[r] \in After["volume"] THEN due[r] ELSE 0
  <2>1. d \in Nat /\ f[S] = m + d
    BY <1>7, <1>8, DueNat
  <2>2. kpi["volume"] \in Nat /\ covered \in Nat
    BY DEF TornInv, MetricsTypeOK, Counters
  <2> HIDE DEF d
  <2>3. kpi["volume"] + d + m <= covered
    BY <1>6, <1>8, <2>1, <2>2
  <2> QED BY <2>3 DEF d
<1> QED BY <1>1, <1>8, <1>9, <1>10 DEF Settles

\* An increment keeps the total ahead of the other counters.
LEMMA CountTornInv ==
  ASSUME TornInv, NEW r \in Replicas, Count(r)
  PROVE  /\ AheadInv' /\ kpi' \in [Counters -> Nat] /\ kpi'["total"] >= kpi["total"]
         /\ OwedInv' /\ covered' \in Nat /\ covered' >= covered
<1> DEFINE q == counting[r]
           h == Head(q)
           a == due[r]
           k == IF h = "volume" THEN a ELSE 1
<1>1. /\ q \in Rests /\ q # <<>> /\ kpi \in [Counters -> Nat]
      /\ kpi' = [kpi EXCEPT ![h] = @ + k] /\ counting' = [counting EXCEPT ![r] = Tail(q)]
      /\ covered' = (IF h = "total" THEN covered + a ELSE covered) /\ due' = due
  BY DEF TornInv, Count, Increment
<1>0. a \in Nat /\ covered \in Nat
  BY DueNat DEF TornInv, MetricsTypeOK
<1>2. /\ h \in Counters /\ Tail(q) \in Rests
      /\ \A c \in Shown : 
           /\ h = "total" => q \notin After[c]
           /\ h = c => q \in After[c] /\ Tail(q) \notin After[c]
           /\ h \notin {"total", c} => (Tail(q) \in After[c] => q \in After[c])
  BY <1>1, OneIncrement
<1>10. k \in Nat /\ (h # "volume" => k = 1) /\ (h = "volume" => k = a)
  BY <1>0
<1> HIDE DEF h, a, k
<1>3. kpi' \in [Counters -> Nat]
  BY <1>1, <1>2, <1>10
<1>4. "total" \in Counters /\ \A c \in Shown : c \in Counters /\ c # "total"
  BY DEF Shown, Counters
<1>5. kpi'["total"] = kpi["total"] + (IF h = "total" THEN 1 ELSE 0)
  BY <1>1, <1>2, <1>4, <1>10
<1>6. ASSUME NEW c \in Counted
      PROVE  kpi'[c] + Cardinality(Late(c)') <= kpi'["total"]
  <2>0. c \in Shown /\ c # "volume"
    BY DEF Counted
  <2>1. PICK n \in Nat :
          /\ Cardinality(Late(c)) = n + (IF q \in After[c] THEN 1 ELSE 0)
          /\ Cardinality(Late(c)') = n + (IF Tail(q) \in After[c] THEN 1 ELSE 0)
    BY <1>1, <1>2, <2>0, LateAt
  <2>2. /\ kpi'[c] = kpi[c] + (IF h = c THEN 1 ELSE 0)
        /\ kpi[c] \in Nat /\ kpi["total"] \in Nat
    BY <1>1, <1>2, <1>4, <1>10, <2>0
  <2>3. kpi[c] + Cardinality(Late(c)) <= kpi["total"]
    BY DEF TornInv, AheadInv
  <2> HIDE DEF q
  <2>4. CASE h = "total"
    <3>1. h # c
      BY <1>4, <2>0, <2>4
    <3>2. kpi[c] + n <= kpi["total"]
      BY <1>2, <2>0, <2>1, <2>3, <2>4
    <3>3. Cardinality(Late(c)') \in {n, n + 1}
      BY <2>1
    <3> QED BY <1>5, <2>2, <2>4, <3>1, <3>2, <3>3
  <2>5. CASE h = c
    <3>1. h # "total" /\ q \in After[c] /\ Tail(q) \notin After[c]
      BY <1>2, <1>4, <2>0, <2>5
    <3>2. /\ Cardinality(Late(c)) = n + 1 /\ Cardinality(Late(c)') = n
          /\ kpi'["total"] = kpi["total"] /\ kpi'[c] = kpi[c] + 1
      BY <1>5, <2>1, <2>2, <2>5, <3>1
    <3> QED BY <2>2, <2>3, <3>2
  <2>6. CASE h \notin {"total", c}
    <3>1. Tail(q) \in After[c] => q \in After[c]
      BY <1>2, <2>0, <2>6
    <3>2. /\ Cardinality(Late(c)) \in Nat /\ Cardinality(Late(c)') \in Nat
          /\ Cardinality(Late(c)') <= Cardinality(Late(c))
      BY <2>1, <3>1
    <3>3. kpi'["total"] = kpi["total"] /\ kpi'[c] = kpi[c]
      BY <1>5, <2>2, <2>6
    <3> QED BY <2>2, <2>3, <3>2, <3>3
  <2> QED BY <2>4, <2>5, <2>6
<1>7. kpi["total"] \in Nat /\ "volume" \in Shown
  BY <1>1, <1>4 DEF Shown
<1>8. covered' \in Nat /\ covered' >= covered
  BY <1>0, <1>1
<1>9. OwedInv'
  <2>1. PICK g, m, n :
          /\ m \in Nat /\ n \in Nat
          /\ SumsUp(Late("volume")', Due', g)
          /\ kpi["volume"] + (IF q \in After["volume"] THEN a ELSE 0) + m <= covered
          /\ g[Late("volume")'] = n
          /\ n <= m + (IF Tail(q) \in After["volume"] THEN a ELSE 0)
    <3>1. \A p \in Replicas : due'[p] \in Nat /\ (p # r => due'[p] = due[p])
      BY <1>1, DueNat
    <3>2. Settles(r, Tail(q)) /\ due'[r] = a
      BY <1>1, <1>2, <3>1, OwedAt DEF a
    <3> QED BY <3>2 DEF Settles, a
  <2>2. /\ kpi["volume"] \in Nat
        /\ kpi'["volume"] = kpi["volume"] + (IF h = "volume" THEN a ELSE 0)
    BY <1>1, <1>4, <1>7, <1>10
  <2> HIDE DEF q
  <2>3. kpi'["volume"] + n <= covered'
    <3>1. CASE h = "total"
      <4>1. q \notin After["volume"] /\ h # "volume" /\ covered' = covered + a
        BY <1>1, <1>2, <1>7, <3>1
      <4> QED BY <1>0, <2>1, <2>2, <4>1
    <3>2. CASE h = "volume"
      <4>1. q \in After["volume"] /\ Tail(q) \notin After["volume"] /\ covered' = covered
        BY <1>1, <1>2, <1>7, <3>2
      <4> QED BY <1>0, <2>1, <2>2, <3>2, <4>1
    <3>3. CASE h \notin {"total", "volume"}
      <4>1. (Tail(q) \in After["volume"] => q \in After["volume"]) /\ covered' = covered
        BY <1>1, <1>2, <1>7, <3>3
      <4> QED BY <1>0, <2>1, <2>2, <3>3, <4>1
    <3> QED BY <3>1, <3>2, <3>3
  <2> QED BY <2>1, <2>3 DEF OwedInv
<1> QED BY <1>3, <1>5, <1>6, <1>7, <1>8, <1>9 DEF AheadInv

\* What a replica does to the counters.
LEMMA ReplicaTornInv ==
  ASSUME TornInv, NEW r \in Replicas, StartCounting(r) \/ Count(r) \/ Abandon(r)
  PROVE  TornInv'
<1>1. PICK q \in Rests : counting' = [counting EXCEPT ![r] = q]
  <2>1. CASE StartCounting(r)
    BY <2>1 DEF StartCounting, Rests
  <2>2. CASE Abandon(r)
    BY <2>2 DEF Abandon, Rests
  <2>3. CASE Count(r)
    BY <2>3, OneIncrement DEF Count, TornInv
  <2> QED BY <2>1, <2>2, <2>3
<1>2. counting' \in [Replicas -> Rests]
  BY <1>1 DEF TornInv
<1>3. IsFiniteSet({p \in Replicas : counting'[p] # <<>>})
  <2>1. "fraud" \in Shown
    BY DEF Shown
  <2> QED BY <1>1, <2>1, LateAt
<1>4. /\ AheadInv' /\ kpi' \in [Counters -> Nat] /\ kpi'["total"] >= kpi["total"]
      /\ OwedInv' /\ covered' \in Nat /\ covered' >= covered
  <2>1. CASE StartCounting(r) \/ Abandon(r)
    <3>1. /\ kpi' = kpi /\ kpi \in [Counters -> Nat] /\ kpi["total"] \in Nat
          /\ covered' = covered /\ covered \in Nat
      BY <2>1 DEF StartCounting, Abandon, TornInv, MetricsTypeOK, Counters
    <3>2. PICK o \in Orders \cup {<<>>} : counting' = [counting EXCEPT ![r] = o]
      BY <2>1 DEF StartCounting, Abandon
    <3>3. ASSUME NEW c \in Counted
          PROVE  kpi'[c] + Cardinality(Late(c)') <= kpi'["total"]
      <4>0. c \in Shown
        BY DEF Counted
      <4>1. o \in Rests /\ o \notin After[c]
        BY <4>0, NoneLate
      <4>2. PICK n \in Nat :
              /\ Cardinality(Late(c)) = n + (IF counting[r] \in After[c] THEN 1 ELSE 0)
              /\ Cardinality(Late(c)') = n + (IF o \in After[c] THEN 1 ELSE 0)
        BY <3>2, <4>0, <4>1, LateAt
      <4>3. kpi[c] + Cardinality(Late(c)) <= kpi["total"] /\ kpi[c] \in Nat
        BY <3>1, <4>0 DEF TornInv, AheadInv, Shown, Counters
      <4>4. /\ Cardinality(Late(c)) \in Nat /\ Cardinality(Late(c)') \in Nat
            /\ Cardinality(Late(c)') <= Cardinality(Late(c))
        BY <4>1, <4>2
      <4> QED BY <3>1, <4>3, <4>4
    <3>4. OwedInv'
      <4>1. o \in Rests /\ o \notin After["volume"]
        BY NoneLate DEF Shown
      <4>2. \A p \in Replicas : due'[p] \in Nat /\ (p # r => due'[p] = due[p])
        <5>1. due \in [Replicas -> Amounts \cup {0}] /\ Amounts \cup {0} \subseteq Nat
          BY MetricsAssumption DEF TornInv, MetricsTypeOK
        <5> QED BY <2>1, <5>1 DEF StartCounting, Abandon
      <4>3. PICK g, m, n :
              /\ m \in Nat /\ n \in Nat
              /\ SumsUp(Late("volume")', Due', g)
              /\ kpi["volume"] + (IF counting[r] \in After["volume"] THEN due[r] ELSE 0) + m
                   <= covered
              /\ g[Late("volume")'] = n
              /\ n <= m + (IF o \in After["volume"] THEN due'[r] ELSE 0)
        <5>1. Settles(r, o)
          BY <3>2, <4>1, <4>2, OwedAt
        <5> QED BY <5>1 DEF Settles
      <4>4. n <= m
        BY <4>1, <4>3
      <4>5. due[r] \in Nat /\ kpi["volume"] \in Nat
        BY <3>1, DueNat DEF Counters
      <4>6. kpi["volume"] + m <= covered
        BY <3>1, <4>3, <4>5
      <4>7. kpi'["volume"] + g[Late("volume")'] <= covered'
        BY <3>1, <4>3, <4>4, <4>5, <4>6
      <4> QED BY <4>3, <4>7 DEF OwedInv
    <3> QED BY <3>1, <3>3, <3>4 DEF AheadInv
  <2> QED BY <2>1, CountTornInv
<1>5. reading' = reading /\ failed' = failed /\ started' \in [Replicas -> 0..MaxCounted]
  <2>1. started \in [Replicas -> 0..MaxCounted]
    BY DEF TornInv, MetricsTypeOK
  <2>2. CASE StartCounting(r)
    <3>1. started[r] \in 0..MaxCounted /\ started[r] < MaxCounted
      BY <2>1, <2>2 DEF StartCounting
    <3>2. started[r] + 1 \in 0..MaxCounted
      BY <3>1, MetricsAssumption
    <3> QED BY <2>1, <2>2, <3>2 DEF StartCounting
  <2>3. CASE Count(r) \/ Abandon(r)
    BY <2>1, <2>3 DEF Count, Abandon
  <2> QED BY <2>2, <2>3
<1>9. due' \in [Replicas -> Amounts \cup {0}]
  BY DEF StartCounting, Count, Abandon, TornInv, MetricsTypeOK
<1>6. ReadInv'
  <2>1. /\ \A i \in 1..Len(reading) : reading[i] \in Nat
        /\ kpi["total"] \in Nat /\ covered \in Nat
    BY DEF TornInv, MetricsTypeOK, Counters
  <2>2. kpi'["total"] \in Nat
    BY <1>4 DEF Counters
  <2> QED BY <1>4, <1>5, <2>1, <2>2 DEF TornInv, ReadInv
<1>7. counting' \in [Replicas -> Seq(Counters)]
  <2>1. ASSUME NEW p \in Rests PROVE p \in Seq(Counters)
    <3> USE DEF Counters
    <3>1. /\ <<>> \in Seq(Counters) /\ <<"volume">> \in Seq(Counters)
          /\ <<"fraud">> \in Seq(Counters)
      OBVIOUS
    <3>2. /\ <<"volume", "fraud">> \in Seq(Counters)
          /\ <<"blocked", "fraud">> \in Seq(Counters)
          /\ <<"total", "volume">> \in Seq(Counters)
      OBVIOUS
    <3>3. /\ <<"volume", "blocked", "fraud">> \in Seq(Counters)
          /\ <<"total", "volume", "fraud">> \in Seq(Counters)
      OBVIOUS
    <3>4. <<"total", "volume", "blocked", "fraud">> \in Seq(Counters)
      OBVIOUS
    <3> QED BY <3>1, <3>2, <3>3, <3>4 DEF Rests, Orders
  <2> QED BY <1>2, <2>1
<1>8. MetricsTypeOK'
  BY <1>4, <1>5, <1>7, <1>9 DEF TornInv, MetricsTypeOK
<1> QED BY <1>2, <1>3, <1>4, <1>6, <1>8 DEF TornInv

\* The volume is covered, whatever is still owed.
LEMMA VolumeCovered == ASSUME TornInv PROVE kpi["volume"] <= covered
<1>1. IsFiniteSet(Late("volume")) /\ Due \in [Late("volume") -> Nat]
  <2>1. "volume" \in Shown
    BY DEF Shown
  <2> QED BY <2>1, LateFinite, DueNat DEF Due, Late
<1>2. PICK f : SumsUp(Late("volume"), Due, f) /\ kpi["volume"] + f[Late("volume")] <= covered
  BY DEF TornInv, OwedInv
<1>3. f[{}] <= f[Late("volume")]
  <2> DEFINE S == Late("volume")
  <2>1. S \in SUBSET S /\ {} \in SUBSET S
    OBVIOUS
  <2> HIDE DEF S
  <2> QED BY <1>1, <1>2, <2>1, SumsOrder DEF S
<1>4. f[{}] = 0 /\ f[Late("volume")] \in Int
  BY <1>2 DEF SumsUp
<1>5. kpi["volume"] \in Nat /\ covered \in Nat
  BY DEF TornInv, MetricsTypeOK, Counters
<1> QED BY <1>2, <1>3, <1>4, <1>5

\* TornInv is inductive.
LEMMA TornInvStep == TornInv /\ [MetricsNext]_metricsVars => TornInv'
<1> SUFFICES ASSUME TornInv, [MetricsNext]_metricsVars PROVE TornInv'
  OBVIOUS
<1>1. CASE \E r \in Replicas : StartCounting(r) \/ Count(r) \/ Abandon(r)
  BY <1>1, ReplicaTornInv
<1>2. CASE Ask \/ Get \/ GetRaises \/ UNCHANGED metricsVars
  <2>1. UNCHANGED <<kpi, counting, due, started, covered>>
    BY <1>2 DEF Ask, Get, GetRaises, metricsVars
  <2>2. AheadInv' /\ OwedInv'
    <3>1. \A c \in Shown : Late(c)' = Late(c)
      BY <2>1 DEF Late
    <3>2. Late("volume")' = Late("volume") /\ Due' = Due
      BY <2>1 DEF Late, Due
    <3>3. AheadInv'
      BY <2>1, <3>1 DEF TornInv, AheadInv, Counted
    <3> QED BY <2>1, <3>2, <3>3 DEF TornInv, OwedInv
  <2>3. ReadInv' /\ reading' \in Seq(Nat) /\ failed' \in BOOLEAN
    <3>1. reading \in Seq(Nat) /\ failed \in BOOLEAN /\ ReadInv
      BY DEF TornInv, MetricsTypeOK
    <3>2. CASE GetRaises \/ UNCHANGED metricsVars
      BY <2>1, <3>1, <3>2 DEF GetRaises, metricsVars, ReadInv
    <3>3. CASE Ask
      <4>1. reading' = <<>> /\ failed' = FALSE
        BY <3>3 DEF Ask
      <4>2. Len(reading') = 0 /\ reading' \in Seq(Nat)
        BY <4>1
      <4>3. 2..Len(reading') = {}
        BY <4>2
      <4>4. ReadInv'
        BY <4>2, <4>3 DEF ReadInv
      <4>5. failed' \in BOOLEAN
        BY <4>1
      <4> QED BY <4>2, <4>4, <4>5
    <3>4. CASE Get
      <4> DEFINE n == Len(reading)
                 g == Gets[n + 1]
      <4>1. n \in Nat /\ n < 4 /\ reading' = Append(reading, kpi[g]) /\ failed' = failed
        BY <3>1, <3>4 DEF Get, Gets
      <4>2. /\ g \in Counters /\ (n > 0 => g \in Shown)
            /\ n \in {1, 2} => g \in Counted
            /\ n = 3 => g = "volume"
        <5>1. n \in {0, 1, 2, 3}
          <6>1. n \in Nat /\ n < 4
            BY <4>1
          <6> HIDE DEF n
          <6> QED BY <6>1
        <5>2. /\ Gets[1] = "total" /\ Gets[2] = "fraud" /\ Gets[3] = "blocked"
              /\ Gets[4] = "volume"
          BY DEF Gets
        <5> HIDE DEF n
        <5> QED BY <5>1, <5>2 DEF Counters, Shown, Counted
      <4>3. kpi[g] \in Nat /\ kpi["total"] \in Nat /\ covered \in Nat
        BY <4>2 DEF TornInv, MetricsTypeOK, Counters
      <4>4. n \in {1, 2} => kpi[g] <= kpi["total"]
        BY <4>2, <4>3, LateFinite DEF TornInv, AheadInv, Counted
      <4>7. kpi["volume"] <= covered
        BY VolumeCovered
      <4> HIDE DEF g
      <4>5. Len(reading') = n + 1 /\ reading' \in Seq(Nat)
        BY <3>1, <4>1, <4>3
      <4>6. ASSUME NEW i \in 2..Len(reading'), i # 4 PROVE reading'[i] <= kpi'["total"]
        <5>1. CASE i \in 2..n
          BY <2>1, <3>1, <4>1, <4>3, <4>6, <5>1 DEF ReadInv
        <5>2. CASE i = n + 1
          <6>1. reading'[i] = kpi[g] /\ n \in {1, 2}
            <7>1. n \in {1, 2}
              <8>1. n \in Nat /\ n < 4 /\ i = n + 1 /\ i # 4 /\ i >= 2
                BY <4>1, <4>5, <4>6, <5>2
              <8> HIDE DEF n
              <8> QED BY <8>1
            <7>2. Append(reading, kpi[g])[n + 1] = kpi[g]
              BY <3>1, <4>1, <4>3
            <7> QED BY <4>1, <5>2, <7>1, <7>2
          <6> QED BY <2>1, <4>4, <6>1
        <5> QED BY <4>1, <4>5, <5>1, <5>2
      <4>8. Len(reading') = 4 => reading'[4] <= covered'
        <5> SUFFICES ASSUME Len(reading') = 4 PROVE reading'[4] <= covered'
          OBVIOUS
        <5>1. n = 3 /\ g = "volume"
          <6>1. n \in Nat /\ n + 1 = 4
            BY <4>1, <4>5
          <6>2. n = 3
            <7> HIDE DEF n
            <7> QED BY <6>1
          <6> QED BY <4>2, <6>2
        <5>2. Append(reading, kpi[g])[n + 1] = kpi[g]
          BY <3>1, <4>1, <4>3
        <5>3. reading'[4] = kpi["volume"]
          BY <4>1, <5>1, <5>2
        <5> QED BY <2>1, <4>7, <5>3
      <4>9. ReadInv'
        BY <4>1, <4>5, <4>6, <4>8 DEF ReadInv
      <4> QED BY <3>1, <4>1, <4>5, <4>9
    <3> QED BY <1>2, <3>2, <3>3, <3>4
  <2> QED BY <2>1, <2>2, <2>3 DEF TornInv, MetricsTypeOK
<1> QED BY <1>1, <1>2 DEF MetricsNext

\* A value that was read before is covered by what was counted since.
LEMMA TornInvImplies == TornInv => TornReadBounded
<1> SUFFICES ASSUME TornInv, Len(reading) = 4
             PROVE  /\ reading[2] <= kpi["total"] /\ reading[3] <= kpi["total"]
                    /\ reading[4] <= covered
  BY DEF TornReadBounded, Gets
<1> QED BY DEF TornInv, ReadInv
-----------------------------------------------------------------------------
\* The middleware.  The layers by number, and the lines about one request.
RouteAt == IF stack = "gateway" THEN 2 ELSE 4
CorrelateAt == IF stack = "gateway" THEN 1 ELSE 2
Lines(r) == {l \in log : l.by = r}

Statuses == {0, 200, 400, 401, 403, 404, 409, 429, 500, 503, 504}
Levels == {"debug", "info", "warning", "error"}
SentIds == {Id("client", g) : g \in Given} \cup {Absent}
Request(r) ==
  [path : {"api", "probe"}, sent : SentIds, at : 0..RouteAt,
   dir : {"new", "in", "out", "done"}, id : Ids \cup {Unknown}, said : 0..MaxLines,
   raised : BOOLEAN, status : Statuses, header : Ids \cup {Absent},
   body : Ids \cup {Absent, MintedBody(r)}]

\* Past the correlation middleware, the id is in the state and in the context.
Past(r) ==
  \/ http[r].dir \in {"out", "done"}
  \/ http[r].dir = "in" /\ http[r].at > CorrelateAt

\* On its way out: what the layers already passed have done.
LeavingInv(r) ==
  /\ http[r].dir \in {"new", "in"} =>
       ~http[r].raised /\ http[r].status = 0 /\ http[r].header = Absent
  /\ http[r].raised => http[r].status = 0 /\ http[r].header = Absent
  /\ http[r].dir = "out" =>
       /\ http[r].at < CorrelateAt /\ ~http[r].raised => http[r].header = IdOf(r)
       /\ stack = "platform" /\ http[r].status >= 500 =>
            http[r].body = MintedBody(r)
       /\ stack = "platform" /\ http[r].at < 3 /\ ~http[r].raised =>
            /\ http[r].status >= 500 =>
                 http[r].path = "probe" \/ \E l \in Lines(r) : l.level = "error"
            /\ http[r].path = "api" => \E l \in Lines(r) : l.event = "completed"
  /\ http[r].dir = "done" =>
       /\ http[r].raised => stack = "gateway"
       /\ ~http[r].raised => http[r].header = IdOf(r)
       /\ stack = "platform" /\ http[r].status >= 500 =>
            \/ http[r].path = "probe" /\ http[r].body = MintedBody(r)
            \/ \E l \in Lines(r) : l.level = "error"
       /\ http[r].path = "api" /\ ~http[r].raised =>
            \E l \in Lines(r) : l.event \in {"completed", "unhandled"}

LinesInv(r) ==
  /\ \A l \in Lines(r) : l.id = IdOf(r) /\ l.level \in Levels
  /\ http[r].dir = "new" => Lines(r) = {}
  /\ \A l \in Lines(r) :
       /\ l.event = "completed" => http[r].dir \in {"out", "done"} 
       /\ l.event = "unhandled" => http[r].dir = "done"
       /\ stack = "platform" /\ http[r].raised => l.event # "completed"
  /\ stack = "platform" =>
       ~\E l, m \in Lines(r) : l.event = "completed" /\ m.event = "unhandled"

RequestInv(r) ==
  /\ http[r] \in Request(r) /\ bound[r] \in Ids \cup {Absent}
  /\ http[r].dir = "in" => http[r].at >= 1
  /\ http[r].dir = "out" => http[r].at \in 1..(RouteAt - 1)
  /\ Past(r) => http[r].id = IdOf(r) /\ bound[r] = IdOf(r)
  /\ LeavingInv(r) /\ LinesInv(r)

StackInv ==
  /\ stack \in {"platform", "gateway"}
  /\ http = [r \in HttpRequests |-> http[r]] /\ bound = [r \in HttpRequests |-> bound[r]]
  /\ \A l \in log : l.by \in HttpRequests
  /\ \A r \in HttpRequests : RequestInv(r)

\* The statuses of an answer, by what gives them.
LEMMA StatusesAre == {0, 200} \cup PlatformStatuses = Statuses
BY DEF PlatformStatuses, ClientErrors, ServerErrors, Statuses

\* No line was written when the requests arrive.
LEMMA StackInvInit == HttpInit => StackInv
<1> SUFFICES ASSUME HttpInit PROVE StackInv
  OBVIOUS
<1>1. ASSUME NEW r \in HttpRequests PROVE RequestInv(r)
  <2>1. http[r] = Fresh /\ bound[r] = Absent /\ Lines(r) = {}
    BY DEF HttpInit, Lines
  <2>2. Fresh \in Request(r)
    BY HttpAssumption DEF Fresh, Request, SentIds, Statuses, RouteAt
  <2> QED BY <2>1, <2>2 DEF RequestInv, Past, LeavingInv, LinesInv, Fresh
<1> QED BY <1>1 DEF HttpInit, StackInv

\* Where a request stands, by number.
LEMMA AtMeans ==
  ASSUME StackInv, NEW r \in HttpRequests, NEW d
  PROVE  /\ At(r, "errors", d) <=> stack = "platform" /\ http[r].dir = d /\ http[r].at = 1
         /\ At(r, "correlate", d) <=> http[r].dir = d /\ http[r].at = CorrelateAt
         /\ At(r, "log", d) <=> stack = "platform" /\ http[r].dir = d /\ http[r].at = 3
         /\ InRoute(r) <=> http[r].dir = "in" /\ http[r].at = RouteAt
<1>1. http[r].at \in 0..RouteAt /\ stack \in {"platform", "gateway"}
  BY DEF StackInv, RequestInv, Request
<1>2. CASE stack = "gateway"
  <2>1. Layers = <<"correlate">> /\ DOMAIN Layers = {1} /\ Len(Layers) = 1
    BY <1>2 DEF Layers
  <2> QED BY <1>1, <1>2, <2>1 DEF At, InRoute, RouteAt, CorrelateAt
<1>3. CASE stack = "platform"
  <2>1. Layers = <<"errors", "correlate", "log">> /\ DOMAIN Layers = {1, 2, 3} /\ Len(Layers) = 3
    BY <1>3 DEF Layers
  <2> QED BY <1>1, <1>3, <2>1 DEF At, InRoute, RouteAt, CorrelateAt
<1> QED BY <1>1, <1>2, <1>3

\* The id of a request is what its client sent, or one that was minted for it.
LEMMA IdsAre ==
  ASSUME StackInv, NEW r \in HttpRequests
  PROVE  IdOf(r) \in Ids /\ IdOf(r) # Absent /\ Absent \notin Ids /\ Minted(r) \in Ids
<1>1. http[r].sent \in SentIds
  BY DEF StackInv, RequestInv, Request
<1>2. Absent \notin Ids /\ Minted(r) \in Ids
  BY DEF Absent, Id, Ids, Minted
<1>3. IdOf(r) \in Ids
  BY <1>1, <1>2 DEF IdOf, SentIds, Ids
<1> QED BY <1>2, <1>3

\* A step of r leaves the other requests, their contexts and their lines alone.
Step(r) ==
  \/ Arrive(r) \/ PassIn(r) \/ Correlate(r)
  \/ RouteLogs(r) \/ RouteAnswers(r) \/ RouteRaisesPlatform(r) \/ RouteRaises(r)
  \/ LogOut(r) \/ CorrelateOut(r) \/ ErrorsOut(r)

\* A step writes lines of its own request only, and changes its own context only.
LEMMA StepLines ==
  ASSUME StackInv, NEW r \in HttpRequests, Step(r)
  PROVE  /\ log \subseteq log' /\ \A l \in log' \ log : l.by = r
         /\ stack' = stack
         /\ \E h : http' = [http EXCEPT ![r] = h]
         /\ bound' = bound \/ \E i : bound' = [bound EXCEPT ![r] = i]
<1>0. \A e, v, i : Line(r, e, v, i).by = r
  BY DEF Line
<1>1. /\ log \subseteq log' /\ \A l \in log' \ log : l.by = r
      /\ stack' = stack
  <2>1. CASE Correlate(r) \/ CorrelateOut(r)
    BY <1>0, <2>1 DEF Correlate, CorrelateOut, Started, Completed
  <2>2. CASE RouteLogs(r) \/ LogOut(r) \/ ErrorsOut(r)
    BY <1>0, <2>2 DEF RouteLogs, LogOut, ErrorsOut
  <2>3. CASE Arrive(r) \/ PassIn(r) \/ RouteAnswers(r) \/ RouteRaisesPlatform(r)
             \/ RouteRaises(r)
    BY <2>3 DEF Arrive, PassIn, RouteAnswers, RouteRaisesPlatform, RouteRaises
  <2> QED BY <2>1, <2>2, <2>3 DEF Step
<1>2. \E h : http' = [http EXCEPT ![r] = h]
  BY Zenon DEF Step, Arrive, PassIn, Correlate, RouteLogs, RouteAnswers,
     RouteRaisesPlatform, RouteRaises, LogOut, CorrelateOut, ErrorsOut, Set
<1>3. bound' = bound \/ \E i : bound' = [bound EXCEPT ![r] = i]
  BY Zenon DEF Step, Arrive, PassIn, Correlate, RouteLogs, RouteAnswers,
     RouteRaisesPlatform, RouteRaises, LogOut, CorrelateOut, ErrorsOut
<1> QED BY <1>1, <1>2, <1>3

\* So it says nothing about another request.
LEMMA OtherRequest ==
  ASSUME StackInv, NEW r \in HttpRequests, Step(r), NEW q \in HttpRequests \ {r}
  PROVE  RequestInv(q)'
<1>1. /\ http'[q] = http[q] /\ bound'[q] = bound[q] /\ stack' = stack
      /\ {l \in log' : l.by = q} = Lines(q)
  <2>1. http'[q] = http[q]
    BY StepLines DEF StackInv
  <2>2. bound'[q] = bound[q]
    BY StepLines DEF StackInv
  <2>3. {l \in log' : l.by = q} = Lines(q)
    BY StepLines DEF Lines
  <2> QED BY <2>1, <2>2, <2>3, StepLines
<1>2. RequestInv(q)
  BY DEF StackInv
<1>3. Lines(q)' = Lines(q)
  BY <1>1 DEF Lines
<1>4. Request(q)' = Request(q) /\ RouteAt' = RouteAt /\ CorrelateAt' = CorrelateAt
  BY <1>1 DEF Request, RouteAt, CorrelateAt
<1>5. (Past(q) <=> Past(q)') /\ IdOf(q)' = IdOf(q)
  BY <1>1, <1>4 DEF Past, IdOf
<1>6. LeavingInv(q)'
  BY <1>1, <1>2, <1>3, <1>4, <1>5 DEF LeavingInv, RequestInv
<1>7. LinesInv(q)'
  BY <1>1, <1>2, <1>3, <1>4, <1>5 DEF LinesInv, RequestInv
<1> QED BY <1>1, <1>2, <1>4, <1>5, <1>6, <1>7 DEF RequestInv

\* What happens to r is told by its new record, its context and its new lines.
LEMMA ArriveInv ==
  ASSUME StackInv, NEW r \in HttpRequests, Arrive(r)
  PROVE  RequestInv(r)'
<1>1. PICK p \in {"api", "probe"}, s \in SentIds :
        http'[r] = [Fresh EXCEPT !.path = p, !.sent = s, !.at = 1, !.dir = "in"]
  BY DEF Arrive, Set, SentIds, StackInv
<1> DEFINE h == http'[r]
<1>2. /\ h.path = p /\ h.sent = s /\ h.at = 1 /\ h.dir = "in" /\ h.id = Unknown
      /\ h.said = 0 /\ h.raised = FALSE /\ h.status = 0 /\ h.header = Absent
      /\ h.body = Absent
  BY <1>1 DEF Fresh
<1>3. /\ stack' = stack /\ log' = log /\ bound' = bound /\ http[r].dir = "new"
  BY DEF Arrive
<1>4. Lines(r) = {} /\ bound[r] \in Ids \cup {Absent}
  BY <1>3 DEF StackInv, RequestInv, LinesInv
<1>5. Lines(r)' = {}
  BY <1>3, <1>4 DEF Lines
<1>6. h \in Request(r)'
  <2>1. h = [path |-> p, sent |-> s, at |-> 1, dir |-> "in", id |-> Unknown, said |-> 0,
             raised |-> FALSE, status |-> 0, header |-> Absent, body |-> Absent]
    BY <1>1 DEF Fresh
  <2>2. /\ 1 \in 0..RouteAt' /\ 0 \in 0..MaxLines /\ 0 \in Statuses
    BY HttpAssumption DEF RouteAt, Statuses
  <2> HIDE DEF h
  <2>3. h \in [path : {"api", "probe"}, sent : SentIds, at : 0..RouteAt',
     dir : {"new", "in", "out", "done"}, id : Ids \cup {Unknown}, said : 0..MaxLines,
     raised : BOOLEAN, status : Statuses, header : Ids \cup {Absent},
     body : Ids \cup {Absent, MintedBody(r)}]
    BY <2>1, <2>2
  <2> QED BY <2>3 DEF Request, h
<1>7. LeavingInv(r)'
  BY <1>2 DEF LeavingInv
<1>8. LinesInv(r)'
  BY <1>2, <1>5 DEF LinesInv
<1>9. ~Past(r)'
  BY <1>2 DEF Past, CorrelateAt
<1> QED BY <1>2, <1>3, <1>4, <1>6, <1>7, <1>8, <1>9 DEF RequestInv

\* On the way in the id is bound by the time the correlation layer is passed.
LEMMA InwardInv ==
  ASSUME StackInv, NEW r \in HttpRequests, PassIn(r) \/ Correlate(r)
  PROVE  RequestInv(r)'
<1> DEFINE h == http[r]
           hh == http'[r]
<1>0. /\ RequestInv(r) /\ h \in Request(r) /\ stack \in {"platform", "gateway"}
      /\ http = [q \in HttpRequests |-> http[q]] /\ bound = [q \in HttpRequests |-> bound[q]]
      /\ stack' = stack
  BY StepLines DEF StackInv, RequestInv, Step
<1>1. /\ h.dir = "in" /\ h.at \in 1..(RouteAt - 1)
      /\ PassIn(r) => stack = "platform" /\ h.at \in {1, 3}
      /\ Correlate(r) => h.at = CorrelateAt
  BY <1>0, AtMeans DEF PassIn, Correlate, RouteAt, CorrelateAt
<1>2. /\ hh.path = h.path /\ hh.sent = h.sent /\ hh.at = h.at + 1 /\ hh.dir = "in"
      /\ hh.said = h.said /\ hh.raised = h.raised /\ hh.status = h.status
      /\ hh.header = h.header /\ hh.body = h.body
      /\ hh.id = IF Correlate(r) THEN IdOf(r) ELSE h.id
      /\ hh = [path |-> h.path, sent |-> h.sent, at |-> h.at + 1, dir |-> "in",
               id |-> hh.id, said |-> h.said, raised |-> h.raised, status |-> h.status,
               header |-> h.header, body |-> h.body]
  <2> HIDE DEF h, hh
  <2>1. h = [path |-> h.path, sent |-> h.sent, at |-> h.at, dir |-> "in",
               id |-> h.id, said |-> h.said, raised |-> h.raised, status |-> h.status,
               header |-> h.header, body |-> h.body]
    BY <1>0, <1>1 DEF Request
  <2>2. CASE PassIn(r) /\ ~Correlate(r)
    <3>1. hh = [h EXCEPT !.at = @ + 1]
      BY <1>0, <2>2 DEF PassIn, Set, Inwards, h, hh
    <3> QED BY <2>1, <2>2, <3>1
  <2>3. CASE Correlate(r)
    <3>1. hh = [[h EXCEPT !.at = @ + 1] EXCEPT !.id = IdOf(r)]
      BY <1>0, <2>3 DEF Correlate, Set, Inwards, h, hh
    <3>2. hh = [path |-> h.path, sent |-> h.sent, at |-> h.at + 1, dir |-> "in",
               id |-> IdOf(r), said |-> h.said, raised |-> h.raised, status |-> h.status,
               header |-> h.header, body |-> h.body]
      <4> DEFINE g == [h EXCEPT !.at = @ + 1]
      <4>1. g = [path |-> h.path, sent |-> h.sent, at |-> h.at + 1, dir |-> "in",
               id |-> h.id, said |-> h.said, raised |-> h.raised, status |-> h.status,
               header |-> h.header, body |-> h.body]
        BY <2>1
      <4>2. hh = [g EXCEPT !.id = IdOf(r)]
        BY <3>1
      <4> HIDE DEF g
      <4> QED BY <4>1, <4>2
    <3> QED BY <2>3, <3>2
  <2> QED BY <1>1, <2>2, <2>3 DEF h
<1>3. IdOf(r)' = IdOf(r) /\ IdOf(r) \in Ids /\ IdOf(r) # Absent
  BY <1>2, IdsAre DEF IdOf
<1>4. bound'[r] = IF Correlate(r) THEN IdOf(r) ELSE bound[r]
  BY <1>0 DEF PassIn, Correlate
<1>5. \A l \in Lines(r)' : l \in Lines(r) \/
        (l.id = IdOf(r) /\ l.level = "debug" /\ l.event = "started")
  <2>1. CASE PassIn(r)
    BY <2>1 DEF PassIn, Lines
  <2>2. CASE Correlate(r)
    BY <1>2, <1>3, <2>2 DEF Correlate, Lines, Started, Line, LineId
  <2> QED BY <2>1, <2>2
<1> HIDE DEF hh
<1>6. hh \in Request(r)'
  <2>1. hh.id \in Ids \cup {Unknown} /\ hh.at \in 0..RouteAt
    BY <1>0, <1>1, <1>2, <1>3 DEF Request, RouteAt
  <2> QED BY <1>0, <1>2, <2>1 DEF Request, RouteAt
<1>7. Past(r)' => hh.id = IdOf(r) /\ bound'[r] = IdOf(r)
  <2>1. CASE Correlate(r)
    BY <1>2, <1>4, <2>1
  <2>2. CASE ~Correlate(r) /\ Past(r)
    BY <1>0, <1>2, <1>4, <2>2 DEF RequestInv
  <2>3. CASE ~Correlate(r) /\ ~Past(r)
    <3>1. stack = "platform" /\ h.at = 1
      BY <1>0, <1>1, <2>3 DEF Past, CorrelateAt
    <3> QED BY <1>0, <1>2, <3>1 DEF Past, CorrelateAt, hh
  <2> QED BY <2>1, <2>2, <2>3
<1>8. LeavingInv(r)'
  BY <1>0, <1>1, <1>2 DEF LeavingInv, RequestInv, hh
<1>9. LinesInv(r)'
  <2>1. \A l \in Lines(r) : /\ l.id = IdOf(r) /\ l.level \in Levels
                            /\ l.event # "completed" /\ l.event # "unhandled"
    BY <1>0, <1>1 DEF RequestInv, LinesInv
  <2>2. \A l \in Lines(r)' : /\ l.id = IdOf(r) /\ l.level \in Levels
                            /\ l.event # "completed" /\ l.event # "unhandled"
    BY <1>5, <2>1 DEF Levels
  <2> QED BY <1>2, <1>3, <2>2 DEF LinesInv, hh
<1>10. bound'[r] \in Ids \cup {Absent}
  BY <1>0, <1>3, <1>4 DEF RequestInv
<1> QED BY <1>1, <1>2, <1>3, <1>6, <1>7, <1>8, <1>9, <1>10 DEF RequestInv, Request, RouteAt, hh

\* The record of r after a step outwards, with what the layer writes to it.
Moved(h, at, dir, raised, status, header, body) ==
  [path |-> h.path, sent |-> h.sent, at |-> at, dir |-> dir, id |-> h.id, said |-> h.said,
   raised |-> raised, status |-> status, header |-> header, body |-> body]

\* One layer up, with the answer or the exception unchanged.
LEMMA OutwardsIs ==
  ASSUME StackInv, NEW r \in HttpRequests
  PROVE  LET h == http[r] IN
         Outwards(r) = Moved(h, h.at - 1, IF h.at = 1 THEN "done" ELSE "out",
                             h.raised, h.status, h.header, h.body)
<1> DEFINE h == http[r]
<1>1. h \in Request(r)
  BY DEF StackInv, RequestInv
<1>2. h = [path |-> h.path, sent |-> h.sent, at |-> h.at, dir |-> h.dir, id |-> h.id,
           said |-> h.said, raised |-> h.raised, status |-> h.status,
           header |-> h.header, body |-> h.body]
  <2> HIDE DEF h
  <2> QED BY <1>1 DEF Request
<1>3. Outwards(r) = [h EXCEPT !.at = @ - 1, !.dir = IF h.at = 1 THEN "done" ELSE "out"]
  BY DEF Outwards
<1> HIDE DEF h
<1>4. Outwards(r) = Moved(h, h.at - 1, IF h.at = 1 THEN "done" ELSE "out",
                          h.raised, h.status, h.header, h.body)
  <2> DEFINE d == IF h.at = 1 THEN "done" ELSE "out"
  <2>1. Outwards(r) = [h EXCEPT !.at = @ - 1, !.dir = d]
    BY <1>3
  <2> HIDE DEF d
  <2>2. Outwards(r) = Moved(h, h.at - 1, d, h.raised, h.status, h.header, h.body)
    BY <1>2, <2>1 DEF Moved
  <2> QED BY <2>2 DEF d
<1> QED BY <1>4 DEF h

\* A step outwards keeps the types and the id; what it must still show is what
\* its layer did.
LEMMA OutwardInv ==
  ASSUME StackInv, NEW r \in HttpRequests, stack' = stack, bound' = bound,
         NEW raised \in BOOLEAN, NEW status \in Statuses, NEW header \in Ids \cup {Absent},
         NEW body \in Ids \cup {Absent, MintedBody(r)},
         NEW h, h = http[r], NEW d, d = IF h.at = 1 THEN "done" ELSE "out",
         http'[r] = Moved(h, h.at - 1, d, raised, status, header, body),
         InRoute(r) \/ (h.dir = "out"), LeavingInv(r)', LinesInv(r)'
  PROVE  RequestInv(r)'
<1>1. /\ h \in Request(r) /\ RequestInv(r) /\ stack \in {"platform", "gateway"}
  BY DEF StackInv, RequestInv
<1>2. h.at \in 1..RouteAt /\ Past(r)
  BY <1>1, AtMeans DEF Past, RequestInv, RouteAt, CorrelateAt
<1>3. /\ h.at - 1 \in 0..RouteAt /\ d \in {"done", "out"}
      /\ d = "out" => h.at - 1 \in 1..(RouteAt - 1)
  BY <1>1, <1>2 DEF RouteAt
<1>4. /\ h.path \in {"api", "probe"} /\ h.sent \in SentIds /\ h.id \in Ids \cup {Unknown}
      /\ h.said \in 0..MaxLines
  BY <1>1 DEF Request
<1>5. http'[r] \in Request(r)'
  BY <1>3, <1>4 DEF Moved, Request, RouteAt
<1>6. http'[r].dir = d /\ http'[r].at = h.at - 1 /\ http'[r].id = h.id
      /\ http'[r].sent = h.sent
  BY DEF Moved
<1>7. IdOf(r)' = IdOf(r) /\ h.id = IdOf(r) /\ bound[r] = IdOf(r)
  BY <1>1, <1>2, <1>6 DEF IdOf, RequestInv
<1>8. bound[r] \in Ids \cup {Absent}
  BY <1>1 DEF RequestInv
<1> QED BY <1>3, <1>5, <1>6, <1>7, <1>8 DEF RequestInv, RouteAt

\* The route ends: an answer, an error of the platform, or an exception.
LEMMA RouteInv ==
  ASSUME StackInv, NEW r \in HttpRequests,
         RouteAnswers(r) \/ RouteRaisesPlatform(r) \/ RouteRaises(r)
  PROVE  RequestInv(r)'
<1> DEFINE h == http[r]
           g == Outwards(r)
<1>1. /\ InRoute(r) /\ stack' = stack /\ bound' = bound /\ log' = log
      /\ r \in DOMAIN http /\ h \in Request(r) /\ RequestInv(r)
      /\ stack \in {"platform", "gateway"}
  BY DEF RouteAnswers, RouteRaisesPlatform, RouteRaises, StackInv, RequestInv
<1>2. /\ h.dir = "in" /\ h.at = RouteAt /\ h.raised = FALSE /\ h.status = 0
      /\ h.header = Absent /\ h.body \in Ids \cup {Absent, MintedBody(r)}
  BY <1>1, AtMeans DEF RequestInv, LeavingInv, Request
<1>3. g = Moved(h, h.at - 1, "out", h.raised, h.status, h.header, h.body)
  <2>1. h.at # 1
    BY <1>2 DEF RouteAt
  <2> QED BY <2>1, OutwardsIs
<1> HIDE DEF g
<1>4. PICK raised \in BOOLEAN, status \in Statuses, body \in Ids \cup {Absent, MintedBody(r)} :
        /\ http'[r] = Moved(h, h.at - 1, "out", raised, status, Absent, body)
        /\ raised = FALSE \/ status = 0
        /\ status >= 500 => body = MintedBody(r)
  <2>1. CASE RouteAnswers(r)
    <3>1. http'[r] = [g EXCEPT !.status = 200]
      BY <1>1, <2>1 DEF RouteAnswers, Set, g
    <3>2. http'[r] = Moved(h, h.at - 1, "out", h.raised, 200, Absent, h.body)
      BY <1>2, <1>3, <3>1 DEF Moved
    <3>3. http'[r] = Moved(h, h.at - 1, "out", FALSE, 200, Absent, h.body)
      BY <1>2, <3>2, Zenon
    <3>4. /\ 200 \in Statuses /\ ~(200 >= 500) /\ FALSE \in BOOLEAN
          /\ h.body \in Ids \cup {Absent, MintedBody(r)}
      BY <1>2 DEF Statuses
    <3> QED BY <3>3, <3>4
  <2>2. CASE RouteRaises(r)
    <3>1. http'[r] = [g EXCEPT !.raised = TRUE]
      BY <1>1, <2>2 DEF RouteRaises, Set, g
    <3>2. http'[r] = Moved(h, h.at - 1, "out", TRUE, 0, Absent, h.body)
      BY <1>2, <1>3, <3>1 DEF Moved
    <3>3. 0 \in Statuses /\ ~(0 >= 500) /\ TRUE \in BOOLEAN
      BY DEF Statuses
    <3> QED BY <1>2, <3>2, <3>3, Zenon
  <2>3. CASE RouteRaisesPlatform(r)
    <3>1. PICK st \in PlatformStatuses :
            http'[r] = [g EXCEPT !.status = st, !.body = MintedBody(r)]
      BY <1>1, <2>3 DEF RouteRaisesPlatform, Set, g
    <3>2. http'[r] = Moved(h, h.at - 1, "out", FALSE, st, Absent, MintedBody(r))
      BY <1>2, <1>3, <3>1 DEF Moved
    <3>3. st \in Statuses
      BY StatusesAre
    <3> QED BY <3>2, <3>3
  <2> QED BY <2>1, <2>2, <2>3
<1> DEFINE k == http'[r]
<1>5. /\ k.dir = "out" /\ k.at = RouteAt - 1 /\ k.raised = raised /\ k.status = status
      /\ k.header = Absent /\ k.body = body /\ k.path = h.path /\ k.sent = h.sent
  BY <1>2, <1>4 DEF Moved
<1>6. Lines(r)' = Lines(r) /\ IdOf(r)' = IdOf(r) /\ CorrelateAt' = CorrelateAt
  BY <1>1, <1>5 DEF Lines, IdOf, CorrelateAt
<1>7. \A l \in Lines(r) : l.event # "completed" /\ l.event # "unhandled"
  BY <1>1, <1>2 DEF RequestInv, LinesInv
<1>8. LeavingInv(r)'
  <2>1. ~(RouteAt - 1 < CorrelateAt) /\ (stack = "platform" => RouteAt - 1 = 3)
    BY <1>1 DEF RouteAt, CorrelateAt
  <2> HIDE DEF k
  <2>2. /\ k.dir \notin {"new", "in", "done"} /\ (k.raised => k.status = 0 /\ k.header = Absent)
        /\ ~(k.at < CorrelateAt') /\ (k.status >= 500 => k.body = MintedBody(r))
        /\ stack' = "platform" => ~(k.at < 3)
    BY <1>1, <1>4, <1>5, <1>6, <2>1
  <2> QED BY <1>5, <2>2 DEF LeavingInv, k
<1>9. LinesInv(r)'
  <2>1. \A l \in Lines(r) : l.id = IdOf(r) /\ l.level \in Levels
    BY <1>1 DEF RequestInv, LinesInv
  <2> QED BY <1>5, <1>6, <1>7, <2>1 DEF LinesInv
<1>10. Absent \in Ids \cup {Absent} /\ "out" = IF h.at = 1 THEN "done" ELSE "out"
  BY <1>2 DEF RouteAt
<1> QED BY <1>1, <1>4, <1>8, <1>9, <1>10, OutwardInv

\* A line of the route carries the id that is bound.
LEMMA RouteLogsInv ==
  ASSUME StackInv, NEW r \in HttpRequests, RouteLogs(r)
  PROVE  RequestInv(r)'
<1> DEFINE h == http[r]
           k == http'[r]
<1>1. /\ InRoute(r) /\ stack' = stack /\ bound' = bound
      /\ log' = log \cup {Line(r, "route", "info", Absent)}
      /\ r \in DOMAIN http /\ h \in Request(r) /\ RequestInv(r)
      /\ stack \in {"platform", "gateway"} /\ h.said < MaxLines
      /\ k = [h EXCEPT !.said = @ + 1]
  BY DEF RouteLogs, StackInv, RequestInv, Set
<1>2. h.dir = "in" /\ h.at = RouteAt /\ Past(r)
  BY <1>1, AtMeans DEF Past, RouteAt, CorrelateAt
<1>3. h = [path |-> h.path, sent |-> h.sent, at |-> h.at, dir |-> h.dir, id |-> h.id,
           said |-> h.said, raised |-> h.raised, status |-> h.status,
           header |-> h.header, body |-> h.body]
  <2> HIDE DEF h
  <2> QED BY <1>1 DEF Request
<1> HIDE DEF k
<1>4. k = [path |-> h.path, sent |-> h.sent, at |-> h.at, dir |-> h.dir, id |-> h.id,
           said |-> h.said + 1, raised |-> h.raised, status |-> h.status,
           header |-> h.header, body |-> h.body]
  <2> HIDE DEF h
  <2> QED BY <1>1, <1>3
<1>5. h.said + 1 \in 0..MaxLines
  BY <1>1, HttpAssumption DEF Request
<1>6. k \in Request(r)'
  <2> HIDE DEF h
  <2> QED BY <1>1, <1>4, <1>5 DEF Request, RouteAt
<1>7. /\ k.dir = "in" /\ k.at = RouteAt /\ k.raised = h.raised /\ k.status = h.status
      /\ k.header = h.header /\ k.id = h.id /\ k.sent = h.sent
  BY <1>2, <1>4
<1>8. /\ RouteAt' = RouteAt /\ IdOf(r)' = IdOf(r) /\ CorrelateAt' = CorrelateAt
      /\ h.id = IdOf(r) /\ bound[r] = IdOf(r) /\ bound[r] \in Ids \cup {Absent}
  BY <1>1, <1>2, <1>7 DEF RouteAt, IdOf, CorrelateAt, RequestInv, k
<1>9. LeavingInv(r)'
  <2>1. ~h.raised /\ h.status = 0 /\ h.header = Absent
    BY <1>1, <1>2 DEF RequestInv, LeavingInv
  <2> QED BY <1>7, <2>1 DEF LeavingInv, k
<1>10. LinesInv(r)'
  <2>1. \A l \in Lines(r) : /\ l.id = IdOf(r) /\ l.level \in Levels
                            /\ l.event # "completed" /\ l.event # "unhandled"
    BY <1>1, <1>2 DEF RequestInv, LinesInv
  <2> DEFINE m == Line(r, "route", "info", Absent)
  <2>2. m.id = bound[r] /\ m.level = "info" /\ m.event = "route"
    BY DEF Line, LineId
  <2> HIDE DEF m
  <2>3. \A l \in Lines(r)' : /\ l.id = IdOf(r) /\ l.level \in Levels
                             /\ l.event # "completed" /\ l.event # "unhandled"
    BY <1>1, <1>8, <2>1, <2>2 DEF Lines, Levels, m
  <2> QED BY <1>7, <1>8, <2>3 DEF LinesInv, k
<1> QED BY <1>1, <1>6, <1>7, <1>8, <1>9, <1>10 DEF RequestInv, RouteAt, k

\* The facts about a request on its way out that the three layers start from.
LEMMA LeavingFacts ==
  ASSUME StackInv, NEW r \in HttpRequests, http[r].dir = "out"
  PROVE  /\ r \in DOMAIN http /\ http[r] \in Request(r) /\ stack \in {"platform", "gateway"}
         /\ http[r].id = IdOf(r) /\ bound[r] = IdOf(r) /\ IdOf(r) \in Ids /\ IdOf(r) # Absent
         /\ LeavingInv(r) /\ LinesInv(r)
         /\ http[r].raised \in BOOLEAN /\ http[r].status \in Statuses
         /\ http[r].header \in Ids \cup {Absent} /\ http[r].path \in {"api", "probe"}
         /\ http[r].body \in Ids \cup {Absent, MintedBody(r)}
         /\ \A l \in Lines(r) : l.id = IdOf(r) /\ l.level \in Levels /\ l.event # "unhandled"
<1>1. RequestInv(r) /\ r \in DOMAIN http /\ stack \in {"platform", "gateway"}
  BY DEF StackInv
<1>2. http[r] \in Request(r) /\ Past(r) /\ LeavingInv(r) /\ LinesInv(r)
  BY <1>1 DEF RequestInv, Past
<1>3. http[r].id = IdOf(r) /\ bound[r] = IdOf(r)
  BY <1>1, <1>2 DEF RequestInv
<1>4. /\ http[r].raised \in BOOLEAN /\ http[r].status \in Statuses
      /\ http[r].header \in Ids \cup {Absent} /\ http[r].path \in {"api", "probe"}
      /\ http[r].body \in Ids \cup {Absent, MintedBody(r)}
  BY <1>2 DEF Request
<1> QED BY <1>1, <1>2, <1>3, <1>4, IdsAre DEF LinesInv

\* What the lines L about a request that comes out in order tell of it.
Told(raised, status, path, L) ==
  ~raised =>
    /\ status >= 500 => path = "probe" \/ \E l \in L : l.level = "error"
    /\ path = "api" => \E l \in L : l.event = "completed"

\* The completed line, which an exception skips, carries the id.
LEMMA LogOutInv ==
  ASSUME StackInv, NEW r \in HttpRequests, LogOut(r)
  PROVE  RequestInv(r)'
<1> DEFINE h == http[r]
           k == http'[r]
           m == Line(r, "completed", LevelOf(h.status), Absent)
<1>1. /\ stack = "platform" /\ h.dir = "out" /\ h.at = 3
      /\ stack' = stack /\ bound' = bound
  BY AtMeans DEF LogOut
<1>2. k = Moved(h, h.at - 1, "out", h.raised, h.status, h.header, h.body)
  BY <1>1, LeavingFacts, OutwardsIs DEF LogOut, Set
<1>3. /\ k.dir = "out" /\ k.at = 2 /\ k.raised = h.raised /\ k.status = h.status
      /\ k.header = h.header /\ k.body = h.body /\ k.path = h.path /\ k.sent = h.sent
  BY <1>1, <1>2 DEF Moved
<1>4. m.id = IdOf(r) /\ m.event = "completed" /\ m.level = LevelOf(h.status) /\ m.by = r
  BY <1>1, LeavingFacts DEF Line, LineId
<1>5. /\ LevelOf(h.status) \in Levels
      /\ h.status >= 500 => LevelOf(h.status) = "error"
  BY DEF LevelOf, Levels
<1>6. Lines(r)' = IF h.raised \/ h.path = "probe" THEN Lines(r) ELSE Lines(r) \cup {m}
  <2> HIDE DEF h, m
  <2>1. log' = IF h.raised \/ h.path = "probe" THEN log ELSE log \cup {m}
    BY DEF LogOut, Excluded, h, m
  <2> QED BY <1>4, <2>1 DEF Lines
<1>7. IdOf(r)' = IdOf(r) /\ CorrelateAt' = CorrelateAt /\ CorrelateAt = 2
  BY <1>1, <1>3 DEF IdOf, CorrelateAt
<1>8. /\ LeavingInv(r) /\ LinesInv(r) /\ h.path \in {"api", "probe"}
      /\ h.raised \in BOOLEAN
  BY <1>1, LeavingFacts
<1> HIDE DEF k, m
<1>9. LeavingInv(r)'
  <2>1. h.raised => h.status = 0 /\ h.header = Absent
    BY <1>8 DEF LeavingInv
  <2>2. h.status >= 500 => h.body = MintedBody(r)
    BY <1>1, <1>8 DEF LeavingInv
  <2> DEFINE L == Lines(r)'
  <2>3. L = IF h.raised \/ h.path = "probe" THEN Lines(r) ELSE Lines(r) \cup {m}
    BY <1>6
  <2> HIDE DEF L
  <2>4. Told(h.raised, h.status, h.path, L)
    BY <1>4, <1>5, <1>8, <2>3 DEF Told
  <2>5. /\ k.dir \notin {"new", "in", "done"} /\ (k.raised => k.status = 0 /\ k.header = Absent)
        /\ ~(k.at < CorrelateAt') /\ (k.status >= 500 => k.body = MintedBody(r))
    BY <1>1, <1>3, <1>7, <1>8, <2>1, <2>2
  <2> HIDE DEF h
  <2>6. Told(k.raised, k.status, k.path, L)
    BY <1>3, <2>4
  <2> QED BY <1>3, <2>5, <2>6 DEF LeavingInv, Told, k, L
<1>10. LinesInv(r)'
  <2>1. \A l \in Lines(r)' : l.id = IdOf(r) /\ l.level \in Levels /\ l.event # "unhandled"
    BY <1>1, <1>4, <1>5, <1>6, LeavingFacts
  <2>2. h.raised => \A l \in Lines(r)' : l.event # "completed"
    BY <1>1, <1>6, <1>8 DEF LinesInv
  <2> QED BY <1>1, <1>3, <1>7, <1>8, <2>1, <2>2 DEF LinesInv, k
<1>11. "out" = IF h.at = 1 THEN "done" ELSE "out"
  BY <1>1
<1>12. /\ h.raised \in BOOLEAN /\ h.status \in Statuses /\ h.header \in Ids \cup {Absent}
       /\ h.body \in Ids \cup {Absent, MintedBody(r)}
  BY <1>1, LeavingFacts
<1> QED BY <1>1, <1>2, <1>9, <1>10, <1>11, <1>12, OutwardInv DEF k

\* The error middleware writes an error line for what it turns into an answer.
LEMMA ErrorsOutInv ==
  ASSUME StackInv, NEW r \in HttpRequests, ErrorsOut(r)
  PROVE  RequestInv(r)'
<1> DEFINE h == http[r]
           k == http'[r]
           g == Outwards(r)
           f == FALSE
           m == Line(r, "unhandled", "error", h.id)
<1>1. /\ stack = "platform" /\ h.dir = "out" /\ h.at = 1
      /\ stack' = stack /\ bound' = bound
  BY AtMeans DEF ErrorsOut
<1>2. g = Moved(h, h.at - 1, "done", h.raised, h.status, h.header, h.body)
  BY <1>1, OutwardsIs
<1>3. /\ LeavingInv(r) /\ LinesInv(r) /\ h.path \in {"api", "probe"} /\ h.id = IdOf(r)
      /\ IdOf(r) # Absent /\ IdOf(r) \in Ids
      /\ \A l \in Lines(r) : l.id = IdOf(r) /\ l.level \in Levels /\ l.event # "unhandled"
  BY <1>1, LeavingFacts
<1>4. CASE ~h.raised
  <2>1. k = g /\ log' = log
    BY <1>1, <1>4, LeavingFacts DEF ErrorsOut, Set
  <2>2. /\ k.dir = "done" /\ k.raised = h.raised /\ k.status = h.status
        /\ k.header = h.header /\ k.body = h.body /\ k.path = h.path /\ k.sent = h.sent
    BY <1>2, <2>1 DEF Moved
  <2>3. IdOf(r)' = IdOf(r) /\ Lines(r)' = Lines(r)
    BY <2>1, <2>2 DEF IdOf, Lines
  <2>4. /\ h.header = IdOf(r) /\ (h.status >= 500 => h.body = MintedBody(r))
        /\ h.status >= 500 => h.path = "probe" \/ \E l \in Lines(r) : l.level = "error"
        /\ h.path = "api" => \E l \in Lines(r) : l.event = "completed"
    BY <1>1, <1>3, <1>4 DEF LeavingInv, CorrelateAt
  <2> HIDE DEF k, g
  <2>5. LeavingInv(r)'
    <3> HIDE DEF h
    <3> QED BY <1>1, <1>4, <2>2, <2>3, <2>4 DEF LeavingInv, k
  <2>6. LinesInv(r)'
    <3> HIDE DEF h
    <3> QED BY <1>1, <1>3, <1>4, <2>2, <2>3 DEF LinesInv, k
  <2> QED BY <1>1, <1>2, <2>1, <2>5, <2>6, LeavingFacts, OutwardInv DEF k
<1>5. CASE h.raised
  <2>1. /\ k = [g EXCEPT !.raised = f, !.status = 500, !.header = h.id, !.body = h.id]
        /\ log' = log \cup {m}
    BY <1>1, <1>5, LeavingFacts DEF ErrorsOut, Set
  <2>0. f = FALSE /\ f \in BOOLEAN
    OBVIOUS
  <2> HIDE DEF g, f
  <2>2. k = Moved(h, h.at - 1, "done", f, 500, h.id, h.id)
    <3> HIDE DEF h
    <3> DEFINE g1 == [g EXCEPT !.raised = f]
               g2 == [g1 EXCEPT !.status = 500]
               g3 == [g2 EXCEPT !.header = h.id]
               g4 == [g3 EXCEPT !.body = h.id]
    <3>1. k = g4
      BY <2>1
    <3>2. g1 = Moved(h, h.at - 1, "done", f, h.status, h.header, h.body)
      BY <1>2 DEF Moved
    <3> HIDE DEF g1
    <3>3. g2 = Moved(h, h.at - 1, "done", f, 500, h.header, h.body)
      BY <3>2 DEF Moved
    <3> HIDE DEF g2
    <3>4. g3 = Moved(h, h.at - 1, "done", f, 500, h.id, h.body)
      BY <3>3 DEF Moved
    <3> HIDE DEF g3
    <3>5. g4 = Moved(h, h.at - 1, "done", f, 500, h.id, h.id)
      BY <3>4 DEF Moved
    <3> QED BY <3>1, <3>5
  <2>3. /\ k.dir = "done" /\ k.raised = f /\ k.status = 500
        /\ k.header = h.id /\ k.body = h.id /\ k.path = h.path /\ k.sent = h.sent
    BY <2>2 DEF Moved
  <2>4. m.id = IdOf(r) /\ m.event = "unhandled" /\ m.level = "error" /\ m.by = r
    BY <1>3 DEF Line, LineId
  <2> HIDE DEF m, k
  <2>5. IdOf(r)' = IdOf(r) /\ Lines(r)' = Lines(r) \cup {m}
    <3>1. IdOf(r)' = IdOf(r)
      BY <2>3 DEF IdOf, k
    <3> QED BY <2>1, <2>4, <3>1 DEF Lines
  <2>6. LeavingInv(r)'
    <3>1. m \in Lines(r)'
      BY <2>5
    <3> HIDE DEF h
    <3> QED BY <1>3, <2>0, <2>3, <2>4, <2>5, <3>1 DEF LeavingInv, k
  <2>7. LinesInv(r)'
    <3>1. \A l \in Lines(r) : l.event # "completed"
      BY <1>1, <1>3, <1>5 DEF LinesInv
    <3>2. \A l \in Lines(r)' : l.id = IdOf(r) /\ l.level \in Levels /\ l.event # "completed"
      BY <1>3, <2>4, <2>5, <3>1 DEF Levels
    <3> HIDE DEF h
    <3> QED BY <2>0, <2>3, <2>5, <3>2 DEF LinesInv, k
  <2>8. f \in BOOLEAN /\ 500 \in Statuses /\ h.id \in Ids
    BY <1>3, <2>0 DEF Statuses
  <2> QED BY <1>1, <2>2, <2>6, <2>7, <2>8, OutwardInv DEF k
<1> QED BY <1>4, <1>5

\* The answer leaves with the id of the request in its header.
LEMMA CorrelateOutInv ==
  ASSUME StackInv, NEW r \in HttpRequests, CorrelateOut(r)
  PROVE  RequestInv(r)'
<1> DEFINE h == http[r]
           k == http'[r]
           g == Outwards(r)
           d == IF h.at = 1 THEN "done" ELSE "out"
           header == IF h.raised THEN Absent ELSE IdOf(r)
           m == Line(r, "completed", "debug", h.id)
<1>1. /\ h.dir = "out" /\ h.at = CorrelateAt
      /\ stack' = stack /\ bound' = bound
  BY AtMeans DEF CorrelateOut
<1>2. /\ LeavingInv(r) /\ LinesInv(r) /\ h.path \in {"api", "probe"} /\ h.id = IdOf(r)
      /\ IdOf(r) # Absent /\ IdOf(r) \in Ids /\ h.raised \in BOOLEAN
      /\ stack \in {"platform", "gateway"}
      /\ \A l \in Lines(r) : l.id = IdOf(r) /\ l.level \in Levels /\ l.event # "unhandled"
  BY <1>1, LeavingFacts
<1>3. g = Moved(h, h.at - 1, d, h.raised, h.status, h.header, h.body)
  BY OutwardsIs
<1>4. h.raised => h.status = 0 /\ h.header = Absent
  BY <1>2 DEF LeavingInv
<1>5. k = IF h.raised THEN g ELSE [g EXCEPT !.header = h.id]
  BY <1>1, LeavingFacts DEF CorrelateOut, Set
<1> HIDE DEF g, k
<1>6. k = Moved(h, h.at - 1, d, h.raised, h.status, header, h.body)
  <2> HIDE DEF h, d
  <2>1. CASE h.raised
    BY <1>3, <1>4, <1>5, <2>1
  <2>2. CASE ~h.raised
    BY <1>2, <1>3, <1>5, <2>2 DEF Moved
  <2> QED BY <2>1, <2>2
<1>7. /\ k.dir = d /\ k.at = h.at - 1 /\ k.raised = h.raised /\ k.status = h.status
      /\ k.header = header /\ k.body = h.body /\ k.path = h.path /\ k.sent = h.sent
  BY <1>6 DEF Moved
<1>8. m.id = IdOf(r) /\ m.event = "completed" /\ m.level = "debug" /\ m.by = r
  BY <1>2 DEF Line, LineId
<1>9. Lines(r)' = IF stack = "gateway" /\ ~h.raised THEN Lines(r) \cup {m} ELSE Lines(r)
  <2>1. log' = IF stack = "gateway" /\ ~h.raised THEN log \cup {m} ELSE log
    BY DEF CorrelateOut, Completed
  <2> HIDE DEF h, m
  <2> QED BY <1>8, <2>1 DEF Lines
<1>10. IdOf(r)' = IdOf(r) /\ CorrelateAt' = CorrelateAt
  BY <1>1, <1>7 DEF IdOf, CorrelateAt, k
<1> HIDE DEF m
<1>11. ASSUME stack = "gateway" PROVE LeavingInv(r)' /\ LinesInv(r)'
  <2>1. d = "done" /\ stack # "platform"
    BY <1>1, <1>11 DEF CorrelateAt
  <2>2. ~h.raised => m \in Lines(r)' /\ header = IdOf(r)
    BY <1>9, <1>11
  <2>3. h.raised => header = Absent
    OBVIOUS
  <2> HIDE DEF d, header
  <2>4. /\ k.dir = "done" /\ (k.raised => k.status = 0 /\ k.header = Absent)
        /\ ~k.raised => k.header = IdOf(r) /\ m \in Lines(r)'
    BY <1>2, <1>4, <1>7, <2>1, <2>2, <2>3
  <2>5. LeavingInv(r)'
    <3> HIDE DEF h
    <3> QED BY <1>1, <1>8, <1>10, <1>11, <2>1, <2>4 DEF LeavingInv, k
  <2>6. LinesInv(r)'
    <3>1. \A l \in Lines(r)' : l.id = IdOf(r) /\ l.level \in Levels /\ l.event # "unhandled"
      BY <1>2, <1>8, <1>9 DEF Levels
    <3> HIDE DEF h
    <3> QED BY <1>1, <1>10, <2>1, <2>4, <3>1 DEF LinesInv, k
  <2> QED BY <2>5, <2>6
<1>12. ASSUME stack = "platform" PROVE LeavingInv(r)' /\ LinesInv(r)'
  <2>1. d = "out" /\ h.at = 2
    BY <1>1, <1>12 DEF CorrelateAt
  <2>2. Lines(r)' = Lines(r)
    BY <1>9, <1>12
  <2>3. /\ h.status >= 500 => h.body = MintedBody(r)
        /\ Told(h.raised, h.status, h.path, Lines(r))
    BY <1>1, <1>2, <1>12, <2>1 DEF LeavingInv, Told
  <2>4. /\ ~h.raised => header = IdOf(r)
        /\ h.raised => header = Absent
    OBVIOUS
  <2> HIDE DEF d, header
  <2>5. /\ k.dir = "out" /\ k.at = 1 /\ (k.raised => k.status = 0 /\ k.header = Absent)
        /\ k.status >= 500 => k.body = MintedBody(r)
        /\ ~k.raised => k.header = IdOf(r)
    BY <1>2, <1>4, <1>7, <2>1, <2>3, <2>4
  <2>6. Told(k.raised, k.status, k.path, Lines(r))
    BY <1>7, <2>3
  <2>7. LeavingInv(r)'
    <3> HIDE DEF h
    <3> QED BY <1>1, <1>10, <2>2, <2>5, <2>6 DEF LeavingInv, Told, k
  <2>8. LinesInv(r)'
    <3>1. h.raised => \A l \in Lines(r) : l.event # "completed"
      BY <1>2, <1>12 DEF LinesInv
    <3>2. k.raised => \A l \in Lines(r) : l.event # "completed"
      BY <1>7, <3>1
    <3> HIDE DEF h
    <3> QED BY <1>1, <1>2, <1>10, <2>2, <2>5, <3>2 DEF LinesInv, k
  <2> QED BY <2>7, <2>8
<1>13. LeavingInv(r)' /\ LinesInv(r)'
  BY <1>2, <1>11, <1>12
<1>14. header \in Ids \cup {Absent}
  BY <1>2
<1> HIDE DEF header
<1> QED BY <1>1, <1>6, <1>13, <1>14, LeavingFacts, OutwardInv DEF k

\* StackInv is inductive.
LEMMA StackInvStep == StackInv /\ [HttpNext]_httpVars => StackInv'
<1> SUFFICES ASSUME StackInv, [HttpNext]_httpVars PROVE StackInv'
  OBVIOUS
<1>1. CASE UNCHANGED httpVars
  BY <1>1 DEF httpVars, StackInv, RequestInv, Request, RouteAt, CorrelateAt, Past, LeavingInv,
     LinesInv, Lines, IdOf
<1>2. ASSUME NEW r \in HttpRequests, Step(r) PROVE StackInv'
  <2>1. RequestInv(r)'
    BY <1>2, ArriveInv, InwardInv, RouteInv, RouteLogsInv, LogOutInv, CorrelateOutInv,
       ErrorsOutInv DEF Step
  <2>2. \A q \in HttpRequests : RequestInv(q)'
    BY <1>2, <2>1, OtherRequest
  <2>3. /\ stack \in {"platform", "gateway"} /\ \A l \in log : l.by \in HttpRequests
        /\ http = [q \in HttpRequests |-> http[q]] /\ bound = [q \in HttpRequests |-> bound[q]]
    BY DEF StackInv
  <2>4. stack' \in {"platform", "gateway"} /\ \A l \in log' : l.by \in HttpRequests
    BY <1>2, <2>3, StepLines
  <2>5. http' = [q \in HttpRequests |-> http'[q]]
    BY <1>2, <2>3, StepLines
  <2>6. bound' = [q \in HttpRequests |-> bound'[q]]
    BY <1>2, <2>3, StepLines
  <2> QED BY <2>2, <2>4, <2>5, <2>6 DEF StackInv
<1> QED BY <1>1, <1>2 DEF HttpNext, Step

\* A failed request that has ended left its line on the way out.
LEMMA StackInvImplies == StackInv => FailuresTraceable /\ HttpTypeOK
<1> SUFFICES ASSUME StackInv PROVE FailuresTraceable /\ HttpTypeOK
  OBVIOUS
<1>1. stack \in {"platform", "gateway"} /\ \A l \in log : l.by \in HttpRequests
  BY DEF StackInv
<1>2. ASSUME NEW l \in log
      PROVE  l.by \in HttpRequests /\ l.id = IdOf(l.by) /\ l.level \in Levels
  <2>1. l.by \in HttpRequests /\ l \in Lines(l.by)
    BY <1>1 DEF Lines
  <2> QED BY <2>1 DEF StackInv, RequestInv, LinesInv
<1>3. ASSUME NEW r \in HttpRequests, http[r].dir = "done"
      PROVE  /\ http[r].raised => stack = "gateway"
             /\ ~http[r].raised => http[r].header = IdOf(r)
             /\ stack = "platform" /\ http[r].status >= 500 =>
                  \/ http[r].path \in Excluded /\ http[r].body = MintedBody(r)
                  \/ \E l \in log : l.by = r /\ l.level = "error" /\ l.id = http[r].header
             /\ stack = "platform" => ~(EndsWith(r, "completed") /\ EndsWith(r, "unhandled"))
             /\ http[r].path = "api" /\ ~http[r].raised =>
                  EndsWith(r, "completed") \/ EndsWith(r, "unhandled")
  <2>1. LeavingInv(r) /\ LinesInv(r) /\ http[r].raised \in BOOLEAN
    BY <1>3 DEF StackInv, RequestInv, Request
  <2>2. /\ http[r].raised => stack = "gateway"
        /\ ~http[r].raised => http[r].header = IdOf(r)
    BY <1>3, <2>1 DEF LeavingInv
  <2>3. stack = "platform" /\ http[r].status >= 500 =>
          \/ http[r].path \in Excluded /\ http[r].body = MintedBody(r)
          \/ \E l \in log : l.by = r /\ l.level = "error" /\ l.id = http[r].header
    <3>1. stack = "platform" /\ http[r].status >= 500 =>
            \/ http[r].path = "probe" /\ http[r].body = MintedBody(r)
            \/ \E l \in Lines(r) : l.level = "error"
      BY <1>3, <2>1 DEF LeavingInv
    <3>2. stack = "platform" => http[r].header = IdOf(r)
      BY <1>3, <2>1, <2>2
    <3>3. \A l \in Lines(r) : l \in log /\ l.by = r /\ l.id = IdOf(r)
      BY <2>1 DEF LinesInv, Lines
    <3> QED BY <3>1, <3>2, <3>3 DEF Excluded
  <2>4. stack = "platform" => ~(EndsWith(r, "completed") /\ EndsWith(r, "unhandled"))
    BY <2>1 DEF LinesInv, EndsWith, Lines
  <2>5. http[r].path = "api" /\ ~http[r].raised =>
          EndsWith(r, "completed") \/ EndsWith(r, "unhandled")
    BY <1>3, <2>1 DEF LeavingInv, EndsWith, Lines
  <2> QED BY <2>2, <2>3, <2>4, <2>5
<1>4. FailuresTraceable
  BY <1>2, <1>3 DEF FailuresTraceable
<1>5. RouteAt = Len(Layers) + 1
  <2>1. CASE stack = "gateway"
    BY <2>1 DEF Layers, RouteAt
  <2>2. CASE stack = "platform"
    BY <2>2 DEF Layers, RouteAt
  <2> QED BY <1>1, <2>1, <2>2
<1>6. ASSUME NEW r \in HttpRequests
      PROVE  /\ http[r].dir \in {"new", "in", "out", "done"} /\ http[r].said \in 0..MaxLines
             /\ http[r].at \in 0..Len(Layers) + 1
             /\ http[r].status \in {0, 200} \cup PlatformStatuses
             /\ http[r].header \in Ids \cup {Absent}
             /\ http[r].raised => http[r].header = Absent
             /\ bound[r] \in Ids \cup {Absent}
  <2>1. http[r] \in Request(r) /\ LeavingInv(r) /\ bound[r] \in Ids \cup {Absent}
    BY DEF StackInv, RequestInv
  <2>2. /\ http[r].dir \in {"new", "in", "out", "done"} /\ http[r].said \in 0..MaxLines
        /\ http[r].at \in 0..RouteAt /\ http[r].status \in Statuses
        /\ http[r].header \in Ids \cup {Absent}
    BY <2>1 DEF Request
  <2>3. http[r].raised => http[r].header = Absent
    BY <2>1 DEF LeavingInv
  <2> QED BY <1>5, <2>1, <2>2, <2>3, StatusesAre
<1>7. bound \in [HttpRequests -> Ids \cup {Absent}]
  <2>1. bound = [r \in HttpRequests |-> bound[r]]
    BY DEF StackInv
  <2> QED BY <1>6, <2>1
<1>8. HttpTypeOK
  BY <1>1, <1>2, <1>6, <1>7 DEF HttpTypeOK, Levels
<1> QED BY <1>4, <1>8
-----------------------------------------------------------------------------
\* Side by side: every step of the composition is a step of one component, or
\* leaves it alone.
GatewayInv == PoolInv /\ DivergenceInv /\ FeedInv /\ PlaceInv /\ TornInv /\ StackInv

\* A step of the composition is a step or a stutter of each part.
LEMMA GatewayParts ==
  [GatewayNext]_gatewayVars =>
    /\ [IngestNext]_ingestVars /\ [FeedNext]_feedVars /\ [DashNext]_dashVars
    /\ [MetricsNext]_metricsVars /\ [HttpNext]_httpVars
BY Zenon DEF GatewayNext, gatewayVars, IngestStep, FeedStep, DashStep, MetricsStep, HttpStep

\* The invariants of the parts hold of the composition.
LEMMA GatewayInvariant == GatewaySpec => []GatewayInv
<1>1. GatewayInit => GatewayInv
  BY PoolInvInit, DivergenceInvInit, FeedInvInit, PlaceInvInit, TornInvInit, StackInvInit
     DEF GatewayInit, GatewayInv
<1>2. GatewayInv /\ [GatewayNext]_gatewayVars => GatewayInv'
  <2> SUFFICES ASSUME GatewayInv, [GatewayNext]_gatewayVars PROVE GatewayInv'
    OBVIOUS
  <2>1. /\ [IngestNext]_ingestVars /\ [FeedNext]_feedVars /\ [DashNext]_dashVars
        /\ [MetricsNext]_metricsVars /\ [HttpNext]_httpVars
    BY GatewayParts
  <2>2. PoolInv' /\ DivergenceInv'
    BY <2>1, PoolInvStep, DivergenceInvStep DEF GatewayInv, PoolInv
  <2>3. FeedInv' /\ PlaceInv'
    BY <2>1, FeedInvStep, PlaceInvStep DEF GatewayInv
  <2>4. TornInv' /\ StackInv'
    BY <2>1, TornInvStep, StackInvStep DEF GatewayInv
  <2> QED BY <2>2, <2>3, <2>4 DEF GatewayInv
<1> QED BY <1>1, <1>2, PTL DEF GatewaySpec

\* The state of every component is well-typed.
THEOREM GatewayTypeCorrect == GatewaySpec => []GatewayTypeOK
<1>1. GatewayInv => GatewayTypeOK
  BY StackInvImplies
     DEF GatewayInv, GatewayTypeOK, PoolInv, FeedInv, PlaceInv, TornInv
<1> QED BY <1>1, GatewayInvariant, PTL

\* A connection of the pool is in use exactly while a session holds it, however
\* requests, faults and cancellations interleave (database.py, get_session).
THEOREM ConnectionsCorrect == GatewaySpec => []ConnectionsReturned
<1>1. GatewayInv => ConnectionsReturned
  BY DEF GatewayInv, PoolInv
<1> QED BY <1>1, GatewayInvariant, PTL

\* A request answered 202 lacks its row or its event, and one answered otherwise has
\* an event, only for a fault the code met on the way (create_transaction: insert,
\* commit, publish).
THEOREM DivergenceCorrect == GatewaySpec => []DivergenceNeedsCause
<1>1. GatewayInv => DivergenceNeedsCause
  BY DEF GatewayInv, DivergenceInv
<1> QED BY <1>1, GatewayInvariant, PTL

\* The live feed: no connection is sent a message twice, and one that stays misses
\* it only for a connection that left the list under the iterator (stream.py).
THEOREM BroadcastCorrect == GatewaySpec => []BroadcastReaches
<1>1. GatewayInv => BroadcastReaches
  BY FeedInvImplies DEF GatewayInv
<1> QED BY <1>1, GatewayInvariant, PTL

\* A record of the dashboards is in one place only, and none disappears
\* (customer-profile, sse_generator over the shared queues).
THEOREM PlaceCorrect == GatewaySpec => []EachRecordInOnePlace
<1>1. GatewayInv => EachRecordInOnePlace
  BY PlaceInvImplies DEF GatewayInv
<1> QED BY <1>1, GatewayInvariant, PTL

\* The answer of get_metrics, read counter by counter while replicas count, shows no
\* more fraud or blocked transactions than the total that Redis has when the last GET
\* returns, and no more volume than the amounts of the transactions in that total.
THEOREM TornReadCorrect == GatewaySpec => []TornReadBounded
<1>1. GatewayInv => TornReadBounded
  BY TornInvImplies DEF GatewayInv
<1> QED BY <1>1, GatewayInvariant, PTL

\* Every line about a request and its answer carry its correlation id, and every
\* failure leaves a line that names it (middleware.py).
THEOREM TraceableCorrect == GatewaySpec => []FailuresTraceable
<1>1. GatewayInv => FailuresTraceable
  BY StackInvImplies DEF GatewayInv
<1> QED BY <1>1, GatewayInvariant, PTL
=============================================================================
