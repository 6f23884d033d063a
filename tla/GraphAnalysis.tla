---------------------------- MODULE GraphAnalysis ---------------------------
(***************************************************************************)
(* The graph analysis service: AnalyzeGraph adds a transaction to Neo4j    *)
(* and then runs three queries about its neighbourhood, in up to ten       *)
(* threads.  The ids are not constrained to be unique, so a MERGE that     *)
(* does not see the uncommitted node of another one creates a second node. *)
(* Merchants and the transaction edges play no part in the queries.        *)
(* Scores are in tenths.                                                   *)
(***************************************************************************)
EXTENDS Integers, FiniteSets

CONSTANTS MaxAnalyses, \* bound: calls of AnalyzeGraph and DetectPatterns
          Cards, Devices, IPs

ASSUME GraphAssumption == MaxAnalyses \in Nat

VARIABLES
  nodes,     \* [label, id, by]: by is the call that created it
  hasDevice, \* pairs of a card node and a device node
  hasIP,     \* pairs of a device node and an IP node
  calls,     \* per call: where it is, its request and the rows its queries returned
  merging,   \* per call, the nodes its MERGEs matched or made, not yet committed
  added,     \* history: calls whose addition was committed
  collided   \* history: two additions with an id in common overlapped

graphVars == <<nodes, hasDevice, hasIP, calls, merging, added, collided>>

Analyses == 1..MaxAnalyses   \* in the order in which they come
Labels == {"card", "device", "ip"}
Requests == [card : Cards, device : Devices, ip : IPs]
Call(r) == [at |-> "idle", req |-> r, shared |-> {}, cluster |-> {}, ring |-> {}, score |-> 0]

IsNode(n) == n.label \in Labels /\ n.by \in Analyses

GraphTypeOK ==
  /\ \A n \in nodes : IsNode(n)
  /\ \A e \in hasDevice : e \in nodes \X nodes /\ e[1].label = "card" /\ e[2].label = "device"
  /\ \A e \in hasIP : e \in nodes \X nodes /\ e[1].label = "device" /\ e[2].label = "ip"
  /\ \A a \in Analyses :
       /\ calls[a].at \in {"idle", "add", "sharing", "cluster", "ring", "done", "failed"}
       /\ calls[a].req \in Requests
       /\ calls[a].shared \subseteq hasDevice /\ calls[a].cluster \subseteq hasIP
       /\ calls[a].score \in 0..10
       /\ calls[a].at # "add" => merging[a] = {}
  /\ added \subseteq Analyses /\ collided \in BOOLEAN

GraphInit ==
  /\ nodes = {} /\ hasDevice = {} /\ hasIP = {}
  /\ \E req \in [Analyses -> Requests] : calls = [a \in Analyses |-> Call(req[a])]
  /\ merging = [a \in Analyses |-> {}]
  /\ added = {} /\ collided = FALSE
-----------------------------------------------------------------------------
\* MERGE of a node: every committed node with the id, or a new one.
Merge(a, label, id) ==
  LET found == {n \in nodes : n.label = label /\ n.id = id}
  IN IF found # {} THEN found ELSE {[label |-> label, id |-> id, by |-> a]}

Common(r, q) == r.card = q.card \/ r.device = q.device \/ r.ip = q.ip

\* The query runs in its own transaction: it sees what is committed.
BeginAdd(a) ==
  LET r == calls[a].req IN
  /\ calls[a].at = "idle" /\ \A b \in 1..a - 1 : calls[b].at # "idle"
  /\ calls' = [calls EXCEPT ![a].at = "add"]
  /\ merging' = [merging EXCEPT ![a] = Merge(a, "card", r.card)
                   \cup Merge(a, "device", r.device) \cup Merge(a, "ip", r.ip)]
  /\ collided' = (collided \/ \E b \in Analyses \ {a} :
                                calls[b].at = "add" /\ Common(calls[b].req, r))
  /\ UNCHANGED <<nodes, hasDevice, hasIP, added>>

Merged(a, label) == {n \in merging[a] : n.label = label}

\* Mutant: the card is linked to every device of the graph.
CommitAddLoose(a) ==
  /\ calls[a].at = "add"
  /\ nodes' = nodes \cup merging[a]
  /\ hasDevice' = hasDevice \cup (Merged(a, "card") \X {n \in nodes' : n.label = "device"})
  /\ hasIP' = hasIP \cup (Merged(a, "device") \X Merged(a, "ip"))
  /\ merging' = [merging EXCEPT ![a] = {}]
  /\ added' = added \cup {a}
  /\ calls' = [calls EXCEPT ![a].at = "sharing"]
  /\ UNCHANGED collided

\* The transaction commits when the session is closed: a relationship for every
\* pair of the nodes its MERGEs are bound to.
CommitAdd(a) ==
  /\ calls[a].at = "add"
  /\ nodes' = nodes \cup merging[a]
  /\ hasDevice' = hasDevice \cup (Merged(a, "card") \X Merged(a, "device"))
  /\ hasIP' = hasIP \cup (Merged(a, "device") \X Merged(a, "ip"))
  /\ merging' = [merging EXCEPT ![a] = {}]
  /\ added' = added \cup {a}
  /\ calls' = [calls EXCEPT ![a].at = "sharing"]
  /\ UNCHANGED collided

\* Nothing is added: the error is raised, which answers an empty result, or
\* closing the session swallows it, and the analysis goes on.
AddFails(a) ==
  /\ calls[a].at = "add"
  /\ merging' = [merging EXCEPT ![a] = {}]
  /\ \E where \in {"failed", "sharing"} : calls' = [calls EXCEPT ![a].at = where]
  /\ UNCHANGED <<nodes, hasDevice, hasIP, added, collided>>

\* Mutant: the sum is not cut off.
FindsUnbounded(a, points) == calls[a].score + points

Finds(a, points) ==
  IF calls[a].score + points > 10 THEN 10 ELSE calls[a].score + points

\* check_device_sharing returns one row per relationship, which names its card:
\* two devices with the id, or two nodes of one card, give two rows.  MERGE locks
\* the ends of a relationship, so that two nodes have one of a kind at most.
CheckDeviceSharing(a) ==
  LET rows == {e \in hasDevice : e[2].id = calls[a].req.device} IN
  /\ calls[a].at = "sharing"
  /\ calls' = [calls EXCEPT ![a].at = "cluster", ![a].shared = rows,
                 ![a].score = IF Cardinality(rows) > 1 THEN Finds(a, 4) ELSE @]
  /\ UNCHANGED <<nodes, hasDevice, hasIP, merging, added, collided>>

\* check_ip_cluster: a row per relationship, which names its device.
CheckIpCluster(a) ==
  LET rows == {e \in hasIP : e[2].id = calls[a].req.ip} IN
  /\ calls[a].at = "cluster"
  /\ calls' = [calls EXCEPT ![a].at = "ring", ![a].cluster = rows,
                 ![a].score = IF Cardinality(rows) > 1 THEN Finds(a, 3) ELSE @]
  /\ UNCHANGED <<nodes, hasDevice, hasIP, merging, added, collided>>

\* detect_fraud_ring: card, device, IP, another device, another card node; a
\* pattern uses no relationship twice, so the devices differ.
DetectFraudRing(a) ==
  LET linked == {e \in hasDevice :
                   \E f \in hasDevice, g \in hasIP :
                     /\ f[1].id = calls[a].req.card /\ f[1] # e[1] /\ f[2] # e[2]
                     /\ g[1] = f[2] /\ <<e[2], g[2]>> \in hasIP}
  IN
  /\ calls[a].at = "ring"
  /\ calls' = [calls EXCEPT ![a].at = "done", ![a].ring = {e[1].id : e \in linked},
                 ![a].score = IF linked # {} THEN Finds(a, 5) ELSE @]
  /\ UNCHANGED <<nodes, hasDevice, hasIP, merging, added, collided>>

\* A query raises: the call ends with an error.
QueryFails(a) ==
  /\ calls[a].at \in {"sharing", "cluster", "ring"}
  /\ calls' = [calls EXCEPT ![a].at = "failed", ![a].score = 0]
  /\ UNCHANGED <<nodes, hasDevice, hasIP, merging, added, collided>>

GraphNext ==
  \E a \in Analyses :
    \/ BeginAdd(a) \/ CommitAdd(a) \/ AddFails(a) \/ CheckDeviceSharing(a)
    \/ CheckIpCluster(a) \/ DetectFraudRing(a) \/ QueryFails(a)

GraphSpec == GraphInit /\ [][GraphNext]_graphVars
-----------------------------------------------------------------------------
Named(rows) == {e[1].id : e \in rows}
Used(part, id, other) == {calls[b].req[part] : b \in {b \in added : calls[b].req[other] = id}}

\* A path of transactions that were added: card, device, address, device, card.
Linked(card, other) ==
  \E b1, b2, b3, b4 \in added :
    LET r1 == calls[b1].req  r2 == calls[b2].req  r3 == calls[b3].req  r4 == calls[b4].req
    IN /\ r1.card = card /\ r1.device = r2.device /\ r2.ip = r3.ip
       /\ r3.device = r4.device /\ r4.card = other
       /\ r1.device # r4.device \/ collided

\* What an analysis finds, it finds in transactions that were added: the cards
\* of its device, the devices of its address, and a ring only over two devices
\* that were used at one address.  It always finds its own card and device unless
\* its addition was lost.  And unless two additions with an id in common ever
\* overlapped, no card or device gives two rows, a card forms no ring with itself,
\* and one card on one device has no score (service.py:50-98).
FindingsExplained ==
  \A a \in Analyses :
    LET req == calls[a].req IN
    /\ Named(calls[a].shared) \subseteq Used("card", req.device, "device")
    /\ Named(calls[a].cluster) \subseteq Used("device", req.ip, "ip")
    /\ \A c \in calls[a].ring : Linked(req.card, c)
    /\ calls[a].at \in {"cluster", "ring", "done"} /\ a \in added =>
         req.card \in Named(calls[a].shared)
    /\ calls[a].at \in {"ring", "done"} /\ a \in added => req.device \in Named(calls[a].cluster)
    /\ ~collided =>
         /\ Cardinality(Named(calls[a].shared)) = Cardinality(calls[a].shared)
         /\ Cardinality(Named(calls[a].cluster)) = Cardinality(calls[a].cluster)
         /\ req.card \notin calls[a].ring
         /\ calls[a].score > 0 =>
              \E b1, b2 \in added : \/ calls[b1].req.card # calls[b2].req.card
                                   \/ calls[b1].req.device # calls[b2].req.device
=============================================================================
