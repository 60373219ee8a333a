-------------------------- MODULE LeaderLeaseProofs --------------------------
(* Proofs about LeaderLease, for any number of replicas and any lease, tick  *)
(* and timeout that LeaseAssumption allows.                                  *)
EXTENDS LeaderLease, TLAPS

(* What the constants of the election loop imply about the bounds.           *)
LEMMA Bounds ==
  /\ Lease \in Nat /\ Tick \in Nat /\ Timeout \in Nat
  /\ Tick > 0 /\ Timeout > 0 /\ Timeout < Tick /\ Tick + Timeout < Lease
  /\ MaxLate \in Nat /\ MaxLate = Tick + Timeout - 1
  /\ Oldest = -(Timeout + 1)
  /\ Stranger \notin Nodes
  BY LeaseAssumption DEF MaxLate, Oldest

LEMMA FloorBounds ==
  ASSUME NEW x \in Int, NEW low \in Int
  PROVE  Floor(x, low) \in Int /\ Floor(x, low) >= low /\ Floor(x, low) >= x
         /\ (x >= low => Floor(x, low) = x)
  BY DEF Floor

NodeType ==
  [phase : {"down", "idle", "ask", "won", "lost", "incident", "release"},
   boot : BOOLEAN, leads : BOOLEAN, valid : -(MaxLate + 1)..Lease,
   lapsed : BOOLEAN, tick : 1..Tick, due : BOOLEAN, age : 0..Timeout]

LEMMA NodeFields ==
  ASSUME TypeOK, NEW n \in Nodes
  PROVE  /\ node[n] \in NodeType
         /\ node[n].phase \in {"down", "idle", "ask", "won", "lost", "incident", "release"}
         /\ node[n].boot \in BOOLEAN /\ node[n].leads \in BOOLEAN
         /\ node[n].lapsed \in BOOLEAN /\ node[n].due \in BOOLEAN
         /\ node[n].valid \in Int /\ node[n].valid >= -(MaxLate + 1)
         /\ node[n].valid <= Lease
         /\ node[n].tick \in Int /\ node[n].tick >= 1 /\ node[n].tick <= Tick
         /\ node[n].age \in Int /\ node[n].age >= 0 /\ node[n].age <= Timeout
         /\ DOMAIN node = Nodes
  BY Bounds DEF TypeOK, NodeType

LEMMA DownTyped == DownNode \in NodeType
  BY Bounds DEF DownNode, NodeType

LEMMA ReturnedTyped ==
  ASSUME TypeOK, NEW n \in Nodes, NEW l \in BOOLEAN,
         NEW v \in -(MaxLate + 1)..Lease
  PROVE  Returned(n, l, v) \in NodeType
  <1> DEFINE w == IF l THEN v ELSE 0
  <1>1. w \in -(MaxLate + 1)..Lease
    BY Bounds
  <1> HIDE DEF w
  <1>2. [node[n] EXCEPT !.phase = "idle", !.boot = FALSE, !.lapsed = FALSE,
           !.age = 0, !.leads = l, !.valid = w] \in NodeType
    <2>1. 0 \in 0..Timeout
      BY Bounds
    <2>2. QED
      BY <1>1, <2>1, NodeFields, Zenon DEF NodeType
  <1>3. QED
    BY <1>2 DEF Returned, w

LEMMA LaterTyped ==
  ASSUME TypeOK, NEW n \in Nodes
  PROVE  Later(n) \in NodeType
  <1>1. Floor(node[n].valid - 1, -(MaxLate + 1)) \in -(MaxLate + 1)..Lease
    BY NodeFields, Bounds DEF Floor
  <1> DEFINE t == IF Fires(n) THEN Tick
                  ELSE IF Ticking(n) THEN node[n].tick - 1 ELSE node[n].tick
             d == node[n].due \/ Fires(n)
             a == IF node[n].age < Timeout
                       /\ node[n].phase \notin {"down", "idle", "incident"}
                    THEN node[n].age + 1 ELSE node[n].age
             v == IF node[n].leads THEN Floor(node[n].valid - 1, -(MaxLate + 1))
                                   ELSE node[n].valid
  <1>2. t \in 1..Tick
    BY NodeFields, Bounds DEF Fires
  <1>3. a \in 0..Timeout /\ v \in -(MaxLate + 1)..Lease
    BY <1>1, NodeFields, Bounds
  <1>4. d \in BOOLEAN
    OBVIOUS
  <1> HIDE DEF t, d, a, v
  <1>5. [node[n] EXCEPT !.tick = t, !.due = d, !.age = a, !.valid = v] \in NodeType
    BY <1>2, <1>3, <1>4, NodeFields DEF NodeType
  <1>6. QED
    BY <1>5 DEF Later, t, d, a, v

(* A step of one replica that leaves it in state x.                          *)
LEMMA OneMoved ==
  ASSUME TypeOK, NEW n \in Nodes, NEW x, node' = [node EXCEPT ![n] = x]
  PROVE  node'[n] = x /\ \A m \in Nodes : m # n => node'[m] = node[m]
  BY DEF TypeOK

LEMMA ReturnedFields ==
  ASSUME TypeOK, NEW n \in Nodes, NEW l \in BOOLEAN, NEW v \in Int
  PROVE  LET x == Returned(n, l, v) IN
         /\ x.phase = "idle" /\ x.boot = FALSE /\ x.leads = l
         /\ x.tick = node[n].tick /\ x.due = node[n].due
         /\ x.valid = IF l THEN v ELSE 0
  BY NodeFields DEF Returned, NodeType

LEMMA LaterFields ==
  ASSUME TypeOK, NEW n \in Nodes
  PROVE  LET x == Later(n) IN
         /\ x.phase = node[n].phase /\ x.boot = node[n].boot
         /\ x.leads = node[n].leads /\ x.lapsed = node[n].lapsed
         /\ x.tick = IF Fires(n) THEN Tick
                     ELSE IF Ticking(n) THEN node[n].tick - 1 ELSE node[n].tick
         /\ x.due = (node[n].due \/ Fires(n))
         /\ x.age = IF node[n].age < Timeout
                        /\ node[n].phase \notin {"down", "idle", "incident"}
                     THEN node[n].age + 1 ELSE node[n].age
         /\ x.valid = IF node[n].leads
                      THEN Floor(node[n].valid - 1, -(MaxLate + 1))
                      ELSE node[n].valid
  BY NodeFields DEF Later, NodeType

(* The inductive invariant.                                                  *)
LEMMA LeaseInit == Init => LeaseInv
  <1> SUFFICES ASSUME Init PROVE LeaseInv
    OBVIOUS
  <1>1. TypeOK
    <2>1. node \in [Nodes -> NodeType]
      BY DownTyped DEF Init
    <2>2. lease \in [holder : Nodes \cup {Stranger}, left : Oldest..Lease]
      BY Bounds DEF Init
    <2>3. QED
      BY <2>1, <2>2 DEF Init, TypeOK, NodeType
  <1>2. \A n \in Nodes : /\ node[n].phase = "down" /\ node[n].leads = FALSE
                        /\ node[n].boot = FALSE
    BY DEF Init, DownNode
  <1>3. QED
    BY <1>1, <1>2 DEF LeaseInv, LoopOK, WonHoldsRow, LeaseBacksLeader,
       RenewsInTime, Leaders, Calling

LEMMA LeaseStep == LeaseInv /\ [Next]_vars => LeaseInv'
  <1> SUFFICES ASSUME LeaseInv, [Next]_vars PROVE LeaseInv'
    OBVIOUS
  <1> USE DEF LeaseInv
  <1>1. ASSUME NEW n \in Nodes, Boot(n) PROVE LeaseInv'
    <2> DEFINE x == [DownNode EXCEPT !.phase = "ask", !.boot = TRUE]
    <2>1. /\ x \in NodeType /\ x.phase = "ask" /\ x.boot = TRUE
          /\ x.leads = FALSE /\ x.tick = Tick /\ x.due = FALSE
      <3>1. x \in NodeType
        BY DownTyped, Zenon DEF NodeType
      <3>2. /\ x.phase = "ask" /\ x.boot = TRUE /\ x.leads = FALSE
            /\ x.tick = Tick /\ x.due = FALSE
        BY DEF DownNode
      <3>3. QED
        BY <3>1, <3>2
    <2>2. node' = [node EXCEPT ![n] = x]
      BY <1>1 DEF Boot
    <2> HIDE DEF x
    <2>3. node'[n] = x /\ \A m \in Nodes : m # n => node'[m] = node[m]
      BY <2>2, OneMoved
    <2>4. /\ lease'.left = lease.left
          /\ \A m \in Nodes : m # n /\ lease.holder = m => lease'.holder = m
          /\ UNCHANGED <<robbed, stable>>
          /\ lease' \in [holder : Nodes \cup {Stranger}, left : Oldest..Lease]
      BY <1>1 DEF Boot, TypeOK
    <2>5. TypeOK'
      BY <2>1, <2>2, <2>4 DEF TypeOK, NodeType
    <2>6. LoopOK'
      BY <2>1, <2>3 DEF LoopOK, Calling
    <2>7. WonHoldsRow'
      BY <2>1, <2>3, <2>4 DEF WonHoldsRow
    <2>8. LeaseBacksLeader'
      BY <2>1, <2>3, <2>4 DEF LeaseBacksLeader, Leaders
    <2>9. RenewsInTime'
      BY <2>1, <2>3 DEF RenewsInTime, Leaders, AtNextCall, Calling
    <2>10. QED
      BY <2>5, <2>6, <2>7, <2>8, <2>9
  <1>2. ASSUME NEW n \in Nodes, Elect(n) PROVE LeaseInv'
    <2> DEFINE x == [node[n] EXCEPT !.phase = "ask", !.age = 0, !.due = FALSE,
                                    !.lapsed = node[n].valid <= 0]
    <2>1. node' = [node EXCEPT ![n] = x]
      BY <1>2 DEF Elect
    <2>2. x \in NodeType
      <3>1. 0 \in 0..Timeout
        BY Bounds
      <3>2. (node[n].valid <= 0) \in BOOLEAN
        BY NodeFields
      <3>3. QED
        BY <3>1, <3>2, NodeFields, Zenon DEF NodeType
    <2>3. /\ x.phase = "ask" /\ x.age = 0 /\ x.tick = node[n].tick /\ x.due = FALSE
          /\ x.lapsed = (node[n].valid <= 0) /\ x.boot = node[n].boot
          /\ x.leads = node[n].leads /\ x.valid = node[n].valid
      BY NodeFields DEF NodeType
    <2> HIDE DEF x
    <2>4. node'[n] = x /\ \A m \in Nodes : m # n => node'[m] = node[m]
      BY <2>1, OneMoved
    <2>5. UNCHANGED <<lease, robbed, stable>>
      BY <1>2 DEF Elect
    <2>6. node[n].phase = "idle" /\ node[n].due = TRUE /\ node[n].boot = FALSE
      BY <1>2, NodeFields DEF Elect, LoopOK, Calling
    <2>7. TypeOK'
      BY <2>1, <2>2, <2>5 DEF TypeOK, NodeType
    <2>8. LoopOK'
      BY <2>3, <2>4, <2>6, NodeFields, Bounds DEF LoopOK, Calling
    <2>9. WonHoldsRow'
      BY <2>3, <2>4, <2>5 DEF WonHoldsRow
    <2>10. LeaseBacksLeader'
      BY <2>3, <2>4, <2>5 DEF LeaseBacksLeader, Leaders
    <2>11. RenewsInTime'
      BY <2>3, <2>4, <2>6, NodeFields DEF RenewsInTime, Leaders, AtNextCall,
         Calling
    <2>12. QED
      BY <2>7, <2>8, <2>9, <2>10, <2>11
  <1>3. ASSUME NEW n \in Nodes, TryAcquireLease(n) PROVE LeaseInv'
    <2>1. CASE Free(n) /\ lease' = [holder |-> n, left |-> Lease - node[n].age]
               /\ node' = [node EXCEPT ![n].phase = "won"]
               /\ robbed' = robbed \ {n} /\ stable' = stable
      <3> DEFINE x == [node[n] EXCEPT !.phase = "won"]
      <3>1. /\ x \in NodeType /\ x.phase = "won" /\ x.age = node[n].age
            /\ x.tick = node[n].tick /\ x.lapsed = node[n].lapsed /\ x.due = node[n].due
            /\ x.boot = node[n].boot /\ x.leads = node[n].leads
            /\ x.valid = node[n].valid
        BY NodeFields DEF NodeType
      <3>2. node' = [node EXCEPT ![n] = x]
        BY <2>1
      <3> HIDE DEF x
      <3>3. node'[n] = x /\ \A m \in Nodes : m # n => node'[m] = node[m]
        BY <3>2, OneMoved
      <3>4. node[n].phase = "ask"
        BY <1>3 DEF TryAcquireLease
      <3>5. lease'.holder = n /\ lease'.left = Lease - node[n].age
        BY <2>1
      <3>6. \A m \in Nodes \ robbed : m # n =>
              /\ node[m].phase # "won"
              /\ ~(node[m].leads /\ node[m].valid > 0)
        BY <2>1, NodeFields, Bounds DEF Free, WonHoldsRow, LeaseBacksLeader,
           Leaders, TypeOK
      <3>7. TypeOK'
        BY <2>1, <3>1, <3>2, NodeFields, Bounds DEF TypeOK, NodeType
      <3>8. LoopOK'
        BY <3>1, <3>3, <3>4 DEF LoopOK, Calling
      <3>9. WonHoldsRow'
        BY <2>1, <3>1, <3>3, <3>5, <3>6, NodeFields, Bounds DEF WonHoldsRow
      <3>10. LeaseBacksLeader'
        <4>1. node[n].leads => node[n].valid + node[n].age <= Lease
          BY <3>4 DEF LoopOK, Calling
        <4>2. QED
          BY <2>1, <3>1, <3>3, <3>5, <3>6, <4>1, NodeFields, Bounds
             DEF LeaseBacksLeader, Leaders
      <3>11. RenewsInTime'
        BY <3>1, <3>3, <3>4 DEF RenewsInTime, Leaders, AtNextCall, Calling
      <3>12. QED
        BY <3>7, <3>8, <3>9, <3>10, <3>11
    <2>2. CASE node' = [node EXCEPT ![n].phase = "lost"]
               /\ UNCHANGED <<lease, robbed, stable>>
      <3> DEFINE x == [node[n] EXCEPT !.phase = "lost"]
      <3>1. /\ x \in NodeType /\ x.phase = "lost" /\ x.age = node[n].age
            /\ x.tick = node[n].tick /\ x.lapsed = node[n].lapsed /\ x.due = node[n].due
            /\ x.boot = node[n].boot /\ x.leads = node[n].leads
            /\ x.valid = node[n].valid
        BY NodeFields DEF NodeType
      <3>2. node' = [node EXCEPT ![n] = x]
        BY <2>2
      <3> HIDE DEF x
      <3>3. node'[n] = x /\ \A m \in Nodes : m # n => node'[m] = node[m]
        BY <3>2, OneMoved
      <3>4. node[n].phase = "ask"
        BY <1>3 DEF TryAcquireLease
      <3>5. TypeOK'
        BY <2>2, <3>1, <3>2 DEF TypeOK, NodeType
      <3>6. LoopOK'
        BY <3>1, <3>3, <3>4 DEF LoopOK, Calling
      <3>7. WonHoldsRow' /\ LeaseBacksLeader'
        BY <2>2, <3>1, <3>3 DEF WonHoldsRow, LeaseBacksLeader, Leaders
      <3>8. RenewsInTime'
        BY <3>1, <3>3, <3>4 DEF RenewsInTime, Leaders, AtNextCall, Calling
      <3>9. QED
        BY <3>5, <3>6, <3>7, <3>8
    <2>3. QED
      BY <1>3, <2>1, <2>2 DEF TryAcquireLease
  <1>4. ASSUME NEW n \in Nodes, Answered(n) PROVE LeaseInv'
    <2> DEFINE l == node[n].phase = "won"
               v == Lease - node[n].age
               x == Returned(n, l, v)
    <2>1. /\ node' = [node EXCEPT ![n] = x]
          /\ robbed \ {n} \subseteq robbed' /\ robbed' \subseteq Nodes
          /\ l => robbed' = robbed
          /\ UNCHANGED <<lease, stable>> /\ Calling(n)
      BY <1>4 DEF Answered, TypeOK, Calling
    <2>2. l \in BOOLEAN /\ v \in (Lease - Timeout)..Lease
          /\ v \in -(MaxLate + 1)..Lease
      BY NodeFields, Bounds
    <2>3. x \in NodeType
      BY <2>2, ReturnedTyped
    <2>4. /\ x.phase = "idle" /\ x.boot = FALSE /\ x.leads = l
          /\ x.tick = node[n].tick /\ x.due = node[n].due
          /\ x.valid = IF l THEN v ELSE 0
      <3>1. v \in Int
        BY NodeFields, Bounds
      <3> HIDE DEF l, v
      <3>2. QED
        BY <2>2, <3>1, ReturnedFields
    <2> HIDE DEF x
    <2>5. node'[n] = x /\ \A m \in Nodes : m # n => node'[m] = node[m]
      BY <2>1, OneMoved
    <2>6. TypeOK'
      BY <2>1, <2>3 DEF TypeOK, NodeType
    <2>7. LoopOK'
      BY <2>4, <2>5 DEF LoopOK, Calling
    <2>8. WonHoldsRow'
      BY <2>1, <2>4, <2>5 DEF WonHoldsRow
    <2>9. LeaseBacksLeader'
      <3>1. l /\ n \notin robbed =>
              lease.holder = n /\ lease.left >= v
        BY NodeFields, Bounds DEF WonHoldsRow, TypeOK
      <3>2. QED
        BY <2>1, <2>4, <2>5, <3>1 DEF LeaseBacksLeader, Leaders
    <2>10. RenewsInTime'
      <3>1. node'[n].leads => node'[n].valid = v /\ ~Calling(n)'
        BY <2>4, <2>5 DEF Calling
      <3>2. node[n].due \/ node[n].tick + node[n].age <= Tick + Timeout
        BY <2>1, NodeFields, Bounds DEF LoopOK
      <3>3. node'[n].leads => AtNextCall(n)' > -Tick
        <4>1. v > -Tick /\ (node[n].due \/ v - node[n].tick > -Tick)
          BY <2>2, <3>2, NodeFields, Bounds
        <4>2. node'[n].leads => AtNextCall(n)' = IF node[n].due THEN v ELSE v - node[n].tick
          BY <2>4, <2>5, <3>1, NodeFields DEF AtNextCall
        <4> QED
          BY <4>1, <4>2
      <3>4. \A m \in Nodes : m # n => AtNextCall(m)' = AtNextCall(m) /\ Calling(m)' = Calling(m)
        BY <2>5 DEF AtNextCall, Calling
      <3>5. QED
        BY <2>5, <3>1, <3>3, <3>4 DEF RenewsInTime, Leaders
    <2>11. QED
      BY <2>6, <2>7, <2>8, <2>9, <2>10
  <1>5. ASSUME NEW n \in Nodes, RenewFailed(n) PROVE LeaseInv'
    <2>1. UNCHANGED <<lease, robbed, stable>> /\ Calling(n)
      BY <1>5 DEF RenewFailed
    <2>2. CASE node[n].leads /\ node[n].lapsed
      <3> DEFINE x == [node[n] EXCEPT !.phase = "incident", !.age = 0]
      <3>1. /\ x \in NodeType /\ x.phase = "incident" /\ x.tick = node[n].tick
            /\ x.lapsed = TRUE /\ x.due = node[n].due
            /\ x.boot = node[n].boot /\ x.leads = TRUE /\ x.valid = node[n].valid
        <4>1. 0 \in 0..Timeout
          BY Bounds
        <4>2. x \in NodeType
          BY <4>1, NodeFields, Zenon DEF NodeType
        <4>3. /\ x.phase = "incident" /\ x.tick = node[n].tick
              /\ x.lapsed = node[n].lapsed /\ x.due = node[n].due
              /\ x.boot = node[n].boot /\ x.leads = node[n].leads /\ x.valid = node[n].valid
          BY NodeFields DEF NodeType
        <4>4. node[n].leads = TRUE /\ node[n].lapsed = TRUE
          BY <2>2, NodeFields
        <4> HIDE DEF x
        <4> QED
          BY <4>2, <4>3, <4>4
      <3>2. node' = [node EXCEPT ![n] = x]
        BY <1>5, <2>2 DEF RenewFailed
      <3> HIDE DEF x
      <3>3. node'[n] = x /\ \A m \in Nodes : m # n => node'[m] = node[m]
        BY <3>2, OneMoved
      <3>4. node[n].boot = FALSE /\ node[n].valid <= 0
        <4>1. n \in Leaders /\ AtNextCall(n) = node[n].valid + node[n].age
          BY <2>1, <2>2 DEF Leaders, AtNextCall, Calling
        <4>2. AtNextCall(n) <= 0
          BY <2>1, <2>2, <4>1 DEF RenewsInTime
        <4>3. node[n].boot = FALSE
          BY <2>1, <2>2, NodeFields DEF LoopOK
        <4>4. node[n].valid \in Int /\ node[n].age \in Int /\ node[n].age >= 0
          BY NodeFields
        <4> QED
          BY <4>1, <4>2, <4>3, <4>4
      <3>5. TypeOK'
        BY <2>1, <3>1, <3>2 DEF TypeOK, NodeType
      <3>6. LoopOK'
        BY <3>1, <3>3, <3>4 DEF LoopOK, Calling
      <3>7. WonHoldsRow' /\ LeaseBacksLeader'
        BY <2>1, <2>2, <3>1, <3>3 DEF WonHoldsRow, LeaseBacksLeader, Leaders
      <3>8. RenewsInTime'
        BY <3>1, <3>3 DEF RenewsInTime, Leaders, AtNextCall, Calling
      <3> QED
        BY <3>5, <3>6, <3>7, <3>8
    <2>3. CASE ~(node[n].leads /\ node[n].lapsed)
      <3> DEFINE l == node[n].leads
                 v == node[n].valid
                 x == Returned(n, l, v)
      <3>1. node' = [node EXCEPT ![n] = x]
        BY <1>5, <2>3 DEF RenewFailed
      <3>2. l \in BOOLEAN /\ v \in Int /\ v \in -(MaxLate + 1)..Lease
        BY NodeFields, Bounds
      <3>3. x \in NodeType
        BY <3>2, ReturnedTyped
      <3>4. /\ x.phase = "idle" /\ x.boot = FALSE /\ x.leads = l
            /\ x.tick = node[n].tick /\ x.due = node[n].due
            /\ x.valid = IF l THEN v ELSE 0
        BY <3>2, ReturnedFields
      <3> HIDE DEF x
      <3>5. node'[n] = x /\ \A m \in Nodes : m # n => node'[m] = node[m]
        BY <3>1, OneMoved
      <3>6. TypeOK'
        BY <2>1, <3>1, <3>3 DEF TypeOK, NodeType
      <3>7. LoopOK'
        BY <3>4, <3>5 DEF LoopOK, Calling
      <3>8. WonHoldsRow' /\ LeaseBacksLeader'
        BY <2>1, <3>4, <3>5 DEF WonHoldsRow, LeaseBacksLeader, Leaders
      <3>9. RenewsInTime'
        <4>1. l => /\ node[n].boot = FALSE
                   /\ node[n].due \/ node[n].tick + node[n].age <= Tick
                   /\ v + node[n].age >= 1
          BY <2>1, <2>3, NodeFields DEF LoopOK, RenewsInTime, Leaders, AtNextCall
        <4>2. l => v > -Tick /\ (node[n].due \/ v - node[n].tick > -Tick)
          BY <3>2, <4>1, NodeFields, Bounds
        <4>3. ~Calling(n)' /\ (l => AtNextCall(n)' = IF node[n].due THEN v ELSE v - node[n].tick)
          BY <3>4, <3>5, NodeFields DEF AtNextCall, Calling
        <4>4. node'[n].leads = l
          BY <3>4, <3>5
        <4>5. \A m \in Nodes : m # n => AtNextCall(m)' = AtNextCall(m) /\ Calling(m)' = Calling(m)
          BY <3>5 DEF AtNextCall, Calling
        <4> HIDE DEF l, v
        <4>6. l => AtNextCall(n)' > -Tick
          BY <4>2, <4>3
        <4> QED
          BY <3>5, <4>3, <4>4, <4>5, <4>6 DEF RenewsInTime, Leaders
      <3> QED
        BY <3>6, <3>7, <3>8, <3>9
    <2> QED
      BY <2>2, <2>3
  <1>5a. ASSUME NEW n \in Nodes, IncidentRecorded(n) PROVE LeaseInv'
    <2> DEFINE x == Returned(n, FALSE, 0)
    <2>1. node' = [node EXCEPT ![n] = x] /\ robbed' = robbed \ {n} /\ UNCHANGED <<lease, stable>>
      BY <1>5a DEF IncidentRecorded
    <2>2. x \in NodeType
      <3>1. 0 \in -(MaxLate + 1)..Lease /\ FALSE \in BOOLEAN
        BY Bounds
      <3> QED
        BY <3>1, ReturnedTyped, Zenon
    <2>3. x.phase = "idle" /\ x.boot = FALSE /\ x.leads = FALSE
      <3>1. 0 \in Int /\ FALSE \in BOOLEAN
        OBVIOUS
      <3> QED
        BY <3>1, ReturnedFields, Zenon
    <2> HIDE DEF x
    <2>4. node'[n] = x /\ \A m \in Nodes : m # n => node'[m] = node[m]
      BY <2>1, OneMoved
    <2>5. TypeOK'
      BY <2>1, <2>2 DEF TypeOK, NodeType
    <2>6. LoopOK'
      BY <2>3, <2>4 DEF LoopOK, Calling
    <2>7. WonHoldsRow' /\ LeaseBacksLeader'
      BY <2>1, <2>3, <2>4 DEF WonHoldsRow, LeaseBacksLeader, Leaders
    <2>8. RenewsInTime'
      BY <2>3, <2>4 DEF RenewsInTime, Leaders, AtNextCall, Calling
    <2> QED
      BY <2>5, <2>6, <2>7, <2>8
  <1>6. ASSUME NEW n \in Nodes, Shutdown(n) \/ Crash(n) PROVE LeaseInv'
    <2>1. PICK x \in {DownNode, [DownNode EXCEPT !.phase = "release"]} :
            node' = [node EXCEPT ![n] = x]
      BY <1>6 DEF Shutdown, Crash
    <2>2. /\ x \in NodeType /\ x.phase \in {"down", "release"}
          /\ x.leads = FALSE /\ x.boot = FALSE
      <3>1. PICK ph \in {"down", "release"} :
              x = [phase |-> ph, boot |-> FALSE, leads |-> FALSE, valid |-> 0,
                   lapsed |-> FALSE, tick |-> Tick, due |-> FALSE, age |-> 0]
        BY <2>1 DEF DownNode
      <3>2. 0 \in -(MaxLate + 1)..Lease /\ Tick \in 1..Tick /\ 0 \in 0..Timeout
        BY Bounds
      <3>3. QED
        BY <3>1, <3>2, Zenon DEF NodeType
    <2>3. node'[n] = x /\ \A m \in Nodes : m # n => node'[m] = node[m]
      BY <2>1, OneMoved
    <2>4. robbed' = robbed \ {n} /\ UNCHANGED <<lease, stable>>
      BY <1>6 DEF Shutdown, Crash
    <2>5. TypeOK'
      BY <2>1, <2>2, <2>4 DEF TypeOK, NodeType
    <2>6. LoopOK'
      BY <2>2, <2>3 DEF LoopOK, Calling
    <2>7. WonHoldsRow' /\ LeaseBacksLeader'
      BY <2>2, <2>3, <2>4 DEF WonHoldsRow, LeaseBacksLeader, Leaders
    <2>8. RenewsInTime'
      BY <2>2, <2>3 DEF RenewsInTime, Leaders, AtNextCall, Calling
    <2>9. QED
      BY <2>5, <2>6, <2>7, <2>8
  <1>7. ASSUME NEW n \in Nodes, ReleaseWrite(n) PROVE LeaseInv'
    <2>1. /\ DownNode \in NodeType /\ DownNode.phase = "down"
          /\ DownNode.leads = FALSE /\ DownNode.boot = FALSE
      BY DownTyped DEF DownNode
    <2>2. /\ node'[n] = DownNode
          /\ \A m \in Nodes : m # n => node'[m] = node[m]
      BY <1>7, OneMoved DEF ReleaseWrite
    <2>3. /\ robbed' = robbed \cup ({lease.holder} \cap (Nodes \ {n}))
          /\ stable' = stable
          /\ lease' = [holder |-> n, left |-> -1 - node[n].age]
          /\ node' = [node EXCEPT ![n] = DownNode]
      BY <1>7 DEF ReleaseWrite
    <2>4. TypeOK'
      BY <2>1, <2>3, NodeFields, Bounds DEF TypeOK, NodeType
    <2>5. LoopOK'
      BY <2>1, <2>2 DEF LoopOK, Calling
    <2>6. WonHoldsRow' /\ LeaseBacksLeader'
      BY <2>1, <2>2, <2>3 DEF WonHoldsRow, LeaseBacksLeader, Leaders
    <2>7. RenewsInTime'
      BY <2>1, <2>2 DEF RenewsInTime, Leaders, AtNextCall, Calling
    <2>8. QED
      BY <2>4, <2>5, <2>6, <2>7
  <1>8. ASSUME Pass PROVE LeaseInv'
    <2>1. /\ \A n \in Nodes : ~Urgent(n) /\ node'[n] = Later(n)
          /\ node' = [n \in Nodes |-> Later(n)]
          /\ UNCHANGED <<robbed, stable>>
          /\ lease'.holder = lease.holder
          /\ lease'.left = Floor(lease.left - 1, Oldest)
          /\ lease' = [lease EXCEPT !.left = Floor(lease.left - 1, Oldest)]
      BY <1>8 DEF Pass, TypeOK
    <2>2. lease'.left \in Int /\ lease'.left >= lease.left - 1
          /\ lease'.left \in Oldest..Lease
      BY <2>1, Bounds DEF TypeOK, Floor
    <2>3. TypeOK'
      BY <2>1, <2>2, LaterTyped DEF TypeOK, NodeType
    <2>4. ASSUME NEW n \in Nodes
          PROVE  /\ node'[n].phase = node[n].phase
                 /\ node'[n].boot = node[n].boot
                 /\ node'[n].leads = node[n].leads
                 /\ node'[n].lapsed = node[n].lapsed
                 /\ Calling(n)' = Calling(n)
      BY <2>1, LaterFields DEF Calling
    <2>5. ASSUME NEW n \in Nodes
          PROVE  Calling(n) => node'[n].age = node[n].age + 1
      <3>1. Calling(n) => node[n].age < Timeout
                          /\ node[n].phase \notin {"down", "idle", "incident"}
        BY <2>1, NodeFields, Bounds DEF Calling, Urgent
      <3>2. QED
        BY <2>1, <3>1, LaterFields
    <2>5a. ASSUME NEW n \in Nodes
          PROVE  /\ Ticking(n) => \/ ~Fires(n) /\ node'[n].tick = node[n].tick - 1
                                     /\ node'[n].due = node[n].due
                                  \/ Fires(n) /\ node'[n].due = TRUE
                 /\ ~Ticking(n) => node'[n].tick = node[n].tick /\ node'[n].due = node[n].due
      <3>1. /\ node'[n].tick = IF Fires(n) THEN Tick
                               ELSE IF Ticking(n) THEN node[n].tick - 1 ELSE node[n].tick
            /\ node'[n].due = (node[n].due \/ Fires(n))
        BY <2>1, LaterFields, Zenon
      <3>2. Fires(n) => Ticking(n)
        BY DEF Fires
      <3>3. Fires(n) => node'[n].due = TRUE
        BY <3>1, Zenon
      <3>4. ~Fires(n) => node'[n].due = node[n].due
        BY <3>1, NodeFields, Zenon
      <3> QED
        BY <3>1, <3>2, <3>3, <3>4
    <2>6. ASSUME NEW n \in Leaders, node[n].phase # "incident"
          PROVE  n \in Nodes /\ node'[n].valid = node[n].valid - 1
      <3>1. n \in Nodes /\ node[n].valid >= -MaxLate
        <4>1. n \in Nodes /\ AtNextCall(n) > -Tick
          BY <2>6 DEF Leaders, RenewsInTime
        <4>2. QED
          BY <4>1, NodeFields, Bounds DEF AtNextCall
      <3>2. node[n].leads = TRUE
        BY <3>1, NodeFields DEF Leaders
      <3>3. QED
        BY <2>1, <3>1, <3>2, LaterFields, NodeFields, Bounds DEF Floor
    <2>7. Leaders' = Leaders
      BY <2>4 DEF Leaders
    <2>6a. ASSUME NEW n \in Leaders, node[n].phase = "incident"
           PROVE  n \in Nodes /\ node[n].valid <= 0 /\ node'[n].valid <= 0
      BY <2>1, <2>6a, LaterFields, NodeFields, Bounds DEF LoopOK, Leaders, Floor
    <2>8. LoopOK'
      <3> SUFFICES ASSUME NEW n \in Nodes
                   PROVE /\ node'[n].phase \in {"down", "release"} => ~node'[n].leads
                         /\ node'[n].boot => /\ ~node'[n].leads /\ Calling(n)'
                                             /\ node'[n].tick = Tick /\ ~node'[n].due
                         /\ Calling(n)' /\ ~node'[n].boot
                              => node'[n].due \/ node'[n].tick + node'[n].age <= Tick
                         /\ Calling(n)' /\ node'[n].leads => node'[n].valid + node'[n].age <= Lease
                         /\ node'[n].phase = "incident" =>
                              node'[n].leads /\ node'[n].lapsed /\ node'[n].valid <= 0
        BY DEF LoopOK
      <3>1. Calling(n) => node[n].phase # "incident"
        BY DEF Calling
      <3>2. node[n].boot => ~Ticking(n) /\ Calling(n)
        BY DEF LoopOK, Ticking, Calling
      <3>3. Calling(n) /\ ~node[n].boot => Ticking(n)
        BY DEF Ticking
      <3>4. Calling(n) /\ node[n].leads => node'[n].valid + node'[n].age <= Lease
        <4> SUFFICES ASSUME Calling(n), node[n].leads PROVE node'[n].valid + node'[n].age <= Lease
          OBVIOUS
        <4>1. n \in Leaders
          BY DEF Leaders
        <4>2. node'[n].valid = node[n].valid - 1 /\ node'[n].age = node[n].age + 1
          BY <2>5, <2>6, <3>1, <4>1
        <4>3. node[n].valid + node[n].age <= Lease
          BY DEF LoopOK
        <4> QED
          BY <4>2, <4>3, NodeFields, Bounds
      <3>5. Calling(n) /\ ~node[n].boot
              => node'[n].due \/ node'[n].tick + node'[n].age <= Tick
        <4> SUFFICES ASSUME Calling(n), ~node[n].boot, ~node'[n].due
                     PROVE  node'[n].tick + node'[n].age <= Tick
          OBVIOUS
        <4>1. node'[n].tick = node[n].tick - 1 /\ ~node[n].due /\ node'[n].age = node[n].age + 1
          BY <2>5, <2>5a, <3>3
        <4>2. node[n].tick + node[n].age <= Tick
          BY <4>1 DEF LoopOK
        <4> QED
          BY <4>1, <4>2, NodeFields, Bounds
      <3> QED
        BY <2>4, <2>5a, <2>6a, <3>2, <3>4, <3>5, NodeFields DEF LoopOK, Leaders
    <2>9. WonHoldsRow'
      BY <2>1, <2>2, <2>4, <2>5, NodeFields, Bounds DEF WonHoldsRow, Calling,
         TypeOK
    <2>10. LeaseBacksLeader'
      <3>1. SUFFICES ASSUME NEW n \in Leaders \ robbed, node'[n].valid > 0
                     PROVE  lease'.holder = n /\ lease'.left >= node'[n].valid
        BY <2>1, <2>7 DEF LeaseBacksLeader
      <3>2. /\ n \in Nodes /\ node'[n].valid = node[n].valid - 1
            /\ node[n].valid \in Int /\ lease.left \in Int
        <4>1. n \in Nodes /\ node'[n].valid \in Int /\ node[n].valid \in Int /\ lease.left \in Int
          BY <2>3, NodeFields, Bounds DEF TypeOK, Leaders
        <4>2. node[n].phase # "incident"
          BY <2>6a, <3>1, <4>1
        <4> QED
          BY <2>6, <4>1, <4>2
      <3>3. lease.holder = n /\ lease.left >= node[n].valid
        BY <3>1, <3>2 DEF LeaseBacksLeader
      <3>4. QED
        BY <2>1, <2>2, <3>2, <3>3
    <2>11. RenewsInTime'
      <3>1. ASSUME NEW n \in Leaders, node[n].phase # "incident"
            PROVE  AtNextCall(n)' = AtNextCall(n)
        <4>1. n \in Nodes /\ ((node[n].phase = "idle" /\ ~node[n].due) \/ Calling(n))
          BY <2>1, <3>1, NodeFields DEF Leaders, LoopOK, Calling, Urgent
        <4>2. node'[n].valid = node[n].valid - 1
          BY <2>6, <3>1
        <4>3. CASE Calling(n)
          <5>1. /\ AtNextCall(n) = node[n].valid + node[n].age
                /\ AtNextCall(n)' = node'[n].valid + node'[n].age
            BY <2>4, <4>1, <4>3 DEF AtNextCall, Calling
          <5>2. node'[n].age = node[n].age + 1
            BY <2>5, <4>1, <4>3
          <5> QED
            BY <4>1, <4>2, <5>1, <5>2, NodeFields
        <4>4. CASE node[n].phase = "idle" /\ ~node[n].due
          <5>1. Ticking(n) /\ ~Calling(n) /\ ~Calling(n)' /\ node'[n].phase = "idle"
            BY <2>4, <4>1, <4>4 DEF Ticking, Calling
          <5>2. CASE Fires(n)
            <6>1. node'[n].due /\ node[n].tick = 1
              BY <2>5a, <4>1, <5>1, <5>2 DEF Fires
            <6>2. AtNextCall(n)' = node'[n].valid /\ AtNextCall(n) = node[n].valid - 1
              BY <4>4, <5>1, <6>1 DEF AtNextCall
            <6> QED
              BY <4>2, <6>2
          <5>3. CASE ~Fires(n)
            <6>1. node'[n].due = node[n].due /\ node'[n].tick = node[n].tick - 1
              BY <2>5a, <4>1, <5>1, <5>3
            <6>2. /\ AtNextCall(n)' = node'[n].valid - node'[n].tick
                  /\ AtNextCall(n) = node[n].valid - node[n].tick
              BY <4>4, <5>1, <6>1 DEF AtNextCall
            <6> QED
              BY <4>1, <4>2, <6>1, <6>2, NodeFields
          <5> QED
            BY <5>2, <5>3
        <4> QED
          BY <4>1, <4>3, <4>4
      <3>2. \A n \in Nodes : Calling(n) => node[n].phase # "incident"
        BY DEF Calling
      <3>3. QED
        BY <2>4, <2>7, <3>1, <3>2 DEF RenewsInTime, Leaders
    <2>12. QED
      BY <2>3, <2>8, <2>9, <2>10, <2>11
  <1>9. CASE Stabilise \/ UNCHANGED vars
    BY <1>9 DEF Stabilise, vars, TypeOK, LoopOK, WonHoldsRow, LeaseBacksLeader,
       RenewsInTime, Leaders, AtNextCall, Calling
  <1>10. QED
    BY <1>1, <1>2, <1>3, <1>4, <1>5, <1>5a, <1>6, <1>7, <1>8, <1>9 DEF Next

(* For any number of replicas, whatever crashes, hangs or comes back: the    *)
(* loop's bookkeeping, the row and the leaders agree as LeaseInv says.       *)
THEOREM LeaseInvariant == Spec => []LeaseInv
  BY LeaseInit, LeaseStep, PTL DEF Spec

(* A replica that leads within its validity holds the row for at least that  *)
(* long (electLeader and TryAcquireLease).                                   *)
THEOREM LeaseSafety == Spec => []LeaseBacksLeader
  <1>1. LeaseInv => LeaseBacksLeader
    BY DEF LeaseInv
  <1>2. QED
    BY <1>1, LeaseInvariant, PTL

(* A replica whose renewals fail acts on it at most MaxLate seconds after    *)
(* its lease expired (electLeader): it no longer leads, or waits for the     *)
(* store to take the incident it records first.                              *)
THEOREM StepDown == Spec => []StepsDownInTime
  <1>1. LeaseInv => StepsDownInTime
    <2> SUFFICES ASSUME LeaseInv, NEW n \in Leaders, node[n].phase # "incident"
                 PROVE  node[n].valid >= -MaxLate
      BY DEF StepsDownInTime
    <2>1. n \in Nodes /\ AtNextCall(n) > -Tick
      BY DEF LeaseInv, Leaders, RenewsInTime
    <2>2. QED
      BY <2>1, NodeFields, Bounds DEF LeaseInv, AtNextCall
  <1>2. QED
    BY <1>1, LeaseInvariant, PTL

(* Two replicas never lead within their validity at the same time, unless    *)
(* the shutdown of a third one released a lease it no longer had.            *)
COROLLARY OneValidLeader ==
  Spec => [](\A m, n \in Leaders \ robbed :
               node[m].valid > 0 /\ node[n].valid > 0 => m = n)
  <1>1. LeaseBacksLeader => \A m, n \in Leaders \ robbed :
                              node[m].valid > 0 /\ node[n].valid > 0 => m = n
    BY DEF LeaseBacksLeader
  <1>2. QED
    BY <1>1, LeaseSafety, PTL
=============================================================================
