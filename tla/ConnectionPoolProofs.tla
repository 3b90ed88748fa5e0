------------------------- MODULE ConnectionPoolProofs -------------------------
(* The permits of heavyQuery, for any number of calls and any pool size.    *)
EXTENDS ConnectionPool, TLAPS, FiniteSetTheorems, SequenceTheorems

(* The queue for permits holds the queued heavy queries, each once. *)
QueueMatches ==
    /\ \A i \in DOMAIN heavyQueue : call[heavyQueue[i]] = [kind |-> "heavy", pc |-> "queued"]
    /\ \A c \in Queued : \E i \in DOMAIN heavyQueue : heavyQueue[i] = c
    /\ \A i, j \in DOMAIN heavyQueue : heavyQueue[i] = heavyQueue[j] => i = j

(* The queue of the pool holds calls that wait for a connection, each once. *)
WaitersWait ==
    /\ \A i \in DOMAIN waiters : call[waiters[i]].pc \in Waiting
    /\ \A i, j \in DOMAIN waiters : waiters[i] = waiters[j] => i = j

(* Type correctness is part of the induction: heavyActive stays natural only *)
(* because whoever gives a permit back is counted.                           *)
PermitInv == PoolTypeOK /\ QueueMatches /\ WaitersWait /\ PermitsCounted

LEMMA LimitPositive == HeavyLimit \in Nat /\ HeavyLimit >= 1
  BY PoolAssumption DEF HeavyLimit

LEMMA HoldersFinite == IsFiniteSet(PermitHolders) /\ Cardinality(PermitHolders) \in Nat
  BY PoolAssumption, FS_Subset, FS_CardinalityType DEF PermitHolders

LEMMA PermitInit == PoolInit => PermitInv
<1> SUFFICES ASSUME PoolInit PROVE PermitInv
  OBVIOUS
<1>1. PermitHolders = {} /\ Queued = {}
  BY DEF PoolInit, PermitHolders, Queued, At, Idle
<1>2. PermitsCounted
  BY <1>1, LimitPositive, FS_EmptySet DEF PermitsCounted, PoolInit
<1>3. PoolTypeOK
  BY DEF PoolInit, PoolTypeOK, Idle, Kinds, Points, Waiting
<1>4. QueueMatches /\ WaitersWait
  BY <1>1 DEF PoolInit, QueueMatches, WaitersWait
<1> QED
  BY <1>2, <1>3, <1>4 DEF PermitInv

(* A call moves between two points that are neither idle nor queued: nothing *)
(* changes for permits.                                                      *)
LEMMA MoveKeepsPermits ==
  ASSUME PermitInv, NEW c \in Calls, NEW pc \in Points,
         call[c].pc \notin {"idle", "queued"}, pc \notin {"idle", "queued"},
         Move(c, pc), UnchangedHeavy
  PROVE  PermitsCounted' /\ QueueMatches' /\ heavyActive' \in Nat /\ heavyQueue' \in Seq(Calls)
         /\ call' \in [Calls -> [kind : Kinds, pc : Points]]
<1> USE DEF PermitInv, PoolTypeOK
<1>1. call' \in [Calls -> [kind : Kinds, pc : Points]]
  BY DEF Move
<1>2. \A d \in Calls : /\ d # c => call'[d] = call[d]
                       /\ call'[c].kind = call[c].kind /\ call'[c].pc = pc
  BY DEF Move
<1>3. PermitHolders' = PermitHolders
  BY <1>2 DEF PermitHolders
<1>4. Queued' = Queued
  BY <1>2 DEF Queued, At
<1>5. PermitsCounted'
  BY <1>3, <1>4 DEF PermitsCounted, UnchangedHeavy
<1>6. QueueMatches'
  <2>1. \A i \in DOMAIN heavyQueue : heavyQueue[i] \in Calls /\ heavyQueue[i] # c
    BY DEF QueueMatches
  <2> QED
    BY <2>1, <1>2, <1>4 DEF QueueMatches, UnchangedHeavy
<1> QED
  BY <1>1, <1>5, <1>6 DEF UnchangedHeavy

(* A call that holds a connection or waits for one returns: its permit, if   *)
(* it has one, goes to the head of the queue or back to the pool of permits. *)
LEMMA ReturnKeepsPermits ==
  ASSUME PermitInv, NEW c \in Calls, call[c].pc \notin {"idle", "queued"}, Return(c)
  PROVE  /\ PermitsCounted' /\ QueueMatches' /\ heavyActive' \in Nat /\ heavyQueue' \in Seq(Calls)
         /\ call' \in [Calls -> [kind : Kinds, pc : Points]]
         /\ \A d \in Calls \ {c} : call[d].pc # "queued" => call'[d] = call[d]
<1> USE DEF PermitInv, PoolTypeOK
<1>0. Idle \in [kind : Kinds, pc : Points] /\ Granted \in [kind : Kinds, pc : Points]
  BY DEF Idle, Granted, Kinds, Points
<1>1. CASE call[c].kind # "heavy"
  <2>1. call' = [call EXCEPT ![c] = Idle] /\ UnchangedHeavy
    BY <1>1 DEF Return
  <2>2. PermitHolders' = PermitHolders /\ Queued' = Queued
    BY <1>1, <2>1 DEF PermitHolders, Queued, At, Idle
  <2>3. \A i \in DOMAIN heavyQueue : heavyQueue[i] \in Calls /\ heavyQueue[i] # c
    BY DEF QueueMatches
  <2> QED
    BY <2>1, <2>2, <2>3, <1>0 DEF PermitsCounted, QueueMatches, UnchangedHeavy
<1>2. CASE call[c].kind = "heavy" /\ heavyQueue = <<>>
  <2>1. call' = [call EXCEPT ![c] = Idle] /\ heavyActive' = heavyActive - 1 /\ heavyQueue' = heavyQueue
    BY <1>2 DEF Return, ReleaseHeavy
  <2>2. Queued = {} /\ Queued' = {}
    BY <1>2, <2>1 DEF QueueMatches, Queued, At, Idle
  <2>3. c \in PermitHolders /\ PermitHolders' = PermitHolders \ {c}
    BY <1>2, <2>1 DEF PermitHolders, Idle
  <2>4. Cardinality(PermitHolders') = Cardinality(PermitHolders) - 1
    BY <2>3, HoldersFinite, FS_RemoveElement
  <2>5. Cardinality(PermitHolders') \in Nat
    BY <2>3, HoldersFinite, FS_RemoveElement, FS_CardinalityType
  <2>6. PermitsCounted' /\ heavyActive' \in Nat
    BY <2>1, <2>2, <2>4, <2>5, HoldersFinite, LimitPositive DEF PermitsCounted, HeavyLimit
  <2>7. QueueMatches'
    BY <1>2, <2>1, <2>2 DEF QueueMatches
  <2> QED
    BY <2>1, <2>6, <2>7, <1>0
<1>3. CASE call[c].kind = "heavy" /\ heavyQueue # <<>>
  <2> DEFINE h == Head(heavyQueue)
  <2>1. /\ call' = [call EXCEPT ![c] = Idle, ![h] = Granted]
        /\ heavyQueue' = Tail(heavyQueue) /\ heavyActive' = heavyActive
    BY <1>3 DEF Return, ReleaseHeavy
  <2>2. /\ heavyQueue # <<>> /\ 1 \in DOMAIN heavyQueue /\ h = heavyQueue[1]
        /\ h \in Calls /\ call[h] = [kind |-> "heavy", pc |-> "queued"] /\ h # c
    BY <1>3 DEF QueueMatches
  <2>3. /\ call'[c] = Idle /\ call'[h] = Granted
        /\ \A d \in Calls : d # c /\ d # h => call'[d] = call[d]
    BY <2>1, <2>2
  <2>4. /\ c \in PermitHolders /\ h \notin PermitHolders
        /\ PermitHolders' = (PermitHolders \ {c}) \cup {h}
    BY <1>3, <2>2, <2>3 DEF PermitHolders, Idle, Granted
  <2>5. Cardinality(PermitHolders') = Cardinality(PermitHolders)
    <3>1. /\ IsFiniteSet(PermitHolders \ {c})
          /\ Cardinality(PermitHolders \ {c}) = Cardinality(PermitHolders) - 1
      BY <2>4, HoldersFinite, FS_RemoveElement
    <3>2. Cardinality((PermitHolders \ {c}) \cup {h}) = Cardinality(PermitHolders \ {c}) + 1
      BY <3>1, <2>4, FS_AddElement
    <3> QED
      BY <3>1, <3>2, <2>4, HoldersFinite
  <2> HIDE DEF h
  <2>6. Queued' \subseteq Queued /\ h \notin Queued' /\ h \in Queued /\ Queued' = Queued \ {h}
    <3>1. \A d \in Calls : call'[d].pc = "queued" <=> call[d].pc = "queued" /\ d # h
      BY <2>2, <2>3, call[c].pc # "queued" DEF Idle, Granted
    <3>2. call[h].pc = "queued"
      BY <2>2
    <3> QED
      BY <2>2, <3>1, <3>2 DEF Queued, At
  <2>7. PermitsCounted'
    BY <2>1, <2>5, <2>6 DEF PermitsCounted, HeavyLimit
  <2>8. /\ heavyQueue' \in Seq(Calls) /\ Len(heavyQueue') = Len(heavyQueue) - 1
        /\ DOMAIN heavyQueue = 1 .. Len(heavyQueue) /\ Len(heavyQueue) \in Nat
        /\ DOMAIN heavyQueue' = 1 .. Len(heavyQueue) - 1
        /\ \A i \in 1 .. Len(heavyQueue) - 1 : heavyQueue'[i] = heavyQueue[i + 1]
    BY <2>1, <2>2
  <2>9. QueueMatches'
    <3>1. \A i \in DOMAIN heavyQueue' : /\ i + 1 \in DOMAIN heavyQueue
                                        /\ heavyQueue'[i] = heavyQueue[i + 1]
                                        /\ heavyQueue'[i] \in Calls
                                        /\ heavyQueue'[i] # h
      <4> SUFFICES ASSUME NEW i \in DOMAIN heavyQueue'
                   PROVE  /\ i + 1 \in DOMAIN heavyQueue
                          /\ heavyQueue'[i] = heavyQueue[i + 1]
                          /\ heavyQueue'[i] \in Calls
                          /\ heavyQueue'[i] # h
        OBVIOUS
      <4>1. i \in 1 .. Len(heavyQueue) - 1 /\ i + 1 \in DOMAIN heavyQueue /\ i + 1 # 1
        BY <2>8
      <4>2. heavyQueue'[i] = heavyQueue[i + 1]
        BY <4>1, <2>8
      <4>3. heavyQueue[i + 1] \in Calls
        BY <4>1
      <4>4. heavyQueue[i + 1] # h
        BY <4>1, <2>2 DEF QueueMatches
      <4> QED
        BY <4>1, <4>2, <4>3, <4>4
    <3>2. \A i \in DOMAIN heavyQueue' : call'[heavyQueue'[i]] = [kind |-> "heavy", pc |-> "queued"]
      <4> SUFFICES ASSUME NEW i \in DOMAIN heavyQueue'
                   PROVE  call'[heavyQueue'[i]] = [kind |-> "heavy", pc |-> "queued"]
        OBVIOUS
      <4>1. call[heavyQueue'[i]] = [kind |-> "heavy", pc |-> "queued"]
        BY <3>1 DEF QueueMatches
      <4>2. heavyQueue'[i] # c
        BY <4>1, call[c].pc # "queued"
      <4> QED
        BY <4>1, <4>2, <3>1, <2>3
    <3>3. \A d \in Queued' : \E i \in DOMAIN heavyQueue' : heavyQueue'[i] = d
      <4> SUFFICES ASSUME NEW d \in Queued' PROVE \E i \in DOMAIN heavyQueue' : heavyQueue'[i] = d
        OBVIOUS
      <4>1. PICK j \in DOMAIN heavyQueue : heavyQueue[j] = d
        BY <2>6 DEF QueueMatches
      <4>2. j # 1
        BY <4>1, <2>2, <2>6
      <4>3. j - 1 \in 1 .. Len(heavyQueue) - 1
        BY <4>1, <4>2
      <4>4. heavyQueue'[j - 1] = heavyQueue[(j - 1) + 1] /\ (j - 1) + 1 = j
        BY <4>3, <2>8
      <4> QED
        BY <4>1, <4>3, <4>4, <2>8
    <3>4. \A i, j \in DOMAIN heavyQueue' : heavyQueue'[i] = heavyQueue'[j] => i = j
      <4> SUFFICES ASSUME NEW i \in DOMAIN heavyQueue', NEW j \in DOMAIN heavyQueue',
                          heavyQueue'[i] = heavyQueue'[j]
                   PROVE  i = j
        OBVIOUS
      <4>1. i + 1 = j + 1
        BY <3>1 DEF QueueMatches
      <4>2. i \in Int /\ j \in Int
        BY <2>8
      <4> QED
        BY <4>1, <4>2
    <3> QED
      BY <3>2, <3>3, <3>4 DEF QueueMatches
  <2>10. call' \in [Calls -> [kind : Kinds, pc : Points]] /\ heavyActive' \in Nat
    BY <2>1, <2>2, <1>0
  <2> QED
    BY <2>2, <2>3, <2>7, <2>8, <2>9, <2>10
<1> QED
  BY <1>1, <1>2, <1>3

LEMMA AcquireKeepsPermits ==
  ASSUME PermitInv, NEW c \in Calls, AcquireHeavy(c)
  PROVE  /\ PermitsCounted' /\ QueueMatches' /\ heavyActive' \in Nat /\ heavyQueue' \in Seq(Calls)
         /\ call' \in [Calls -> [kind : Kinds, pc : Points]]
         /\ call[c].pc = "idle" /\ \A d \in Calls \ {c} : call'[d] = call[d]
<1> USE DEF PermitInv, PoolTypeOK
<1>1. call[c].pc = "idle" /\ c \notin PermitHolders /\ c \notin Queued
  BY DEF AcquireHeavy, Begin, At, PermitHolders, Queued
<1>2. \A i \in DOMAIN heavyQueue : heavyQueue[i] \in Calls /\ heavyQueue[i] # c
  BY <1>1 DEF QueueMatches
<1>3. CASE heavyActive < HeavyLimit
  <2>1. /\ call' = [call EXCEPT ![c] = [kind |-> "heavy", pc |-> "granted"]]
        /\ heavyActive' = heavyActive + 1 /\ heavyQueue' = heavyQueue
    BY <1>3 DEF AcquireHeavy, Begin
  <2>2. [kind |-> "heavy", pc |-> "granted"] \in [kind : Kinds, pc : Points]
    BY DEF Kinds, Points
  <2>3. PermitHolders' = PermitHolders \cup {c} /\ Queued' = Queued
    BY <1>1, <2>1 DEF PermitHolders, Queued, At
  <2>4. Cardinality(PermitHolders') = Cardinality(PermitHolders) + 1
    BY <1>1, <2>3, HoldersFinite, FS_AddElement
  <2>5. Queued = {}
    BY <1>3, LimitPositive DEF PermitsCounted
  <2>6. PermitsCounted'
    BY <1>3, <2>1, <2>3, <2>4, <2>5, LimitPositive DEF PermitsCounted, HeavyLimit
  <2>7. QueueMatches'
    BY <1>2, <2>1, <2>3 DEF QueueMatches
  <2> QED
    BY <1>1, <2>1, <2>2, <2>6, <2>7
<1>4. CASE ~ (heavyActive < HeavyLimit)
  <2>1. /\ call' = [call EXCEPT ![c] = [kind |-> "heavy", pc |-> "queued"]]
        /\ heavyQueue' = Append(heavyQueue, c) /\ heavyActive' = heavyActive
    BY <1>4 DEF AcquireHeavy, Begin
  <2>2. [kind |-> "heavy", pc |-> "queued"] \in [kind : Kinds, pc : Points]
    BY DEF Kinds, Points
  <2>3. PermitHolders' = PermitHolders /\ Queued' = Queued \cup {c}
    BY <1>1, <2>1 DEF PermitHolders, Queued, At
  <2>4. heavyActive = HeavyLimit
    BY <1>4, LimitPositive DEF PermitsCounted
  <2>5. PermitsCounted'
    BY <2>1, <2>3, <2>4 DEF PermitsCounted, HeavyLimit
  <2>6. /\ heavyQueue' \in Seq(Calls) /\ Len(heavyQueue') = Len(heavyQueue) + 1
        /\ Len(heavyQueue) \in Nat
        /\ DOMAIN heavyQueue = 1 .. Len(heavyQueue)
        /\ DOMAIN heavyQueue' = 1 .. Len(heavyQueue) + 1
        /\ \A i \in DOMAIN heavyQueue : heavyQueue'[i] = heavyQueue[i]
        /\ heavyQueue'[Len(heavyQueue) + 1] = c
    BY <2>1
  <2>7. \A i \in DOMAIN heavyQueue' : i \in DOMAIN heavyQueue \/ i = Len(heavyQueue) + 1
    BY <2>6
  <2>8. \A d \in Calls : /\ d # c => call'[d] = call[d]
                         /\ call'[c] = [kind |-> "heavy", pc |-> "queued"]
    BY <2>1
  <2>9. QueueMatches'
    <3>1. \A i \in DOMAIN heavyQueue' : call'[heavyQueue'[i]] = [kind |-> "heavy", pc |-> "queued"]
      BY <1>2, <2>6, <2>7, <2>8 DEF QueueMatches
    <3>2. \A d \in Queued' : \E i \in DOMAIN heavyQueue' : heavyQueue'[i] = d
      <4> SUFFICES ASSUME NEW d \in Queued' PROVE \E i \in DOMAIN heavyQueue' : heavyQueue'[i] = d
        OBVIOUS
      <4>1. CASE d = c
        <5>1. Len(heavyQueue) + 1 \in DOMAIN heavyQueue'
          BY <2>6
        <5> QED
          BY <4>1, <5>1, <2>6
      <4>2. CASE d \in Queued
        <5>1. PICK i \in DOMAIN heavyQueue : heavyQueue[i] = d
          BY <4>2 DEF QueueMatches
        <5>2. i \in DOMAIN heavyQueue' /\ heavyQueue'[i] = d
          BY <5>1, <2>6
        <5> QED
          BY <5>2
      <4> QED
        BY <4>1, <4>2, <2>3
    <3>3. \A i, j \in DOMAIN heavyQueue' : heavyQueue'[i] = heavyQueue'[j] => i = j
      BY <1>2, <2>6, <2>7 DEF QueueMatches
    <3> QED
      BY <3>1, <3>2, <3>3 DEF QueueMatches
  <2> QED
    BY <1>1, <2>1, <2>2, <2>5, <2>6, <2>8, <2>9
<1> QED
  BY <1>3, <1>4

(* A call that was not waiting joins the queue of the pool. *)
LEMMA JoinWaiters ==
  ASSUME PermitInv, NEW c \in Calls, call[c].pc \notin Waiting, call'[c].pc \in Waiting,
         \A d \in Calls \ {c} : call'[d] = call[d], waiters' = Append(waiters, c)
  PROVE  WaitersWait' /\ waiters' \in Seq(Calls)
<1> USE DEF PermitInv, PoolTypeOK
<1>1. \A i \in DOMAIN waiters : waiters[i] \in Calls /\ waiters[i] # c
  BY DEF WaitersWait
<1>2. /\ waiters' \in Seq(Calls)
      /\ \A i \in DOMAIN waiters : waiters'[i] = waiters[i]
      /\ waiters'[Len(waiters) + 1] = c
      /\ \A i \in DOMAIN waiters' : i \in DOMAIN waiters \/ i = Len(waiters) + 1
  OBVIOUS
<1>3. \A i \in DOMAIN waiters' : call'[waiters'[i]].pc \in Waiting
  BY <1>1, <1>2 DEF WaitersWait
<1>4. \A i, j \in DOMAIN waiters' : waiters'[i] = waiters'[j] => i = j
  BY <1>1, <1>2 DEF WaitersWait
<1> QED
  BY <1>2, <1>3, <1>4 DEF WaitersWait

(* What remains of a sequence when its k-th element is taken out. *)
LEMMA RemovedAt ==
  ASSUME NEW S, NEW s \in Seq(S), NEW k \in 1 .. Len(s)
  PROVE  LET r == SubSeq(s, 1, k - 1) \o SubSeq(s, k + 1, Len(s)) IN
         /\ r \in Seq(S) /\ Len(r) = Len(s) - 1
         /\ \A i \in 1 .. Len(s) - 1 : r[i] = IF i < k THEN s[i] ELSE s[i + 1]
<1> DEFINE front == SubSeq(s, 1, k - 1)
           back == SubSeq(s, k + 1, Len(s))
           r == front \o back
<1>1. Len(s) \in Nat /\ k \in Int /\ 1 <= k /\ k <= Len(s)
  OBVIOUS
<1>2. /\ front \in Seq(S) /\ Len(front) = k - 1
      /\ \A i \in 1 .. k - 1 : front[i] = s[i]
  BY <1>1
<1>3. /\ back \in Seq(S) /\ Len(back) = Len(s) - k
      /\ \A i \in 1 .. Len(s) - k : back[i] = s[i + k]
  BY <1>1
<1> HIDE DEF front, back
<1>4. /\ r \in Seq(S) /\ Len(r) = Len(front) + Len(back)
      /\ \A i \in 1 .. Len(front) + Len(back) :
           r[i] = IF i <= Len(front) THEN front[i] ELSE back[i - Len(front)]
  BY <1>2, <1>3, ConcatProperties
<1> HIDE DEF r
<1>5. Len(r) = Len(s) - 1
  BY <1>1, <1>2, <1>3, <1>4
<1>6. ASSUME NEW i \in 1 .. Len(s) - 1 PROVE r[i] = IF i < k THEN s[i] ELSE s[i + 1]
  <2>0. r[i] = IF i <= k - 1 THEN front[i] ELSE back[i - (k - 1)]
    BY <1>1, <1>2, <1>3, <1>4
  <2>1. CASE i < k
    BY <1>1, <1>2, <2>0, <2>1
  <2>2. CASE ~ (i < k)
    <3>1. i - (k - 1) \in 1 .. Len(s) - k
      BY <1>1, <2>2
    <3>2. r[i] = back[i - (k - 1)]
      BY <1>1, <2>0, <2>2
    <3>3. back[i - (k - 1)] = s[(i - (k - 1)) + k] /\ (i - (k - 1)) + k = i + 1
      BY <1>1, <1>3, <3>1
    <3> QED
      BY <2>2, <3>2, <3>3
  <2> QED
    BY <2>1, <2>2
<1> QED
  BY <1>4, <1>5, <1>6 DEF r, front, back

(* One call leaves the queue of the pool; the others keep waiting. *)
LEMMA LeaveWaiters ==
  ASSUME PermitInv, NEW k \in DOMAIN waiters,
         waiters' \in Seq(Calls), Len(waiters') = Len(waiters) - 1,
         \A i \in 1 .. Len(waiters) - 1 : waiters'[i] = IF i < k THEN waiters[i] ELSE waiters[i + 1],
         \A d \in Calls \ {waiters[k]} : call[d].pc \in Waiting => call'[d].pc \in Waiting
  PROVE  WaitersWait'
<1> USE DEF PermitInv, PoolTypeOK
<1> DEFINE from(i) == IF i < k THEN i ELSE i + 1
<1>1. \A i \in DOMAIN waiters' : /\ from(i) \in DOMAIN waiters /\ from(i) # k
                                 /\ waiters'[i] = waiters[from(i)]
  <2> SUFFICES ASSUME NEW i \in DOMAIN waiters'
               PROVE  /\ from(i) \in DOMAIN waiters /\ from(i) # k
                      /\ waiters'[i] = waiters[from(i)]
    OBVIOUS
  <2>1. i \in 1 .. Len(waiters) - 1 /\ i \in Int /\ k \in 1 .. Len(waiters) /\ Len(waiters) \in Nat
    OBVIOUS
  <2>2. from(i) \in 1 .. Len(waiters) /\ from(i) # k
    BY <2>1
  <2>3. waiters'[i] = waiters[from(i)]
    BY <2>1
  <2> QED
    BY <2>2, <2>3
<1>2. \A i, j \in DOMAIN waiters' : from(i) = from(j) => i = j
  <2> SUFFICES ASSUME NEW i \in DOMAIN waiters', NEW j \in DOMAIN waiters', from(i) = from(j)
               PROVE  i = j
    OBVIOUS
  <2>1. i \in Int /\ j \in Int /\ k \in Int
    OBVIOUS
  <2> QED
    BY <2>1
<1> HIDE DEF from
<1>3. \A i \in DOMAIN waiters' : /\ waiters[from(i)] \in Calls \ {waiters[k]}
                                 /\ call[waiters[from(i)]].pc \in Waiting
  BY <1>1 DEF WaitersWait
<1>4. \A i \in DOMAIN waiters' : call'[waiters'[i]].pc \in Waiting
  BY <1>1, <1>3
<1>5. \A i, j \in DOMAIN waiters' : waiters'[i] = waiters'[j] => i = j
  BY <1>1, <1>2 DEF WaitersWait
<1> QED
  BY <1>4, <1>5 DEF WaitersWait

LEMMA PermitStep == PermitInv /\ [PoolNext]_poolVars => PermitInv'
<1> SUFFICES ASSUME PermitInv, [PoolNext]_poolVars PROVE PermitInv'
  OBVIOUS
<1> USE DEF PermitInv
<1>a. \A pc \in Points : pc \in {"idle", "queued", "granted", "querying", "inTransaction",
                                 "nestedQuery", "connecting", "nested"}
  BY DEF Points, Waiting
<1>1. ASSUME NEW c \in Calls, Query(c) \/ Transaction(c) PROVE PermitInv'
  <2>1. PICK kind \in {"query", "transaction"} : Begin(c, kind, "connecting")
    BY <1>1 DEF Query, Transaction
  <2>2. waiters' = Append(waiters, c) /\ UnchangedHeavy
    BY <1>1 DEF Query, Transaction
  <2>3. call[c].pc = "idle" /\ call' = [call EXCEPT ![c] = [kind |-> kind, pc |-> "connecting"]]
    BY <2>1 DEF Begin, At
  <2>4. [kind |-> kind, pc |-> "connecting"] \in [kind : Kinds, pc : Points]
    BY DEF Kinds, Points, Waiting
  <2>5. /\ call' \in [Calls -> [kind : Kinds, pc : Points]]
        /\ call'[c] = [kind |-> kind, pc |-> "connecting"]
        /\ \A d \in Calls \ {c} : call'[d] = call[d]
    BY <2>3, <2>4 DEF PoolTypeOK
  <2>6. PermitHolders' = PermitHolders /\ Queued' = Queued
    BY <2>3, <2>5 DEF PermitHolders, Queued, At
  <2>7. PermitsCounted' /\ QueueMatches'
    <3>1. \A i \in DOMAIN heavyQueue : heavyQueue[i] \in Calls \ {c}
      BY <2>3 DEF QueueMatches, PoolTypeOK
    <3>2. QueueMatches'
      BY <3>1, <2>2, <2>5, <2>6 DEF QueueMatches, UnchangedHeavy
    <3> QED
      BY <3>2, <2>2, <2>6 DEF PermitsCounted, UnchangedHeavy
  <2>8. WaitersWait' /\ waiters' \in Seq(Calls)
    BY <2>2, <2>3, <2>5, JoinWaiters DEF Waiting
  <2> QED
    BY <2>2, <2>5, <2>7, <2>8 DEF PoolTypeOK, UnchangedHeavy
<1>2. ASSUME NEW c \in Calls, HeavyQuery(c) PROVE PermitInv'
  <2>1. AcquireHeavy(c) /\ waiters' = waiters
    BY <1>2 DEF HeavyQuery
  <2>2. /\ PermitsCounted' /\ QueueMatches' /\ heavyActive' \in Nat /\ heavyQueue' \in Seq(Calls)
        /\ call' \in [Calls -> [kind : Kinds, pc : Points]]
        /\ call[c].pc = "idle" /\ \A d \in Calls \ {c} : call'[d] = call[d]
    BY <2>1, AcquireKeepsPermits
  <2>3. \A i \in DOMAIN waiters : waiters[i] \in Calls \ {c}
    <3>1. \A i \in DOMAIN waiters : waiters[i] \in Calls /\ call[waiters[i]].pc # "idle"
      BY DEF WaitersWait, Waiting, PoolTypeOK
    <3> QED
      BY <3>1, <2>2
  <2> QED
    BY <2>1, <2>2, <2>3 DEF WaitersWait, PoolTypeOK
<1>3. ASSUME NEW c \in Calls, StartHeavy(c) \/ NestedQuery(c) PROVE PermitInv'
  <2>1. PICK pc \in {"connecting", "nested"} : Move(c, pc)
    BY <1>3 DEF StartHeavy, NestedQuery
  <2>2. /\ call[c].pc \in {"granted", "inTransaction"}
        /\ waiters' = Append(waiters, c) /\ UnchangedHeavy
    BY <1>3 DEF StartHeavy, NestedQuery, At
  <2>3. /\ PermitsCounted' /\ QueueMatches' /\ heavyActive' \in Nat /\ heavyQueue' \in Seq(Calls)
        /\ call' \in [Calls -> [kind : Kinds, pc : Points]]
    BY <2>1, <2>2, MoveKeepsPermits DEF Points, Waiting
  <2>4. call'[c].pc = pc /\ \A d \in Calls \ {c} : call'[d] = call[d]
    BY <2>1 DEF Move, PoolTypeOK
  <2>5. WaitersWait' /\ waiters' \in Seq(Calls)
    BY <2>2, <2>4, JoinWaiters DEF Waiting
  <2> QED
    BY <2>3, <2>5 DEF PoolTypeOK
<1>4. ASSUME NEW c \in Calls, Finish(c) \/ EndTransaction(c) PROVE PermitInv'
  <2>1. Return(c) /\ call[c].pc \in {"querying", "inTransaction"} /\ waiters' = waiters
    BY <1>4 DEF Finish, EndTransaction, At
  <2>2. /\ PermitsCounted' /\ QueueMatches' /\ heavyActive' \in Nat /\ heavyQueue' \in Seq(Calls)
        /\ call' \in [Calls -> [kind : Kinds, pc : Points]]
        /\ \A d \in Calls \ {c} : call[d].pc # "queued" => call'[d] = call[d]
    BY <2>1, ReturnKeepsPermits
  <2>3. \A i \in DOMAIN waiters : /\ waiters[i] \in Calls \ {c}
                                  /\ call[waiters[i]].pc # "queued"
    BY <2>1 DEF WaitersWait, Waiting, PoolTypeOK
  <2> QED
    BY <2>1, <2>2, <2>3 DEF WaitersWait, PoolTypeOK
<1>5. ASSUME NEW c \in Calls, NestedFinish(c) PROVE PermitInv'
  <2>1. /\ Move(c, "inTransaction") /\ call[c].pc = "nestedQuery"
        /\ UnchangedHeavy /\ waiters' = waiters
    BY <1>5 DEF NestedFinish, At
  <2>2. /\ PermitsCounted' /\ QueueMatches' /\ heavyActive' \in Nat /\ heavyQueue' \in Seq(Calls)
        /\ call' \in [Calls -> [kind : Kinds, pc : Points]]
    BY <2>1, MoveKeepsPermits DEF Points
  <2>3. \A d \in Calls \ {c} : call'[d] = call[d]
    BY <2>1 DEF Move, PoolTypeOK
  <2>4. \A i \in DOMAIN waiters : waiters[i] \in Calls \ {c}
    BY <2>1 DEF WaitersWait, Waiting, PoolTypeOK
  <2> QED
    BY <2>1, <2>2, <2>3, <2>4 DEF WaitersWait, PoolTypeOK
<1>6. ASSUME NEW c \in Calls, ConnectTimeout(c) PROVE PermitInv'
  <2>1. call[c].pc \in Waiting /\ Leave(c)
    BY <1>6 DEF ConnectTimeout
  <2>2. PICK k \in DOMAIN waiters :
          /\ waiters[k] = c
          /\ waiters' = SubSeq(waiters, 1, k - 1) \o SubSeq(waiters, k + 1, Len(waiters))
    BY <2>1 DEF Leave
  <2>3. /\ waiters' \in Seq(Calls) /\ Len(waiters') = Len(waiters) - 1
        /\ \A i \in 1 .. Len(waiters) - 1 : waiters'[i] = IF i < k THEN waiters[i] ELSE waiters[i + 1]
    <3>1. waiters \in Seq(Calls) /\ k \in 1 .. Len(waiters)
      BY DEF PoolTypeOK
    <3> DEFINE r == SubSeq(waiters, 1, k - 1) \o SubSeq(waiters, k + 1, Len(waiters))
    <3>2. /\ r \in Seq(Calls) /\ Len(r) = Len(waiters) - 1
          /\ \A i \in 1 .. Len(waiters) - 1 : r[i] = IF i < k THEN waiters[i] ELSE waiters[i + 1]
      BY <3>1, RemovedAt
    <3> HIDE DEF r
    <3>3. waiters' = r
      BY <2>2 DEF r
    <3> QED
      BY <3>2, <3>3
  <2>4. /\ PermitsCounted' /\ QueueMatches' /\ heavyActive' \in Nat /\ heavyQueue' \in Seq(Calls)
        /\ call' \in [Calls -> [kind : Kinds, pc : Points]]
        /\ \A d \in Calls \ {c} : call[d].pc # "queued" => call'[d] = call[d]
    <3>1. CASE call[c].pc = "nested"
      <4>1. Move(c, "inTransaction") /\ UnchangedHeavy
        BY <1>6, <3>1 DEF ConnectTimeout, At
      <4>2. \A d \in Calls \ {c} : call'[d] = call[d]
        BY <4>1 DEF Move, PoolTypeOK
      <4> QED
        BY <3>1, <4>1, <4>2, MoveKeepsPermits DEF Points
    <3>2. CASE call[c].pc # "nested"
      <4>1. Return(c)
        BY <1>6, <3>2 DEF ConnectTimeout, At
      <4> QED
        BY <4>1, <2>1, ReturnKeepsPermits DEF Waiting
    <3> QED
      BY <3>1, <3>2
  <2>5. \A d \in Calls \ {waiters[k]} : call[d].pc \in Waiting => call'[d].pc \in Waiting
    BY <2>2, <2>4 DEF Waiting
  <2>6. WaitersWait'
    BY <2>3, <2>5, LeaveWaiters
  <2> QED
    BY <2>3, <2>4, <2>6 DEF PoolTypeOK
<1>7. ASSUME Checkout PROVE PermitInv'
  <2> DEFINE c == Head(waiters)
  <2>1. waiters # <<>> /\ waiters' = Tail(waiters) /\ UnchangedHeavy
    BY <1>7 DEF Checkout
  <2>2. 1 \in DOMAIN waiters /\ c = waiters[1] /\ c \in Calls /\ call[c].pc \in Waiting
    BY <2>1 DEF WaitersWait, PoolTypeOK
  <2>3. PICK pc \in {"nestedQuery", "inTransaction", "querying"} : Move(c, pc)
    BY <1>7 DEF Checkout
  <2> HIDE DEF c
  <2>4. /\ PermitsCounted' /\ QueueMatches' /\ heavyActive' \in Nat /\ heavyQueue' \in Seq(Calls)
        /\ call' \in [Calls -> [kind : Kinds, pc : Points]]
    BY <2>1, <2>2, <2>3, MoveKeepsPermits DEF Points, Waiting
  <2>5. \A d \in Calls \ {waiters[1]} : call[d].pc \in Waiting => call'[d].pc \in Waiting
    BY <2>2, <2>3 DEF Move, PoolTypeOK
  <2>6. /\ waiters' \in Seq(Calls) /\ Len(waiters') = Len(waiters) - 1
        /\ \A i \in 1 .. Len(waiters) - 1 : waiters'[i] = IF i < 1 THEN waiters[i] ELSE waiters[i + 1]
    BY <2>1 DEF PoolTypeOK
  <2>7. WaitersWait'
    BY <2>2, <2>5, <2>6, LeaveWaiters
  <2> QED
    BY <2>4, <2>6, <2>7 DEF PoolTypeOK
<1>8. CASE UNCHANGED poolVars
  BY <1>8 DEF poolVars, PoolTypeOK, QueueMatches, WaitersWait, PermitsCounted, PermitHolders, Queued, At
<1> QED
  BY <1>1, <1>2, <1>3, <1>4, <1>5, <1>6, <1>7, <1>8 DEF PoolNext, CallNext

(* Type correctness of calls, permits and both queues. *)
THEOREM PoolTyping == PoolSpec => []PoolTypeOK
<1>1. PermitInv => PoolTypeOK
  BY DEF PermitInv
<1> QED
  BY <1>1, PermitInit, PermitStep, PTL DEF PoolSpec

(* heavyQuery never takes more than its quarter of the pool, and no permit   *)
(* is lost or left unused while somebody waits (acquireHeavy, releaseHeavy). *)
THEOREM PermitsCountedHolds == PoolSpec => []PermitsCounted
<1>1. PermitInv => PermitsCounted
  BY DEF PermitInv
<1> QED
  BY <1>1, PermitInit, PermitStep, PTL DEF PoolSpec

(* Who can be granted a permit in a step: a call that finds one free, or the *)
(* head of the queue.                                                        *)
LEMMA GrantSteps ==
  ASSUME PermitInv, [PoolNext]_poolVars, NEW c \in Calls,
         call[c].pc # "granted", call'[c].pc = "granted"
  PROVE  heavyActive < HeavyLimit \/ (heavyQueue # <<>> /\ c = Head(heavyQueue))
<1> USE DEF PermitInv, PoolTypeOK, Idle
<1>1. ASSUME NEW d \in Calls, NEW kind, NEW pc, Begin(d, kind, pc), pc # "granted" PROVE FALSE
  BY <1>1 DEF Begin
<1>2. ASSUME NEW d \in Calls, NEW pc, Move(d, pc), pc # "granted" PROVE FALSE
  BY <1>2 DEF Move
<1>3. ASSUME NEW d \in Calls, Return(d)
      PROVE  heavyQueue # <<>> /\ c = Head(heavyQueue)
  <2>1. CASE call' = [call EXCEPT ![d] = Idle]
    BY <2>1
  <2>2. CASE heavyQueue # <<>> /\ call' = [call EXCEPT ![d] = Idle, ![Head(heavyQueue)] = Granted]
    <3>1. Head(heavyQueue) \in Calls
      BY <2>2
    <3> QED
      BY <2>2, <3>1
  <2> QED
    BY <1>3, <2>1, <2>2 DEF Return, ReleaseHeavy
<1>4. ASSUME NEW d \in Calls, CallNext(d)
      PROVE  heavyActive < HeavyLimit \/ (heavyQueue # <<>> /\ c = Head(heavyQueue))
  <2>1. CASE Query(d) \/ Transaction(d)
    BY <2>1, <1>1 DEF Query, Transaction
  <2>2. CASE HeavyQuery(d)
    BY <2>2, <1>1 DEF HeavyQuery, AcquireHeavy
  <2>3. CASE StartHeavy(d) \/ NestedQuery(d) \/ NestedFinish(d)
    BY <2>3, <1>2 DEF StartHeavy, NestedQuery, NestedFinish
  <2>4. CASE Finish(d) \/ EndTransaction(d)
    BY <2>4, <1>3 DEF Finish, EndTransaction
  <2>5. CASE ConnectTimeout(d)
    BY <2>5, <1>2, <1>3 DEF ConnectTimeout
  <2> QED
    BY <1>4, <2>1, <2>2, <2>3, <2>4, <2>5 DEF CallNext
<1>5. CASE Checkout
  <2>1. waiters # <<>> /\ Head(waiters) \in Calls
    BY <1>5 DEF Checkout
  <2>2. PICK pc \in {"nestedQuery", "inTransaction", "querying"} : Move(Head(waiters), pc)
    BY <1>5 DEF Checkout
  <2> QED
    BY <2>1, <2>2, <1>2
<1>6. CASE UNCHANGED poolVars
  BY <1>6 DEF poolVars
<1> QED
  BY <1>4, <1>5, <1>6 DEF PoolNext

(* Permits are given in arrival order, and no newcomer overtakes the queue. *)
THEOREM ArrivalOrderHolds == PoolSpec => ArrivalOrder
<1>1. ASSUME PermitInv, [PoolNext]_poolVars,
             NEW c \in Calls, ~ At(c, "granted"), call'[c].pc = "granted",
             NEW d \in Queued \ {c}
      PROVE  \E i, j \in DOMAIN heavyQueue : i < j /\ heavyQueue[i] = c /\ heavyQueue[j] = d
  <2>1. heavyQueue # <<>> /\ c = Head(heavyQueue)
    <3>1. ~ (heavyActive < HeavyLimit)
      BY <1>1, LimitPositive DEF PermitInv, PermitsCounted
    <3> QED
      BY <1>1, <3>1, GrantSteps DEF At
  <2>2. 1 \in DOMAIN heavyQueue /\ heavyQueue[1] = c
    BY <1>1, <2>1 DEF PermitInv, PoolTypeOK
  <2>3. PICK j \in DOMAIN heavyQueue : heavyQueue[j] = d
    BY <1>1 DEF PermitInv, QueueMatches
  <2>4. 1 < j
    BY <1>1, <2>2, <2>3 DEF PermitInv, PoolTypeOK
  <2> QED
    BY <2>2, <2>3, <2>4
<1>2. PermitInv /\ [PoolNext]_poolVars =>
        [\A c \in Calls :
           ~ At(c, "granted") /\ call'[c].pc = "granted" =>
             \A d \in Queued \ {c} :
               \E i, j \in DOMAIN heavyQueue :
                  i < j /\ heavyQueue[i] = c /\ heavyQueue[j] = d]_poolVars
  BY <1>1
<1> QED
  BY <1>2, PermitInit, PermitStep, PTL DEF PoolSpec, ArrivalOrder
===============================================================================
