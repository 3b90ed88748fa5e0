---------------------------- MODULE ConnectionPool ----------------------------
(***************************************************************************)
(* The connections of one back-end process: DatabaseService over a pg Pool. *)
(*                                                                         *)
(* A call is a query, a heavy query or a transaction.  Heavy queries take  *)
(* one of HeavyLimit permits before they ask the pool for a connection; a  *)
(* permit that is given back goes straight to the longest waiting call.    *)
(* Some transactions ask the pool for a second connection while they hold  *)
(* the first (the approval of Nyra findings, saving a Zyra task, adding an *)
(* option to a custom field), so calls can wait for one another in a       *)
(* circle that only connectionTimeoutMillis breaks.                        *)
(*                                                                         *)
(* The pool is external: at most PoolMax connections, waiters served in    *)
(* arrival order, each for a limited time.                                 *)
(***************************************************************************)
EXTENDS Integers, FiniteSets, Sequences

CONSTANTS Calls,    \* calls of DatabaseService that can be in flight together
          PoolMax   \* pool.options.max

ASSUME PoolAssumption == PoolMax \in Nat \ {0} /\ IsFiniteSet(Calls)

VARIABLES call,         \* where each call is
          heavyActive,  \* permits taken
          heavyQueue,   \* heavy queries waiting for a permit
          waiters       \* calls in the queue of the pool

poolVars == <<call, heavyActive, heavyQueue, waiters>>

HeavyLimit == IF PoolMax \div 4 > 1 THEN PoolMax \div 4 ELSE 1

Kinds == {"query", "heavy", "transaction"}

Waiting == {"connecting", "nested"}

Points == {"idle", "queued", "granted", "querying", "inTransaction", "nestedQuery"} \cup Waiting

Idle == [kind |-> "query", pc |-> "idle"]

PoolTypeOK ==
    /\ call \in [Calls -> [kind : Kinds, pc : Points]]
    /\ heavyActive \in Nat
    /\ heavyQueue \in Seq(Calls)
    /\ waiters \in Seq(Calls)

PoolInit ==
    /\ call = [c \in Calls |-> Idle]
    /\ heavyActive = 0
    /\ heavyQueue = <<>>
    /\ waiters = <<>>

At(c, pc) == call[c].pc = pc

Move(c, pc) == call' = [call EXCEPT ![c].pc = pc]

Begin(c, kind, pc) == At(c, "idle") /\ call' = [call EXCEPT ![c] = [kind |-> kind, pc |-> pc]]

UnchangedHeavy == UNCHANGED <<heavyActive, heavyQueue>>

(* Connections that are checked out: a nested query holds a second one *)
InUse ==
    Cardinality({c \in Calls : call[c].pc \in {"querying", "inTransaction", "nested", "nestedQuery"}})
      + Cardinality({c \in Calls : At(c, "nestedQuery")})

----------------------------------------------------------------------------
(* Permits *)

(* One permit more than HeavyLimit *)
AcquireOneMore(c) ==
    IF heavyActive <= HeavyLimit
    THEN /\ Begin(c, "heavy", "granted")
         /\ heavyActive' = heavyActive + 1
         /\ UNCHANGED heavyQueue
    ELSE /\ Begin(c, "heavy", "queued")
         /\ heavyQueue' = Append(heavyQueue, c)
         /\ UNCHANGED heavyActive

AcquireHeavy(c) ==
    IF heavyActive < HeavyLimit
    THEN /\ Begin(c, "heavy", "granted")
         /\ heavyActive' = heavyActive + 1
         /\ UNCHANGED heavyQueue
    ELSE /\ Begin(c, "heavy", "queued")
         /\ heavyQueue' = Append(heavyQueue, c)
         /\ UNCHANGED heavyActive

Granted == [kind |-> "heavy", pc |-> "granted"]

(* A permit that is handed over and given back as well *)
ReleaseTwice(c) ==
    /\ heavyActive' = heavyActive - 1
    /\ IF heavyQueue = <<>>
       THEN call' = [call EXCEPT ![c] = Idle] /\ UNCHANGED heavyQueue
       ELSE /\ call' = [call EXCEPT ![c] = Idle, ![Head(heavyQueue)] = Granted]
            /\ heavyQueue' = Tail(heavyQueue)

(* pop() for shift() *)
ReleaseToNewest(c) ==
    IF heavyQueue = <<>>
    THEN /\ call' = [call EXCEPT ![c] = Idle]
         /\ heavyActive' = heavyActive - 1
         /\ UNCHANGED heavyQueue
    ELSE /\ call' = [call EXCEPT ![c] = Idle, ![heavyQueue[Len(heavyQueue)]] = Granted]
         /\ heavyQueue' = SubSeq(heavyQueue, 1, Len(heavyQueue) - 1)
         /\ UNCHANGED heavyActive

ReleaseHeavy(c) ==
    IF heavyQueue = <<>>
    THEN /\ call' = [call EXCEPT ![c] = Idle]
         /\ heavyActive' = heavyActive - 1
         /\ UNCHANGED heavyQueue
    ELSE /\ call' = [call EXCEPT ![c] = Idle, ![Head(heavyQueue)] = Granted]
         /\ heavyQueue' = Tail(heavyQueue)
         /\ UNCHANGED heavyActive

(* A call answers or throws; heavyQuery gives its permit back either way *)
Return(c) ==
    IF call[c].kind = "heavy" THEN ReleaseHeavy(c)
    ELSE call' = [call EXCEPT ![c] = Idle] /\ UnchangedHeavy

----------------------------------------------------------------------------
(* Calls *)

Query(c) ==
    /\ Begin(c, "query", "connecting")
    /\ waiters' = Append(waiters, c)
    /\ UnchangedHeavy

Transaction(c) ==
    /\ Begin(c, "transaction", "connecting")
    /\ waiters' = Append(waiters, c)
    /\ UnchangedHeavy

HeavyQuery(c) == AcquireHeavy(c) /\ UNCHANGED waiters

(* The continuation of acquireHeavy: query *)
StartHeavy(c) ==
    /\ At(c, "granted")
    /\ Move(c, "connecting")
    /\ waiters' = Append(waiters, c)
    /\ UnchangedHeavy

(* The statement of a query ends, with rows or with an error *)
Finish(c) ==
    /\ At(c, "querying")
    /\ Return(c)
    /\ UNCHANGED waiters

(* this.db.query within the callback of a transaction *)
NestedQuery(c) ==
    /\ At(c, "inTransaction")
    /\ Move(c, "nested")
    /\ waiters' = Append(waiters, c)
    /\ UnchangedHeavy

NestedFinish(c) ==
    /\ At(c, "nestedQuery")
    /\ Move(c, "inTransaction")
    /\ UnchangedHeavy
    /\ UNCHANGED waiters

(* COMMIT, or ROLLBACK whether it succeeds or not, and client.release() *)
EndTransaction(c) ==
    /\ At(c, "inTransaction")
    /\ Return(c)
    /\ UNCHANGED waiters

----------------------------------------------------------------------------
(* The pool *)

Checkout ==
    /\ waiters # <<>>
    /\ InUse < PoolMax
    /\ LET c == Head(waiters) IN
         Move(c, IF At(c, "nested") THEN "nestedQuery"
                 ELSE IF call[c].kind = "transaction" THEN "inTransaction" ELSE "querying")
    /\ waiters' = Tail(waiters)
    /\ UnchangedHeavy

(* c leaves the queue of the pool, wherever it stands in it *)
Leave(c) ==
    \E i \in DOMAIN waiters :
      /\ waiters[i] = c
      /\ waiters' = SubSeq(waiters, 1, i - 1) \o SubSeq(waiters, i + 1, Len(waiters))

(* No time limit for a caller that holds a connection already *)
ConnectTimeoutOuter(c) ==
    /\ At(c, "connecting")
    /\ Leave(c)
    /\ Return(c)

(* The pool gives up on a waiter: its time is over, or a handshake failed.   *)
(* A nested query throws into the callback of its transaction.               *)
ConnectTimeout(c) ==
    /\ call[c].pc \in Waiting
    /\ Leave(c)
    /\ IF At(c, "nested")
       THEN Move(c, "inTransaction") /\ UnchangedHeavy
       ELSE Return(c)

CallNext(c) ==
    \/ Query(c) \/ Transaction(c) \/ HeavyQuery(c) \/ StartHeavy(c) \/ Finish(c)
    \/ NestedQuery(c) \/ NestedFinish(c) \/ EndTransaction(c) \/ ConnectTimeout(c)

PoolNext == Checkout \/ \E c \in Calls : CallNext(c)

PoolSpec == PoolInit /\ [][PoolNext]_poolVars

(***************************************************************************)
(* Fairness.  A granted call goes on (a microtask); a statement ends       *)
(* (statement_timeout); a waiter is served or given up                     *)
(* (connectionTimeoutMillis); the callback of a transaction has finitely   *)
(* many statements, so it does not nest for ever.  Nothing is assumed of   *)
(* Checkout: the pool may serve nobody.                                    *)
(***************************************************************************)
PoolFairness ==
    \A c \in Calls :
      /\ WF_poolVars(StartHeavy(c)) /\ WF_poolVars(Finish(c)) /\ WF_poolVars(NestedFinish(c))
      /\ WF_poolVars(ConnectTimeout(c))
      /\ SF_poolVars(EndTransaction(c))

FairPoolSpec == PoolSpec /\ PoolFairness

----------------------------------------------------------------------------
(* Properties *)

Queued == {c \in Calls : At(c, "queued")}

PermitHolders == {c \in Calls : call[c].kind = "heavy" /\ call[c].pc \notin {"idle", "queued"}}

(* The permits in use are counted right and never exceed a quarter of the    *)
(* pool, so the other connections stay free for everything else; and nobody  *)
(* waits for a permit while one is free (acquireHeavy, releaseHeavy: each    *)
(* leaves the counter to the other in one of its branches).                  *)
PermitsCounted ==
    /\ heavyActive = Cardinality(PermitHolders)
    /\ heavyActive <= HeavyLimit
    /\ Queued # {} => heavyActive = HeavyLimit

(* Heavy queries get their permits in arrival order: whoever gets one was    *)
(* the first of the queue, and nobody gets one on arrival while others wait. *)
ArrivalOrder ==
    [][\A c \in Calls :
         ~ At(c, "granted") /\ call'[c].pc = "granted" =>
           \A d \in Queued \ {c} :
             \E i, j \in DOMAIN heavyQueue :
                i < j /\ heavyQueue[i] = c /\ heavyQueue[j] = d]_poolVars

(* Every call is answered, although transactions that hold every connection  *)
(* of the pool can all be waiting for one more.                              *)
EveryCallEnds == \A c \in Calls : ~ At(c, "idle") ~> At(c, "idle")
==============================================================================
