-------------------------- MODULE ArbitrationSteps --------------------------
(***************************************************************************)
(* The steps of the I/O engine that need no counting: the ones that        *)
(* preserve the invariant, and all of them as steps of the contract of its *)
(* qpairs.                                                                 *)
(***************************************************************************)
EXTENDS Arbitration, TLAPS

USE ZenonT(30)

-----------------------------------------------------------------------------
(* Steps that count nothing: the dealing of contexts to workers, the moves of
   work_fn between its loops, opening a qpair, starting to drain, the clock *)

\* A positive multiple of n is at least n.
LEMMA MulStep ==
  ASSUME NEW n \in Nat \ {0}, NEW d \in Int, d > 0
  PROVE  n * d >= n
  BY SMTT(30)

\* Division with remainder, as % and \div of the association compute it.
LEMMA DivMod ==
  ASSUME NEW n \in Nat \ {0}, NEW a \in Nat
  PROVE  /\ a \div n \in Int
         /\ a % n \in 0..(n - 1)
         /\ a = n * (a \div n) + (a % n)
  <1>1. a \div n \in Int /\ a % n \in 0..(n - 1)
    BY SMTT(30)
  <1>2. n > 0 /\ a \in Int
    BY SMTT(30)
  <1>3. a = n * (a \div n) + (a % n)
    BY <1>2, Z3
  <1> QED
    BY <1>1, <1>3

\* Quotient and remainder are unique.
LEMMA DivUnique ==
  ASSUME NEW n \in Nat \ {0}, NEW p \in Int, NEW q \in Int,
         NEW r \in 0..(n - 1), NEW t \in 0..(n - 1),
         n * p + r = n * q + t
  PROVE  p = q /\ r = t
  <1>1. n * (p - q) = t - r
    BY SMTT(30)
  <1>2. n * (q - p) = r - t
    BY SMTT(30)
  <1>3. ~(p - q > 0)
    BY SMTT(30), <1>1, MulStep
  <1>4. ~(q - p > 0)
    BY SMTT(30), <1>2, MulStep
  <1> QED
    BY SMTT(30), <1>3, <1>4

\* Adding n does not change the remainder: the next context in the list of a
\* worker has the same worker.
LEMMA ModStep ==
  ASSUME NEW n \in Nat \ {0}, NEW a \in Nat
  PROVE  (a + n) % n = a % n
  <1> DEFINE q == a \div n
             r == a % n
             p == (a + n) \div n
             t == (a + n) % n
  <1>1. q \in Int /\ r \in 0..(n - 1) /\ a = n * q + r
    BY DivMod
  <1>2. a + n \in Nat
    BY SMTT(30)
  <1>3. p \in Int /\ t \in 0..(n - 1) /\ a + n = n * p + t
    BY ZenonT(30), <1>2, DivMod
  <1> HIDE DEF q, r, p, t
  <1>4. n * (q + 1) + r = n * p + t
    BY SMTT(30), <1>1, <1>3
  <1>5. r = t
    BY SMTT(30), <1>1, <1>3, <1>4, q + 1 \in Int, DivUnique
  <1> QED
    BY <1>5 DEF r, t

\* Two numbers with the same remainder are at least n apart.
LEMMA ModGap ==
  ASSUME NEW n \in Nat \ {0}, NEW a \in Nat, NEW b \in Nat,
         a % n = b % n, a < b
  PROVE  a + n <= b
  <1> DEFINE q == a \div n
             p == b \div n
             r == a % n
             t == b % n
  <1>1. q \in Int /\ r \in 0..(n - 1) /\ a = n * q + r
    BY DivMod
  <1>2. p \in Int /\ t \in 0..(n - 1) /\ b = n * p + t
    BY DivMod
  <1>3. r = t
    OBVIOUS
  <1> HIDE DEF q, r, p, t
  <1>4. b - a = n * (p - q)
    BY SMTT(30), <1>1, <1>2, <1>3
  <1>5. p - q > 0
    <2>1. CASE q = p
      BY SMTT(30), <2>1, <1>1, <1>2, <1>3
    <2>2. CASE q - p > 0
      <3>1. n * (q - p) >= n
        BY SMTT(30), <2>2, <1>1, <1>2, MulStep
      <3> QED
        BY SMTT(30), <3>1, <1>1, <1>2, <1>3
    <2> QED
      BY SMTT(30), <2>1, <2>2, <1>1, <1>2
  <1> QED
    BY SMTT(30), <1>1, <1>2, <1>4, <1>5, MulStep

\* associate_workers_with_ns gives every context to a worker.
LEMMA OwnerType ==
  ASSUME NEW c \in Ctxs
  PROVE  worker_of(c) \in Workers
  <1>1. (c - 1) % NumWorkers \in 0..(NumWorkers - 1)
    BY SMTT(30), c - 1 \in Nat, ConstantsAssumption, DivMod DEF Ctxs
  <1> QED
    BY SMTT(30), <1>1, ConstantsAssumption DEF worker_of, Workers

\* First(w) is the least context of worker w.
LEMMA OwnerFirst ==
  ASSUME NEW w \in Workers
  PROVE  /\ First(w) # NULL => First(w) \in Ctxs /\ worker_of(First(w)) = w
         /\ \A c \in Ctxs : worker_of(c) = w => First(w) # NULL /\ First(w) <= c
  <1> USE ConstantsAssumption
  <1>1. w \in Nat \ {0} /\ w - 1 \in 0..(NumWorkers - 1) /\ w - 1 \in Nat
    BY SMTT(30) DEF Workers
  <1>2. (w - 1) % NumWorkers = w - 1
    BY SMTT(30), <1>1
  <1>3. First(w) # NULL => First(w) \in Ctxs /\ worker_of(First(w)) = w
    BY SMTT(30), <1>1, <1>2 DEF First, NULL, Ctxs, worker_of
  <1>4. ASSUME NEW c \in Ctxs, worker_of(c) = w
        PROVE  First(w) # NULL /\ First(w) <= c
    <2>1. c \in Nat /\ c - 1 \in Nat /\ c <= Count
      BY SMTT(30) DEF Ctxs
    <2>2. (c - 1) % NumWorkers \in Int
      BY SMTT(30), <2>1, DivMod
    <2>3. (c - 1) % NumWorkers = (w - 1) % NumWorkers
      BY SMTT(30), <1>1, <1>2, <1>4, <2>2 DEF worker_of
    <2>4. c - 1 < w - 1 => (c - 1) + NumWorkers <= w - 1
      BY ZenonT(30), <1>1, <2>1, <2>3, ModGap
    <2> QED
      BY SMTT(30), <1>1, <2>1, <2>4 DEF First, NULL, Ctxs
  <1> QED
    BY <1>3, <1>4

\* NextOf(c) is the least context after c of the same worker.
LEMMA OwnerNext ==
  ASSUME NEW c \in Ctxs
  PROVE  /\ NextOf(c) # NULL => /\ NextOf(c) \in Ctxs
                                /\ worker_of(NextOf(c)) = worker_of(c)
         /\ \A d \in Ctxs : worker_of(d) = worker_of(c) =>
              ((NextOf(c) = NULL \/ d < NextOf(c)) <=> d <= c)
  <1> USE ConstantsAssumption
  <1>1. c \in Nat /\ c - 1 \in Nat /\ c <= Count
    BY SMTT(30) DEF Ctxs
  <1>2. ((c - 1) + NumWorkers) % NumWorkers = (c - 1) % NumWorkers
    BY ZenonT(30), <1>1, ModStep
  <1>3. (c + NumWorkers) - 1 = (c - 1) + NumWorkers
    BY SMTT(30), <1>1
  <1>4. worker_of(c + NumWorkers) = worker_of(c)
    BY <1>2, <1>3 DEF worker_of
  <1>5. NextOf(c) # NULL => /\ NextOf(c) \in Ctxs
                            /\ worker_of(NextOf(c)) = worker_of(c)
    BY <1>4 DEF NextOf
  <1>6. ASSUME NEW d \in Ctxs, worker_of(d) = worker_of(c)
        PROVE  (NextOf(c) = NULL \/ d < NextOf(c)) <=> d <= c
    <2>1. d \in Nat /\ d - 1 \in Nat /\ d <= Count
      BY SMTT(30) DEF Ctxs
    <2>2. (d - 1) % NumWorkers \in Int /\ (c - 1) % NumWorkers \in Int
      BY SMTT(30), <1>1, <2>1, DivMod
    <2>3. (c - 1) % NumWorkers = (d - 1) % NumWorkers
      BY SMTT(30), <1>6, <2>2 DEF worker_of
    <2>4. c - 1 < d - 1 => (c - 1) + NumWorkers <= d - 1
      BY ZenonT(30), <1>1, <2>1, <2>3, ModGap
    <2> QED
      BY SMTT(30), <1>1, <2>1, <2>4 DEF NextOf, NULL, Ctxs
  <1> QED
    BY <1>5, <1>6

\* main() computes a natural number of tasks.
LEMMA TaskCountType == task_count \in Nat
  <1>1. Larger(NumNamespaces, NumWorkers) \in Nat
    BY ConstantsAssumption DEF Larger
  <1> QED
    BY SMTT(30), <1>1, ConstantsAssumption DEF task_count

\* A step that leaves workers, contexts and tasks alone preserves the invariant.
LEMMA FrameStep ==
  ASSUME IInv, UNCHANGED <<worker, ctxVars, expired, ioVars>>,
         main' \in MainPcs, PoolCreated' => PoolCreated,
         \A w \in Workers : WorkerInv(w)'
  PROVE  IInv'
  <1> USE DEF ctxVars, ioVars
  <1>1. TypeOK' /\ PoolAccounting' /\ DepthIsOutstanding' /\ QpairOutlivesIo'
    BY SMTT(30) DEF IInv, TypeOK, PoolAccounting, DepthIsOutstanding, QpairOutlivesIo, Outstanding
  <1>2. \A c \in Ctxs : CtxInv(worker_of(c), c)'
    BY DEF IInv, CtxInv
  <1>3. ASSUME NEW c \in Ctxs, NEW s \in Slots
        PROVE  SlotInv(worker_of(c), c, s)'
    <2>1. SlotInv(worker_of(c), c, s)
      BY DEF IInv
    <2> QED
      BY <2>1 DEF SlotInv, Used
  <1> QED
    BY <1>1, <1>2, <1>3 DEF IInv

\* A step of one worker leaves the places of the other workers alone: it is
\* enough to look at the contexts of the worker that moves.
LEMMA OtherWorkers ==
  ASSUME IInv, NEW w \in Workers, UNCHANGED main,
         worker' \in [Workers -> [pc : Pcs, cur : Ctxs \cup {NULL}, slot : Slots \cup {0}]],
         \A v \in Workers : v # w => worker'[v] = worker[v],
         \A c \in Ctxs : worker_of(c) # w =>
           /\ qpair'[c] = qpair[c]
           /\ draining'[c] = draining[c]
           /\ \A s \in Slots : /\ <<c, s>> \in inflight' <=> <<c, s>> \in inflight
                               /\ <<c, s>> \in lost' <=> <<c, s>> \in lost,
         WorkerInv(w)',
         \A c \in Ctxs : worker_of(c) = w => CtxInv(w, c)',
         \A c \in Ctxs, s \in Slots : worker_of(c) = w => SlotInv(w, c, s)'
  PROVE  /\ \A v \in Workers : WorkerInv(v)'
         /\ \A c \in Ctxs : CtxInv(worker_of(c), c)'
         /\ \A c \in Ctxs, s \in Slots : SlotInv(worker_of(c), c, s)'
  <1>1. ASSUME NEW v \in Workers, v # w
        PROVE  WorkerInv(v)'
    BY SMTT(30), <1>1 DEF IInv, WorkerInv
  <1>2. ASSUME NEW c \in Ctxs, worker_of(c) # w
        PROVE  CtxInv(worker_of(c), c)'
    BY <1>2, OwnerType DEF IInv, CtxInv
  <1>3. ASSUME NEW c \in Ctxs, NEW s \in Slots, worker_of(c) # w
        PROVE  SlotInv(worker_of(c), c, s)'
    BY SMTT(30), <1>3, OwnerType DEF IInv, SlotInv, Used
  <1> QED
    BY <1>1, <1>2, <1>3

\* A move of work_fn preserves the invariant when the places of its own contexts
\* agree with where it goes.
LEMMA MoveStep ==
  ASSUME IInv, NEW w \in Workers, NEW from \in Pcs, NEW pc \in Pcs,
         NEW cur \in Ctxs \cup {NULL}, NEW slot \in Slots \cup {0},
         Move(w, from, pc, cur, slot),
         pc # "idle", pc # "resubmit",
         cur # NULL => worker_of(cur) = w,
         \A c \in Ctxs : worker_of(c) = w => CtxInv(w, c)',
         \A c \in Ctxs, s \in Slots : worker_of(c) = w => SlotInv(w, c, s)'
  PROVE  IInv'
  <1> USE DEF Move, At, Goto, ctxVars, ioVars
  <1>1. worker' \in [Workers -> [pc : Pcs, cur : Ctxs \cup {NULL}, slot : Slots \cup {0}]]
    BY DEF IInv, TypeOK
  <1>2. TypeOK' /\ PoolAccounting' /\ DepthIsOutstanding' /\ QpairOutlivesIo'
    BY SMTT(30), <1>1 DEF IInv, TypeOK, PoolAccounting, PoolCreated, DepthIsOutstanding, QpairOutlivesIo,
       Outstanding
  <1>3. worker'[w] = [pc |-> pc, cur |-> cur, slot |-> slot]
    BY DEF IInv, TypeOK
  <1>4. WorkerInv(w)'
    BY SMTT(30), <1>3 DEF WorkerInv
  <1>5. \A v \in Workers : v # w => worker'[v] = worker[v]
    BY DEF IInv, TypeOK
  <1> QED
    BY <1>1, <1>2, <1>4, <1>5, OtherWorkers DEF IInv

\* What a move of worker w does to the state the invariant speaks of.
LEMMA MoveEffect ==
  ASSUME IInv, NEW w \in Workers, NEW from, NEW pc, NEW cur, NEW slot,
         Move(w, from, pc, cur, slot)
  PROVE  /\ worker[w].pc = from
         /\ worker'[w] = [pc |-> pc, cur |-> cur, slot |-> slot]
         /\ qpair' = qpair /\ draining' = draining /\ inflight' = inflight /\ lost' = lost
         /\ Used' = Used
  BY DEF IInv, TypeOK, Move, At, Goto, ctxVars, ioVars, Used

\* The moves of work_fn between its loops.
LEMMA MovesIInv ==
  ASSUME IInv, NEW w \in Workers,
         \/ StartSubmit(w) \/ SubmitNextCtx(w) \/ StartPoll(w)
         \/ check_io_return(w) \/ PollAgain(w) \/ StopPolling(w) \/ WorkerReturns(w)
  PROVE  IInv'
  <1>0. PICK cur : cur = worker[w].cur
    OBVIOUS
  <1>1. cur \in Ctxs \cup {NULL} /\ QueueDepth \in Nat /\ QueueDepth > 0
    BY SMTT(30), <1>0, ConstantsAssumption DEF IInv, TypeOK
  <1>2. cur # NULL => cur \in Ctxs /\ worker_of(cur) = w
    BY <1>0, <1>1 DEF IInv, WorkerInv
  <1>3. First(w) \in Ctxs \cup {NULL} /\ (First(w) # NULL => worker_of(First(w)) = w)
    BY OwnerFirst
  <1>4. cur # NULL => /\ NextOf(cur) \in Ctxs \cup {NULL}
                      /\ NextOf(cur) # NULL => worker_of(NextOf(cur)) = w
    BY <1>2, OwnerNext
  <1>5. QueueDepth \in Slots \cup {0} /\ 0 \in Slots \cup {0} /\ NULL \in Ctxs \cup {NULL}
    BY SMTT(30), ConstantsAssumption DEF Slots
  <1>6. ASSUME NEW c \in Ctxs, worker_of(c) = w
        PROVE  /\ CtxInv(w, c) /\ \A s \in Slots : SlotInv(w, c, s)
               /\ c \in Nat /\ First(w) # NULL /\ First(w) \in Nat /\ First(w) <= c
               /\ cur # NULL => /\ (NextOf(cur) = NULL \/ c < NextOf(cur)) <=> c <= cur
                                /\ cur \in Nat
    <2>1. CtxInv(w, c) /\ \A s \in Slots : SlotInv(w, c, s)
      BY <1>6 DEF IInv
    <2>2. First(w) # NULL /\ First(w) \in Ctxs /\ First(w) <= c
      BY <1>6, OwnerFirst
    <2>3. cur # NULL => ((NextOf(cur) = NULL \/ c < NextOf(cur)) <=> c <= cur)
      BY <1>2, <1>6, OwnerNext
    <2> QED
      BY SMTT(30), <1>2, <2>1, <2>2, <2>3 DEF Ctxs
  <1>7. CASE StartSubmit(w)
    <2>1. cur = NULL /\ Move(w, "init", "submit", First(w), QueueDepth)
      BY <1>0, <1>7 DEF StartSubmit
    <2>2. /\ worker[w].pc = "init"
          /\ worker'[w] = [pc |-> "submit", cur |-> First(w), slot |-> QueueDepth]
          /\ qpair' = qpair /\ draining' = draining /\ inflight' = inflight /\ lost' = lost
          /\ Used' = Used
      BY <2>1, MoveEffect
    <2>3. ASSUME NEW c \in Ctxs, worker_of(c) = w
          PROVE  CtxInv(w, c)'
      BY <1>0, <1>6, <2>1, <2>2, <2>3 DEF CtxInv
    <2>4. ASSUME NEW c \in Ctxs, NEW s \in Slots, worker_of(c) = w
          PROVE  SlotInv(w, c, s)'
      <3>1. s \in Nat /\ s > 0 /\ s <= QueueDepth
        BY SMTT(30), <1>1 DEF Slots
      <3> QED
        BY SMTT(30), <1>0, <1>1, <1>6, <2>1, <2>2, <2>4, <3>1 DEF SlotInv
    <2> QED
      BY <1>3, <1>4, <1>5, <2>1, <2>3, <2>4, MoveStep DEF Pcs
  <1>8. CASE SubmitNextCtx(w)
    <2>1. cur # NULL /\ worker[w].slot = 0 /\ Move(w, "submit", "submit", NextOf(cur), QueueDepth)
      BY <1>0, <1>8 DEF SubmitNextCtx
    <2>2. /\ worker[w].pc = "submit"
          /\ worker'[w] = [pc |-> "submit", cur |-> NextOf(cur), slot |-> QueueDepth]
          /\ qpair' = qpair /\ draining' = draining /\ inflight' = inflight /\ lost' = lost
          /\ Used' = Used
      BY <2>1, MoveEffect
    <2>3. ASSUME NEW c \in Ctxs, worker_of(c) = w
          PROVE  CtxInv(w, c)'
      BY <1>0, <1>6, <2>1, <2>2, <2>3 DEF CtxInv
    <2>4. ASSUME NEW c \in Ctxs, NEW s \in Slots, worker_of(c) = w
          PROVE  SlotInv(w, c, s)'
      <3>1. s \in Nat /\ s > 0 /\ s <= QueueDepth
        BY SMTT(30), <1>1 DEF Slots
      <3> QED
        BY SMTT(30), <1>0, <1>1, <1>6, <2>1, <2>2, <2>4, <3>1 DEF SlotInv
    <2> QED
      BY <1>3, <1>4, <1>5, <2>1, <2>3, <2>4, MoveStep DEF Pcs
  <1>9. CASE StartPoll(w)
    <2>1. cur = NULL /\ Move(w, "submit", "poll", First(w), 0)
      BY <1>0, <1>9 DEF StartPoll
    <2>2. /\ worker[w].pc = "submit"
          /\ worker'[w] = [pc |-> "poll", cur |-> First(w), slot |-> 0]
          /\ qpair' = qpair /\ draining' = draining /\ inflight' = inflight /\ lost' = lost
          /\ Used' = Used
      BY <2>1, MoveEffect
    <2>3. ASSUME NEW c \in Ctxs, worker_of(c) = w
          PROVE  CtxInv(w, c)'
      BY <1>0, <1>6, <2>1, <2>2, <2>3 DEF CtxInv
    <2>4. ASSUME NEW c \in Ctxs, NEW s \in Slots, worker_of(c) = w
          PROVE  SlotInv(w, c, s)'
      <3>1. s \in Nat /\ s > 0 /\ s <= QueueDepth
        BY SMTT(30), <1>1 DEF Slots
      <3> QED
        BY SMTT(30), <1>0, <1>1, <1>6, <2>1, <2>2, <2>4, <3>1 DEF SlotInv
    <2> QED
      BY <1>3, <1>4, <1>5, <2>1, <2>3, <2>4, MoveStep DEF Pcs
  <1>10. CASE check_io_return(w)
    <2>1. cur # NULL /\ Move(w, "poll", "poll", NextOf(cur), 0)
      BY <1>0, <1>10 DEF check_io_return
    <2>2. /\ worker[w].pc = "poll"
          /\ worker'[w] = [pc |-> "poll", cur |-> NextOf(cur), slot |-> 0]
          /\ qpair' = qpair /\ draining' = draining /\ inflight' = inflight /\ lost' = lost
          /\ Used' = Used
      BY <2>1, MoveEffect
    <2>3. ASSUME NEW c \in Ctxs, worker_of(c) = w
          PROVE  CtxInv(w, c)'
      BY <1>0, <1>6, <2>1, <2>2, <2>3 DEF CtxInv
    <2>4. ASSUME NEW c \in Ctxs, NEW s \in Slots, worker_of(c) = w
          PROVE  SlotInv(w, c, s)'
      <3>1. s \in Nat /\ s > 0 /\ s <= QueueDepth
        BY SMTT(30), <1>1 DEF Slots
      <3> QED
        BY SMTT(30), <1>0, <1>1, <1>6, <2>1, <2>2, <2>4, <3>1 DEF SlotInv
    <2> QED
      BY <1>3, <1>4, <1>5, <2>1, <2>3, <2>4, MoveStep DEF Pcs
  <1>11. CASE PollAgain(w)
    <2>1. cur = NULL /\ Move(w, "poll", "poll", First(w), 0)
      BY <1>0, <1>11 DEF PollAgain
    <2>2. /\ worker[w].pc = "poll"
          /\ worker'[w] = [pc |-> "poll", cur |-> First(w), slot |-> 0]
          /\ qpair' = qpair /\ draining' = draining /\ inflight' = inflight /\ lost' = lost
          /\ Used' = Used
      BY <2>1, MoveEffect
    <2>3. ASSUME NEW c \in Ctxs, worker_of(c) = w
          PROVE  CtxInv(w, c)'
      BY <1>0, <1>6, <2>1, <2>2, <2>3 DEF CtxInv
    <2>4. ASSUME NEW c \in Ctxs, NEW s \in Slots, worker_of(c) = w
          PROVE  SlotInv(w, c, s)'
      <3>1. s \in Nat /\ s > 0 /\ s <= QueueDepth
        BY SMTT(30), <1>1 DEF Slots
      <3> QED
        BY SMTT(30), <1>0, <1>1, <1>6, <2>1, <2>2, <2>4, <3>1 DEF SlotInv
    <2> QED
      BY <1>3, <1>4, <1>5, <2>1, <2>3, <2>4, MoveStep DEF Pcs
  <1>12. CASE StopPolling(w)
    <2>1. cur = NULL /\ Move(w, "poll", "drain", First(w), 0)
      BY <1>0, <1>12 DEF StopPolling
    <2>2. /\ worker[w].pc = "poll"
          /\ worker'[w] = [pc |-> "drain", cur |-> First(w), slot |-> 0]
          /\ qpair' = qpair /\ draining' = draining /\ inflight' = inflight /\ lost' = lost
          /\ Used' = Used
      BY <2>1, MoveEffect
    <2>3. ASSUME NEW c \in Ctxs, worker_of(c) = w
          PROVE  CtxInv(w, c)'
      BY <1>0, <1>6, <2>1, <2>2, <2>3 DEF CtxInv
    <2>4. ASSUME NEW c \in Ctxs, NEW s \in Slots, worker_of(c) = w
          PROVE  SlotInv(w, c, s)'
      <3>1. s \in Nat /\ s > 0 /\ s <= QueueDepth
        BY SMTT(30), <1>1 DEF Slots
      <3> QED
        BY SMTT(30), <1>0, <1>1, <1>6, <2>1, <2>2, <2>4, <3>1 DEF SlotInv
    <2> QED
      BY <1>3, <1>4, <1>5, <2>1, <2>3, <2>4, MoveStep DEF Pcs
  <1>13. CASE WorkerReturns(w)
    <2>1. cur = NULL /\ Move(w, "drain", "done", NULL, 0)
      BY <1>0, <1>13 DEF WorkerReturns
    <2>2. /\ worker[w].pc = "drain"
          /\ worker'[w] = [pc |-> "done", cur |-> NULL, slot |-> 0]
          /\ qpair' = qpair /\ draining' = draining /\ inflight' = inflight /\ lost' = lost
          /\ Used' = Used
      BY <2>1, MoveEffect
    <2>3. ASSUME NEW c \in Ctxs, worker_of(c) = w
          PROVE  CtxInv(w, c)'
      BY SMTT(30), <1>0, <1>6, <2>1, <2>2, <2>3 DEF CtxInv
    <2>4. ASSUME NEW c \in Ctxs, NEW s \in Slots, worker_of(c) = w
          PROVE  SlotInv(w, c, s)'
      <3>1. s \in Nat /\ s > 0 /\ s <= QueueDepth
        BY SMTT(30), <1>1 DEF Slots
      <3> QED
        BY SMTT(30), <1>0, <1>1, <1>6, <2>1, <2>2, <2>4, <3>1 DEF SlotInv
    <2> QED
      BY <1>3, <1>4, <1>5, <2>1, <2>3, <2>4, MoveStep DEF Pcs
  <1> QED
    BY <1>7, <1>8, <1>9, <1>10, <1>11, <1>12, <1>13

\* Opening a qpair, or failing to.
LEMMA InitCtxIInv ==
  ASSUME IInv, NEW w \in Workers, init_ns_worker_ctx(w)
  PROVE  IInv'
  <1> DEFINE cur == worker[w].cur
  <1> USE ConstantsAssumption DEF init_ns_worker_ctx, At, Goto, ioVars
  <1>1. cur \in Ctxs /\ worker_of(cur) = w
    BY DEF IInv, TypeOK, WorkerInv
  <1>2. /\ NextOf(cur) \in Ctxs \cup {NULL}
        /\ NextOf(cur) # NULL => worker_of(NextOf(cur)) = w
    BY <1>1, OwnerNext
  <1>3. worker'[w] \in {[pc |-> "init", cur |-> NextOf(cur), slot |-> 0],
                        [pc |-> "failed", cur |-> NULL, slot |-> 0]}
    BY DEF IInv, TypeOK
  <1>4. worker' \in [Workers -> [pc : Pcs, cur : Ctxs \cup {NULL}, slot : Slots \cup {0}]]
    BY SMTT(30), <1>2 DEF IInv, TypeOK, Pcs
  <1>5. TypeOK' /\ PoolAccounting' /\ DepthIsOutstanding'
    <2>1. qpair' \in [Ctxs -> {"none", "open", "freed"}]
      BY <1>1 DEF IInv, TypeOK
    <2>2. TypeOK'
      BY <1>4, <2>1 DEF IInv, TypeOK
    <2>3. PoolAccounting'
      BY DEF IInv, PoolAccounting, PoolCreated
    <2>4. DepthIsOutstanding'
      BY DEF IInv, DepthIsOutstanding, Outstanding
    <2> QED
      BY <2>2, <2>3, <2>4
  <1>6. QpairOutlivesIo'
    BY <1>1 DEF IInv, TypeOK, QpairOutlivesIo
  <1>7. WorkerInv(w)'
    BY SMTT(30), <1>2, <1>3 DEF WorkerInv
  <1>8. ASSUME NEW c \in Ctxs, worker_of(c) = w
        PROVE  CtxInv(w, c)' /\ \A s \in Slots : SlotInv(w, c, s)'
    <2>1. CtxInv(w, c) /\ \A s \in Slots : SlotInv(w, c, s)
      BY <1>8 DEF IInv
    <2>2. (NextOf(cur) = NULL \/ c < NextOf(cur)) <=> c <= cur
      BY <1>1, <1>8, OwnerNext
    <2>3. \A s \in Slots : SlotInv(w, c, s)'
      BY SMTT(30), <1>3, <2>1 DEF SlotInv, Used
    <2>4. /\ draining'[c] = draining[c] /\ worker[w].pc = "init"
          /\ worker'[w].pc = "init" => qpair'[c] = IF c = cur THEN "open" ELSE qpair[c]
      BY SMTT(30), <1>1 DEF IInv, TypeOK
    <2>5. c \in Nat /\ cur \in Nat /\ cur # NULL
      BY SMTT(30), <1>1 DEF Ctxs, NULL
    <2>6. CtxInv(w, c)'
      BY SMTT(30), <1>3, <2>1, <2>2, <2>4, <2>5 DEF CtxInv
    <2> QED
      BY <2>3, <2>6
  <1>9. /\ \A v \in Workers : v # w => worker'[v] = worker[v]
        /\ \A c \in Ctxs : worker_of(c) # w => qpair'[c] = qpair[c]
    BY <1>1 DEF IInv, TypeOK
  <1> QED
    BY <1>4, <1>5, <1>6, <1>7, <1>8, <1>9, OtherWorkers DEF IInv

\* A submission adds its slot to the commands of its context only.
LEMMA OutstandingAdd ==
  ASSUME NEW c \in Ctxs, NEW s \in Slots, inflight' = inflight \cup {<<c, s>>}
  PROVE  /\ Outstanding(c)' = Outstanding(c) \cup {s}
         /\ \A d \in Ctxs : d # c => Outstanding(d)' = Outstanding(d)
  BY DEF Outstanding

\* A completion removes its slot from the commands of its context only.
LEMMA OutstandingRemove ==
  ASSUME NEW c \in Ctxs, NEW s \in Slots, inflight' = inflight \ {<<c, s>>}
  PROVE  /\ Outstanding(c)' = Outstanding(c) \ {s}
         /\ \A d \in Ctxs : d # c => Outstanding(d)' = Outstanding(d)
  BY DEF Outstanding

\* A completion takes its slot from its own worker's context, and sends the worker
\* to the resubmission unless the context drains: every worker, context and slot is
\* as its place says.
LEMMA CompletionPlaces ==
  ASSUME IInv, NEW w \in Workers, NEW s \in Slots, task_complete(w, s)
  PROVE  /\ \A v \in Workers : WorkerInv(v)'
         /\ \A d \in Ctxs : CtxInv(worker_of(d), d)'
         /\ \A d \in Ctxs, t \in Slots : SlotInv(worker_of(d), d, t)'
  <1>0. PICK c : c = worker[w].cur
    OBVIOUS
  <1> USE ConstantsAssumption, <1>0
  <1>1. /\ CompletionOf(w, c, s)
        /\ IF draining[c] THEN UNCHANGED worker ELSE Goto(w, "resubmit", c, s)
    BY DEF task_complete
  <1>2. /\ <<c, s>> \in inflight /\ c \in Ctxs
        /\ inflight' = inflight \ {<<c, s>>}
        /\ UNCHANGED <<main, qpair, draining, lost>>
        /\ main = "working" /\ worker[w].pc \in {"poll", "drain"}
    BY <1>1 DEF CompletionOf, IInv, TypeOK, At
  <1>3. worker_of(c) = w
    BY SMTT(30), <1>2 DEF IInv, WorkerInv, NULL, Ctxs
  <1>4. worker'[w] = IF draining[c] THEN worker[w] ELSE [pc |-> "resubmit", cur |-> c, slot |-> s]
    BY <1>1 DEF Goto, IInv, TypeOK
  <1>5. worker' \in [Workers -> [pc : Pcs, cur : Ctxs \cup {NULL}, slot : Slots \cup {0}]]
    BY SMTT(30), <1>1, <1>2 DEF Goto, IInv, TypeOK, Pcs
  <1>6. WorkerInv(w)'
    BY SMTT(30), <1>2, <1>3, <1>4 DEF IInv, WorkerInv, NULL, Slots, Ctxs
  <1>7. ASSUME NEW d \in Ctxs, worker_of(d) = w
         PROVE  CtxInv(w, d)' /\ \A t \in Slots : SlotInv(w, d, t)'
    <2>1. CtxInv(w, d) /\ CtxInv(w, c) /\ \A t \in Slots : SlotInv(w, d, t)
      BY <1>2, <1>3, <1>7 DEF IInv
    <2>2. draining[c] => worker[w].pc = "drain"
      BY <1>2, <2>1 DEF CtxInv
    <2>3. ~draining[c] => worker[w].pc = "poll"
      BY <1>1 DEF CompletionOf, At
    <2>4. CtxInv(w, d)'
      BY <1>2, <1>4, <2>1, <2>2, <2>3 DEF CtxInv
    <2>5. <<c, s>> \notin lost
      BY <1>2 DEF IInv
    <2>6. ASSUME NEW t \in Slots
          PROVE  SlotInv(w, d, t)'
      <3>1. /\ <<d, t>> \in inflight' <=> <<d, t>> \in inflight /\ ~(d = c /\ t = s)
            /\ <<d, t>> \in Used' <=> <<d, t>> \in Used /\ ~(d = c /\ t = s)
        BY <1>2, <2>5 DEF Used
      <3>2. CASE draining[c]
        BY <1>2, <1>4, <2>1, <2>2, <3>1, <3>2 DEF SlotInv
      <3>3. CASE ~draining[c]
        BY SMTT(30), <1>2, <1>4, <2>1, <2>3, <3>1, <3>3 DEF SlotInv
      <3> QED
        BY <3>2, <3>3
    <2> QED
      BY <2>4, <2>6
  <1>8. \A v \in Workers : v # w => worker'[v] = worker[v]
    BY <1>1 DEF Goto, IInv, TypeOK
  <1>9. \A d \in Ctxs : worker_of(d) # w =>
          /\ qpair'[d] = qpair[d]
          /\ draining'[d] = draining[d]
          /\ \A t \in Slots : /\ <<d, t>> \in inflight' <=> <<d, t>> \in inflight
                              /\ <<d, t>> \in lost' <=> <<d, t>> \in lost
    BY <1>2, <1>3
  <1>10. /\ \A d \in Ctxs : worker_of(d) = w => CtxInv(w, d)'
         /\ \A d \in Ctxs, t \in Slots : worker_of(d) = w => SlotInv(w, d, t)'
    BY <1>7
  <1>11. UNCHANGED main
    BY <1>2
  <1> QED
    BY <1>5, <1>6, <1>8, <1>9, <1>10, <1>11, OtherWorkers

\* exit(1) leaves everything as it was.
LEMMA ExitIInv ==
  ASSUME IInv, main = "working", Exit1
  PROVE  IInv'
  <1>1. \A w \in Workers : WorkerInv(w)'
    BY DEF IInv, WorkerInv, Exit1
  <1>2. main' \in MainPcs /\ PoolCreated
    BY DEF MainPcs, PoolCreated, Exit1
  <1> QED
    BY <1>1, <1>2, FrameStep DEF Exit1

\* Setting is_draining.
LEMMA DrainIInv ==
  ASSUME IInv, NEW w \in Workers, drain_io(w)
  PROVE  IInv'
  <1> DEFINE c == worker[w].cur
  <1> USE DEF drain_io, At, ioVars
  <1>1. c \in Ctxs /\ worker_of(c) = w /\ worker[w].pc = "drain"
    BY DEF IInv, TypeOK, WorkerInv
  <1>2. TypeOK' /\ PoolAccounting' /\ DepthIsOutstanding' /\ QpairOutlivesIo'
    BY SMTT(30), <1>1 DEF IInv, TypeOK, PoolAccounting, PoolCreated, DepthIsOutstanding, QpairOutlivesIo,
       Outstanding
  <1>3. \A v \in Workers : WorkerInv(v)'
    BY DEF IInv, WorkerInv
  <1>4. ASSUME NEW d \in Ctxs
        PROVE  CtxInv(worker_of(d), d)'
    BY <1>1 DEF IInv, TypeOK, CtxInv
  <1>5. ASSUME NEW d \in Ctxs, NEW t \in Slots
        PROVE  SlotInv(worker_of(d), d, t)'
    <2>1. SlotInv(worker_of(d), d, t)
      BY DEF IInv
    <2> QED
      BY <2>1 DEF SlotInv, Used
  <1> QED
    BY <1>2, <1>3, <1>4, <1>5 DEF IInv

\* The passing of time.
LEMMA ClockIInv ==
  ASSUME IInv, NEW w \in Workers, Clock(w)
  PROVE  IInv'
  <1> USE DEF Clock, ctxVars, ioVars
  <1>1. TypeOK' /\ PoolAccounting' /\ DepthIsOutstanding' /\ QpairOutlivesIo'
    BY SMTT(30) DEF IInv, TypeOK, PoolAccounting, PoolCreated, DepthIsOutstanding, QpairOutlivesIo,
       Outstanding
  <1>2. \A v \in Workers : WorkerInv(v)'
    BY DEF IInv, WorkerInv
  <1>3. \A c \in Ctxs : CtxInv(worker_of(c), c)'
    BY ZenonT(30) DEF IInv, CtxInv
  <1>4. ASSUME NEW c \in Ctxs, NEW s \in Slots
        PROVE  SlotInv(worker_of(c), c, s)'
    <2>1. SlotInv(worker_of(c), c, s)
      BY DEF IInv
    <2> QED
      BY <2>1 DEF SlotInv, Used
  <1> QED
    BY <1>1, <1>2, <1>3, <1>4 DEF IInv

-----------------------------------------------------------------------------
(* The steps as steps of QpairContract *)

\* A step that leaves the qpairs alone and takes a worker to none of the places
\* OpenInv speaks of.
LEMMA QFrame ==
  ASSUME IInv, QInv, NEW w \in Workers, UNCHANGED qpair,
         \/ UNCHANGED worker
         \/ \E pc \in {"submit", "poll", "resubmit", "done", "failed"} : \E cur, slot :
              Goto(w, pc, cur, slot)
  PROVE  QInv'
  <1> SUFFICES ASSUME NEW c \in Ctxs
               PROVE  OpenInv(worker_of(c), c)'
    BY DEF QInv, worker_of, Ctxs
  <1>1. OpenInv(worker_of(c), c) /\ worker_of(c) \in Workers
    BY OwnerType DEF QInv
  <1>2. CASE UNCHANGED worker
    BY <1>1, <1>2 DEF OpenInv, worker_of
  <1>3. CASE ~UNCHANGED worker
    <2>1. PICK pc \in {"submit", "poll", "resubmit", "done", "failed"} : \E cur, slot :
            worker' = [worker EXCEPT ![w] = [pc |-> pc, cur |-> cur, slot |-> slot]]
      BY <1>3 DEF Goto
    <2>2. CASE worker_of(c) = w
      <3>1. worker'[w].pc = pc
        BY SMTT(30), <2>1 DEF IInv, TypeOK
      <3> QED
        BY <2>2, <3>1 DEF OpenInv, worker_of
    <2>3. CASE worker_of(c) # w
      <3>1. worker'[worker_of(c)] = worker[worker_of(c)]
        BY <1>1, <2>1, <2>3 DEF IInv, TypeOK
      <3> QED
        BY <1>1, <3>1 DEF OpenInv, worker_of
    <2> QED
      BY <2>2, <2>3
  <1> QED
    BY <1>2, <1>3

\* Launching the workers, and the other steps of main().
LEMMA MainQInv ==
  ASSUME IInv, QInv, MainNext
  PROVE  QInv' /\ UNCHANGED <<qpair, draining, inflight>>
  <1>1. CASE launch
    <2>1. UNCHANGED <<qpair, draining, inflight>>
      BY <1>1 DEF launch, ctxVars, ioVars
    <2>2. ASSUME NEW c \in Ctxs
          PROVE  OpenInv(worker_of(c), c)'
      <3>1. worker_of(c) \in Workers
        BY OwnerType
      <3>2. worker[worker_of(c)].pc = "idle"
        BY <1>1, <3>1 DEF launch, IInv, WorkerInv
      <3>3. qpair[c] = "none"
        BY <3>2 DEF QInv, OpenInv
      <3>4. worker'[worker_of(c)].pc = "init"
        BY <1>1, <3>1 DEF launch
      <3> QED
        BY <2>1, <3>3, <3>4 DEF OpenInv, worker_of
    <2> QED
      BY <2>1, <2>2 DEF QInv, worker_of, Ctxs
  <1>2. CASE MainNext /\ ~launch
    <2>1. UNCHANGED <<qpair, draining, inflight, worker>>
      BY <1>2 DEF MainNext, register_workers, register_controllers, associate_workers_with_ns,
         create_pool, wait_all, zstore_cleanup, zstore_cleanup_without_pool, Setup, ctxVars, ioVars
    <2> QED
      BY <2>1 DEF QInv, OpenInv, worker_of, Ctxs
  <1> QED
    BY <1>1, <1>2

\* The moves of work_fn between its loops, and the clock.
LEMMA MovesQInv ==
  ASSUME IInv, QInv, NEW w \in Workers,
         \/ StartSubmit(w) \/ SubmitNextCtx(w) \/ StartPoll(w) \/ PollAgain(w)
         \/ StopPolling(w) \/ WorkerReturns(w) \/ check_io_return(w) \/ Clock(w)
  PROVE  QInv' /\ UNCHANGED <<qpair, draining, inflight>>
  <1>1. UNCHANGED <<qpair, draining, inflight>>
    BY DEF StartSubmit, SubmitNextCtx, StartPoll, PollAgain, StopPolling, WorkerReturns,
       check_io_return, Clock, Move, ctxVars, ioVars
  <1>2. CASE StopPolling(w)
    <2>1. worker' = [worker EXCEPT ![w] = [pc |-> "drain", cur |-> First(w), slot |-> 0]]
          /\ worker[w].pc = "poll"
      BY <1>2 DEF StopPolling, Move, Goto, At
    <2>2. ASSUME NEW c \in Ctxs
          PROVE  OpenInv(worker_of(c), c)'
      <3>1. OpenInv(worker_of(c), c) /\ worker_of(c) \in Workers
        BY OwnerType DEF QInv
      <3>2. CASE worker_of(c) = w
        <4>1. qpair[c] = "open"
          BY <2>1, <3>2 DEF IInv, CtxInv
        <4>2. worker'[w].pc = "drain"
          BY <2>1 DEF IInv, TypeOK
        <4> QED
          BY <1>1, <3>2, <4>1, <4>2 DEF OpenInv, worker_of
      <3>3. CASE worker_of(c) # w
        <4>1. worker'[worker_of(c)] = worker[worker_of(c)]
          BY <2>1, <3>1, <3>3 DEF IInv, TypeOK
        <4> QED
          BY <1>1, <3>1, <4>1 DEF OpenInv, worker_of
      <3> QED
        BY <3>2, <3>3
    <2> QED
      BY <1>1, <2>2 DEF QInv, worker_of, Ctxs
  <1>3. CASE ~StopPolling(w)
    <2>1. \/ UNCHANGED worker
          \/ \E pc \in {"submit", "poll", "resubmit", "done", "failed"} : \E cur, slot :
               Goto(w, pc, cur, slot)
      BY ZenonT(30), <1>3 DEF StartSubmit, SubmitNextCtx, StartPoll, PollAgain, WorkerReturns,
         check_io_return, Clock, Move
    <2> QED
      BY <1>1, <2>1, QFrame
  <1> QED
    BY <1>1, <1>2, <1>3

\* init_ns_worker_ctx opens a qpair that was not open.
LEMMA InitCtxOpens ==
  ASSUME IInv, QInv, NEW w \in Workers, init_ns_worker_ctx(w)
  PROVE  QInv' /\ [Contract!Next]_(Contract!vars)
  <1> DEFINE k == worker[w].cur
  <1>1. k \in Ctxs /\ worker_of(k) = w /\ worker[w].pc = "init" /\ k # NULL
    BY DEF init_ns_worker_ctx, IInv, TypeOK, WorkerInv, At
  <1>2. qpair[k] = "none"
    <2>1. OpenInv(w, k)
      BY <1>1 DEF QInv
    <2> QED
      BY SMTT(30), <1>1, <2>1 DEF OpenInv, Ctxs
  <1>3. UNCHANGED <<draining, inflight>>
    BY DEF init_ns_worker_ctx, ioVars
  <1>4. CASE UNCHANGED qpair /\ Goto(w, "failed", NULL, 0)
    BY <1>3, <1>4, QFrame DEF Contract!vars
  <1>5. CASE qpair' = [qpair EXCEPT ![k] = "open"] /\ Goto(w, "init", NextOf(k), 0)
    <2>1. Contract!Open(k)
      BY <1>2, <1>3, <1>5 DEF Contract!Open
    <2>2. ASSUME NEW c \in Ctxs
          PROVE  OpenInv(worker_of(c), c)'
      <3>1. OpenInv(worker_of(c), c) /\ worker_of(c) \in Workers
        BY OwnerType DEF QInv
      <3>2. CASE worker_of(c) = w
        <4>1. worker'[w].pc = "init" /\ worker'[w].cur = NextOf(k)
          BY <1>5 DEF Goto, IInv, TypeOK
        <4>2. ASSUME NextOf(k) # NULL, c >= NextOf(k)
              PROVE  qpair'[c] = "none"
          <5>1. c > k
            BY SMTT(30), <1>1, <4>2, ConstantsAssumption DEF NextOf, Ctxs
          <5>2. qpair[c] = "none"
            BY SMTT(30), <1>1, <3>1, <3>2, <5>1 DEF OpenInv, Ctxs
          <5> QED
            BY SMTT(30), <1>1, <1>5, <5>1, <5>2 DEF IInv, TypeOK, Ctxs
        <4> QED
          BY <3>2, <4>1, <4>2 DEF OpenInv, worker_of
      <3>3. CASE worker_of(c) # w
        <4>1. worker'[worker_of(c)] = worker[worker_of(c)]
          BY <1>5, <3>1, <3>3 DEF Goto, IInv, TypeOK
        <4>2. qpair'[c] = qpair[c]
          BY <1>1, <1>5, <3>3 DEF IInv, TypeOK
        <4> QED
          BY <3>1, <4>1, <4>2 DEF OpenInv, worker_of
      <3> QED
        BY <3>2, <3>3
    <2> QED
      BY <1>1, <2>1, <2>2 DEF QInv, worker_of, Ctxs, Contract!Next
  <1> QED
    BY <1>4, <1>5 DEF init_ns_worker_ctx

\* cleanup_ns_worker_ctx frees an open, drained qpair.
LEMMA CleanupCtxFrees ==
  ASSUME IInv, QInv, NEW w \in Workers, cleanup_ns_worker_ctx(w),
         \A c \in Ctxs : depth[c] = 0 => Outstanding(c) = {}
  PROVE  QInv' /\ [Contract!Next]_(Contract!vars)
  <1> DEFINE k == worker[w].cur
  <1>1. /\ k \in Ctxs /\ worker_of(k) = w /\ worker[w].pc = "drain" /\ k # NULL
        /\ draining[k] /\ depth[k] = 0
        /\ qpair' = [qpair EXCEPT ![k] = "freed"] /\ Goto(w, "drain", NextOf(k), 0)
        /\ UNCHANGED <<draining, inflight>>
    BY DEF cleanup_ns_worker_ctx, IInv, TypeOK, WorkerInv, At, ioVars
  <1>2. qpair[k] = "open"
    <2>1. OpenInv(w, k)
      BY <1>1 DEF QInv
    <2> QED
      BY SMTT(30), <1>1, <2>1 DEF OpenInv, Ctxs
  <1>3. \A s \in Slots : <<k, s>> \notin inflight
    BY <1>1 DEF Outstanding
  <1>4. Contract!Free(k)
    BY <1>1, <1>2, <1>3 DEF Contract!Free
  <1>5. ASSUME NEW c \in Ctxs
        PROVE  OpenInv(worker_of(c), c)'
    <2>1. OpenInv(worker_of(c), c) /\ worker_of(c) \in Workers
      BY OwnerType DEF QInv
    <2>2. CASE worker_of(c) = w
      <3>1. worker'[w].pc = "drain" /\ worker'[w].cur = NextOf(k)
        BY <1>1 DEF Goto, IInv, TypeOK
      <3>2. ASSUME NextOf(k) # NULL, c >= NextOf(k)
            PROVE  qpair'[c] = "open"
        <4>1. c > k
          BY SMTT(30), <1>1, <3>2, ConstantsAssumption DEF NextOf, Ctxs
        <4>2. qpair[c] = "open"
          BY SMTT(30), <1>1, <2>1, <2>2, <4>1 DEF OpenInv, Ctxs
        <4> QED
          BY SMTT(30), <1>1, <4>1, <4>2 DEF IInv, TypeOK, Ctxs
      <3> QED
        BY <2>2, <3>1, <3>2 DEF OpenInv, worker_of
    <2>3. CASE worker_of(c) # w
      <3>1. worker'[worker_of(c)] = worker[worker_of(c)]
        BY <1>1, <2>1, <2>3 DEF Goto, IInv, TypeOK
      <3>2. qpair'[c] = qpair[c]
        BY <1>1, <2>3 DEF IInv, TypeOK
      <3> QED
        BY <2>1, <3>1, <3>2 DEF OpenInv, worker_of
    <2> QED
      BY <2>2, <2>3
  <1> QED
    BY <1>1, <1>4, <1>5 DEF QInv, worker_of, Ctxs, Contract!Next

\* A submission goes to an open qpair that is not draining, or has no effect on
\* the qpairs at all.
LEMMA SubmitUses ==
  ASSUME IInv, QInv, NEW w \in Workers, submit_io(w) \/ resubmit(w)
  PROVE  QInv' /\ [Contract!Next]_(Contract!vars)
  <1> DEFINE k == worker[w].cur
             s == worker[w].slot
  <1>1. /\ k \in Ctxs /\ worker_of(k) = w /\ k # NULL
        /\ worker[w].pc \in {"submit", "resubmit"}
    BY DEF submit_io, resubmit, IInv, TypeOK, WorkerInv, At
  <1>2. s \in Slots
    BY SMTT(30), ConstantsAssumption DEF submit_io, resubmit, IInv, TypeOK, WorkerInv, At, Slots
  <1>3. qpair[k] = "open" /\ ~draining[k]
    BY <1>1 DEF IInv, CtxInv
  <1>4. <<k, s>> \notin inflight
    <2>1. SlotInv(w, k, s)
      BY <1>1, <1>2 DEF IInv
    <2> QED
      BY SMTT(30), <1>1, <1>2, <2>1, ConstantsAssumption DEF SlotInv, Used, Ctxs, Slots
  <1>5. UNCHANGED <<qpair, draining>>
    BY DEF submit_io, resubmit, submit_single_io, Exit1, ctxVars
  <1>6. UNCHANGED inflight \/ inflight' = inflight \cup {<<k, s>>}
    BY DEF submit_io, resubmit, submit_single_io, Exit1, SubmitRefused, SubmitAccepted, ioVars
  <1>7. \/ UNCHANGED worker
        \/ \E pc \in {"submit", "poll", "resubmit", "done", "failed"} : \E cur, slot :
             Goto(w, pc, cur, slot)
    BY ZenonT(30) DEF submit_io, resubmit, submit_single_io, Exit1
  <1>8. QInv'
    BY <1>5, <1>7, QFrame
  <1>9. CASE inflight' = inflight \cup {<<k, s>>}
    <2>1. Contract!Submit(k, s)
      BY <1>3, <1>4, <1>5, <1>9 DEF Contract!Submit
    <2> QED
      BY <1>1, <1>2, <1>8, <2>1 DEF Contract!Next
  <1> QED
    BY <1>5, <1>6, <1>8, <1>9 DEF Contract!vars

\* A completion belongs to an open qpair.
LEMMA CompletionUses ==
  ASSUME IInv, QInv, NEW w \in Workers, NEW s \in Slots, task_complete(w, s)
  PROVE  QInv' /\ [Contract!Next]_(Contract!vars)
  <1> DEFINE k == worker[w].cur
  <1>1. /\ <<k, s>> \in inflight /\ inflight' = inflight \ {<<k, s>>}
        /\ UNCHANGED <<qpair, draining>>
    BY DEF task_complete, CompletionOf
  <1>2. k \in Ctxs /\ qpair[k] = "open"
    BY <1>1 DEF IInv, TypeOK, QpairOutlivesIo
  <1>3. Contract!Complete(k, s)
    BY <1>1, <1>2 DEF Contract!Complete
  <1>4. \/ UNCHANGED worker
        \/ \E pc \in {"submit", "poll", "resubmit", "done", "failed"} : \E cur, slot :
             Goto(w, pc, cur, slot)
    BY ZenonT(30) DEF task_complete
  <1> QED
    BY <1>1, <1>2, <1>3, <1>4, QFrame DEF Contract!Next

\* drain_io marks an open qpair.
LEMMA DrainUses ==
  ASSUME IInv, QInv, NEW w \in Workers, drain_io(w)
  PROVE  QInv' /\ [Contract!Next]_(Contract!vars)
  <1> DEFINE k == worker[w].cur
  <1>1. /\ k \in Ctxs /\ worker_of(k) = w /\ worker[w].pc = "drain" /\ k # NULL
        /\ ~draining[k] /\ draining' = [draining EXCEPT ![k] = TRUE]
        /\ UNCHANGED <<worker, qpair, inflight>>
    BY DEF drain_io, IInv, TypeOK, WorkerInv, At, ioVars
  <1>2. qpair[k] = "open"
    <2>1. OpenInv(w, k)
      BY <1>1 DEF QInv
    <2> QED
      BY SMTT(30), <1>1, <2>1 DEF OpenInv, Ctxs
  <1>3. Contract!Drain(k)
    BY <1>1, <1>2 DEF Contract!Drain
  <1> QED
    BY <1>1, <1>3, QFrame DEF Contract!Next
=============================================================================
