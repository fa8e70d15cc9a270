------------------------- MODULE ArbitrationProofs --------------------------
(***************************************************************************)
(* Theorems about the I/O engine, for every number of workers, namespaces  *)
(* and contexts and every queue depth.                                     *)
(***************************************************************************)
EXTENDS ArbitrationSteps, FiniteSetTheorems

USE ZenonT(30)

-----------------------------------------------------------------------------
(* The initial states, main() and the freeing of a drained context *)

\* The device and the leak hold finitely many commands.
LEMMA FiniteIo ==
  ASSUME TypeOK
  PROVE  /\ IsFiniteSet(inflight)
         /\ IsFiniteSet(lost)
         /\ \A c \in Ctxs : IsFiniteSet(Outstanding(c))
  <1>1. IsFiniteSet(Ctxs) /\ IsFiniteSet(Slots)
    BY SMTT(30), FS_Interval, ConstantsAssumption DEF Ctxs, Slots
  <1>2. IsFiniteSet(Ctxs \X Slots)
    BY <1>1, FS_Product
  <1>3. ASSUME NEW c \in Ctxs
        PROVE  IsFiniteSet(Outstanding(c))
    <2>1. Outstanding(c) \in SUBSET Slots
      BY DEF Outstanding
    <2> QED
      BY <1>1, <2>1, FS_Subset
  <1> QED
    BY <1>2, <1>3, FS_Subset DEF TypeOK

\* Count * QueueDepth chains exist.
LEMMA CtxSlots ==
  /\ IsFiniteSet(Ctxs \X Slots)
  /\ Cardinality(Ctxs \X Slots) = Count * QueueDepth
  <1>1. IsFiniteSet(Ctxs) /\ Cardinality(Ctxs) = Count
    BY SMTT(30), FS_Interval, ConstantsAssumption DEF Ctxs
  <1>2. IsFiniteSet(Slots) /\ Cardinality(Slots) = QueueDepth
    BY SMTT(30), FS_Interval, ConstantsAssumption DEF Slots
  <1> QED
    BY <1>1, <1>2, FS_Product

\* The invariant holds when main() starts.
LEMMA InitIInv == Init => IInv
  <1> SUFFICES ASSUME Init PROVE IInv
    OBVIOUS
  <1> USE ConstantsAssumption DEF Init
  <1>1. TypeOK
    BY DEF TypeOK, MainPcs, Pcs, NULL
  <1>2. ~PoolCreated
    BY DEF PoolCreated
  <1>3. \A c \in Ctxs : Outstanding(c) = {}
    BY DEF Outstanding
  <1>4. DepthIsOutstanding
    BY <1>3, FS_EmptySet DEF DepthIsOutstanding
  <1>5. \A w \in Workers : WorkerInv(w)
    BY DEF WorkerInv, NULL
  <1>6. ASSUME NEW c \in Ctxs
        PROVE  CtxInv(worker_of(c), c) /\ \A s \in Slots : SlotInv(worker_of(c), c, s)
    <2>1. worker[worker_of(c)].pc = "idle"
      BY OwnerType
    <2> QED
      BY <2>1 DEF CtxInv, SlotInv, Used
  <1> QED
    BY <1>1, <1>2, <1>4, <1>5, <1>6 DEF IInv, PoolAccounting, QpairOutlivesIo

\* While every worker is idle no task is out of the pool.
LEMMA NothingUsed ==
  ASSUME IInv, \A w \in Workers : worker[w].pc = "idle"
  PROVE  inflight = {} /\ lost = {}
  <1>1. \A c \in Ctxs, s \in Slots : <<c, s>> \notin Used
    BY ZenonT(30), OwnerType DEF IInv, SlotInv
  <1> QED
    BY SMTT(30), <1>1 DEF IInv, TypeOK, Used

\* The steps of main() preserve the invariant.
LEMMA MainIInv ==
  ASSUME IInv, MainNext
  PROVE  IInv'
  <1>1. ASSUME NEW from, NEW to, Setup(from, to),
               from \in {"register_workers", "register_controllers", "associate", "create_pool"},
               to \in {"register_controllers", "associate", "create_pool", "crashed"}
        PROVE  IInv'
    <2>1. \A w \in Workers : WorkerInv(w)'
      BY <1>1 DEF IInv, WorkerInv, Setup
    <2>2. main' \in MainPcs /\ ~PoolCreated'
      BY <1>1 DEF MainPcs, PoolCreated, Setup
    <2> QED
      BY <1>1, <2>1, <2>2, FrameStep DEF Setup
  <1>2. CASE register_workers \/ register_controllers \/ associate_workers_with_ns
    BY <1>1, <1>2 DEF register_workers, register_controllers, associate_workers_with_ns,
       zstore_cleanup_without_pool
  <1>3. CASE create_pool
    <2>1. CASE zstore_cleanup_without_pool("create_pool")
      BY <1>1, <2>1 DEF zstore_cleanup_without_pool
    <2>2. CASE /\ main = "create_pool"
               /\ main' = "launch"
               /\ pool' = task_count
               /\ UNCHANGED <<worker, ctxVars, expired, inflight, lost>>
      <3> USE <2>2 DEF ctxVars
      <3>1. \A w \in Workers : worker[w].pc = "idle"
        BY DEF IInv, WorkerInv
      <3>2. inflight' = {} /\ lost' = {}
        BY <3>1, NothingUsed
      <3>3. PoolAccounting'
        BY SMTT(30), <3>2, FS_EmptySet, TaskCountType DEF PoolAccounting
      <3>4. TypeOK' /\ DepthIsOutstanding' /\ QpairOutlivesIo'
        BY TaskCountType DEF IInv, TypeOK, MainPcs, DepthIsOutstanding, QpairOutlivesIo,
           Outstanding
      <3>5. \A w \in Workers : WorkerInv(w)'
        BY DEF IInv, WorkerInv
      <3>6. \A c \in Ctxs : CtxInv(worker_of(c), c)'
        BY DEF IInv, CtxInv
      <3>7. \A c \in Ctxs, s \in Slots : SlotInv(worker_of(c), c, s)'
        <4> SUFFICES ASSUME NEW c \in Ctxs, NEW s \in Slots
                     PROVE  SlotInv(worker_of(c), c, s)'
          OBVIOUS
        <4>1. SlotInv(worker_of(c), c, s)
          BY DEF IInv
        <4> QED
          BY <4>1 DEF SlotInv, Used
      <3> QED
        BY <3>2, <3>3, <3>4, <3>5, <3>6, <3>7 DEF IInv
    <2> QED
      BY <1>3, <2>1, <2>2 DEF create_pool
  <1>4. CASE launch
    <2> USE <1>4 DEF launch, ctxVars, ioVars
    <2>1. \A w \in Workers : worker[w].pc = "idle"
      BY DEF IInv, WorkerInv
    <2>2. inflight = {} /\ lost = {}
      BY <2>1, NothingUsed
    <2>3. TypeOK'
      BY OwnerFirst DEF IInv, TypeOK, MainPcs, Pcs
    <2>4. PoolAccounting' /\ DepthIsOutstanding' /\ QpairOutlivesIo'
      BY DEF IInv, PoolAccounting, PoolCreated, DepthIsOutstanding, QpairOutlivesIo, Outstanding
    <2>5. \A w \in Workers : WorkerInv(w)'
      BY OwnerFirst DEF WorkerInv
    <2>6. ASSUME NEW c \in Ctxs
          PROVE  CtxInv(worker_of(c), c)' /\ \A s \in Slots : SlotInv(worker_of(c), c, s)'
      <3> DEFINE w == worker_of(c)
      <3>1. w \in Workers
        BY OwnerType
      <3>2. worker'[w].pc = "init" /\ worker'[w].cur = First(w)
        BY <3>1
      <3>3. First(w) # NULL /\ ~(c < First(w))
        BY SMTT(30), <3>1, OwnerFirst, ConstantsAssumption DEF Ctxs
      <3>4. ~draining[c]
        BY <2>1, <3>1 DEF IInv, CtxInv
      <3> QED
        BY <2>2, <3>2, <3>3, <3>4 DEF CtxInv, SlotInv, Used
    <2> QED
      BY <2>2, <2>3, <2>4, <2>5, <2>6 DEF IInv
  <1>5. CASE wait_all
    <2>1. \A w \in Workers : WorkerInv(w)'
      BY <1>5 DEF IInv, WorkerInv, wait_all, Setup
    <2>2. main' \in MainPcs /\ PoolCreated
      BY <1>5 DEF MainPcs, PoolCreated, wait_all, Setup
    <2> QED
      BY <1>5, <2>1, <2>2, FrameStep DEF wait_all, Setup
  <1>6. CASE zstore_cleanup
    <2>1. \A w \in Workers : WorkerInv(w)'
      BY <1>6 DEF IInv, WorkerInv, zstore_cleanup
    <2>2. main' \in MainPcs /\ PoolCreated
      BY <1>6 DEF MainPcs, PoolCreated, zstore_cleanup
    <2> QED
      BY <1>6, <2>1, <2>2, FrameStep DEF zstore_cleanup
  <1> QED
    BY <1>2, <1>3, <1>4, <1>5, <1>6 DEF MainNext

\* Freeing the qpair: depth 0 means that the device holds no command of it.
LEMMA CleanupCtxIInv ==
  ASSUME IInv, NEW w \in Workers, cleanup_ns_worker_ctx(w)
  PROVE  IInv'
  <1> DEFINE c == worker[w].cur
  <1> USE ConstantsAssumption DEF cleanup_ns_worker_ctx, At, Goto, ioVars
  <1>1. c \in Ctxs /\ worker_of(c) = w /\ worker[w].pc = "drain"
    BY DEF IInv, TypeOK, WorkerInv
  <1>2. \A s \in Slots : <<c, s>> \notin inflight
    <2>1. Cardinality(Outstanding(c)) = 0 /\ IsFiniteSet(Outstanding(c))
      BY <1>1, FiniteIo DEF IInv, DepthIsOutstanding
    <2>2. Outstanding(c) = {}
      BY <2>1, FS_EmptySet
    <2> QED
      BY <2>2 DEF Outstanding
  <1>3. /\ NextOf(c) \in Ctxs \cup {NULL}
        /\ NextOf(c) # NULL => worker_of(NextOf(c)) = w
    BY <1>1, OwnerNext
  <1>4. worker'[w] = [pc |-> "drain", cur |-> NextOf(c), slot |-> 0]
    BY DEF IInv, TypeOK
  <1>5. worker' \in [Workers -> [pc : Pcs, cur : Ctxs \cup {NULL}, slot : Slots \cup {0}]]
    BY <1>3 DEF IInv, TypeOK, Pcs
  <1>6. TypeOK' /\ PoolAccounting' /\ DepthIsOutstanding'
    <2>1. qpair' \in [Ctxs -> {"none", "open", "freed"}]
      BY <1>1 DEF IInv, TypeOK
    <2>2. TypeOK'
      BY <1>5, <2>1 DEF IInv, TypeOK
    <2>3. PoolAccounting' /\ DepthIsOutstanding'
      BY DEF IInv, PoolAccounting, PoolCreated, DepthIsOutstanding, Outstanding
    <2> QED
      BY <2>2, <2>3
  <1>7. QpairOutlivesIo'
    <2>1. ASSUME NEW io \in inflight
          PROVE  qpair'[io[1]] = "open"
      <3>1. PICK d \in Ctxs, t \in Slots : io = <<d, t>>
        BY SMTT(30) DEF IInv, TypeOK
      <3>2. d # c
        BY <1>2, <3>1
      <3> QED
        BY <3>1, <3>2 DEF IInv, TypeOK, QpairOutlivesIo
    <2> QED
      BY <2>1 DEF QpairOutlivesIo
  <1>8. WorkerInv(w)'
    BY SMTT(30), <1>3, <1>4 DEF WorkerInv
  <1>9. ASSUME NEW d \in Ctxs, worker_of(d) = w
        PROVE  CtxInv(w, d)' /\ \A t \in Slots : SlotInv(w, d, t)'
    <2>1. CtxInv(w, d) /\ \A t \in Slots : SlotInv(w, d, t)
      BY <1>9 DEF IInv
    <2>2. (NextOf(c) = NULL \/ d < NextOf(c)) <=> d <= c
      BY <1>1, <1>9, OwnerNext
    <2>3. CtxInv(w, d)'
      BY SMTT(30), <1>4 DEF CtxInv
    <2>4. ASSUME NEW t \in Slots
          PROVE  SlotInv(w, d, t)'
      BY SMTT(30), <1>1, <1>2, <1>4, <2>1, <2>2 DEF SlotInv, Ctxs
    <2> QED
      BY <2>3, <2>4
  <1>10. /\ \A v \in Workers : v # w => worker'[v] = worker[v]
         /\ \A d \in Ctxs : worker_of(d) # w => qpair'[d] = qpair[d]
    BY <1>1 DEF IInv, TypeOK
  <1>11. /\ \A v \in Workers : WorkerInv(v)'
         /\ \A d \in Ctxs : CtxInv(worker_of(d), d)'
         /\ \A d \in Ctxs, t \in Slots : SlotInv(worker_of(d), d, t)'
    BY <1>5, <1>8, <1>9, <1>10, OtherWorkers
  <1> QED
    BY <1>6, <1>7, <1>11 DEF IInv

-----------------------------------------------------------------------------
(* Submissions and completions *)

\* A submission (accepted or refused) preserves the invariant when the place the
\* worker goes to agrees with one more slot being used.
LEMMA SubmitStep ==
  ASSUME IInv, NEW w \in Workers, NEW c \in Ctxs, NEW s \in Slots, main = "working",
         worker_of(c) = w, <<c, s>> \notin Used, qpair[c] = "open",
         NEW pc \in {"submit", "poll"}, NEW slot \in Slots \cup {0},
         submit_single_io(w, c, s, pc, c, slot), main' # "exit",
         \A d \in Ctxs : worker_of(d) = w => CtxInv(w, d)',
         \A d \in Ctxs, t \in Slots : worker_of(d) = w => SlotInv(w, d, t)'
  PROVE  IInv'
  <1> USE ConstantsAssumption DEF Goto
  <1>1. /\ pool > 0 /\ pool' = pool - 1
        /\ AdvanceOffset(c)
        /\ SubmitRefused(c, s) \/ SubmitAccepted(c, s)
        /\ Goto(w, pc, c, slot)
        /\ UNCHANGED <<main, qpair, completed, draining, expired>>
    BY DEF submit_single_io, Exit1
  <1>2. worker' \in [Workers -> [pc : Pcs, cur : Ctxs \cup {NULL}, slot : Slots \cup {0}]]
    BY <1>1 DEF IInv, TypeOK, Pcs
  <1>3. offset' \in [Ctxs -> Nat]
    BY SMTT(30), <1>1 DEF IInv, TypeOK, AdvanceOffset
  <1>4. /\ inflight' \subseteq Ctxs \X Slots /\ lost' \subseteq Ctxs \X Slots
        /\ depth' \in [Ctxs -> Nat] /\ pool' \in Nat
        /\ inflight' \cap lost' = {}
    <2>1. <<c, s>> \in Ctxs \X Slots /\ pool' \in Nat
      BY SMTT(30), <1>1 DEF IInv, TypeOK
    <2>2. inflight \subseteq Ctxs \X Slots /\ lost \subseteq Ctxs \X Slots
      BY DEF IInv, TypeOK
    <2>3. depth' \in [Ctxs -> Nat]
      BY SMTT(30), <1>1 DEF IInv, TypeOK, SubmitRefused, SubmitAccepted
    <2>4. CASE SubmitRefused(c, s)
      BY <2>1, <2>2, <2>3, <2>4 DEF IInv, SubmitRefused, Used
    <2>5. CASE SubmitAccepted(c, s)
      BY <2>1, <2>2, <2>3, <2>5 DEF IInv, SubmitAccepted, Used
    <2> QED
      BY <1>1, <2>4, <2>5
  <1>5. TypeOK'
    BY <1>1, <1>2, <1>3, <1>4 DEF IInv, TypeOK
  <1>6. PoolAccounting'
    <2>1. IsFiniteSet(inflight) /\ IsFiniteSet(lost)
      BY FiniteIo DEF IInv
    <2>2. Cardinality(inflight) \in Nat /\ Cardinality(lost) \in Nat
      BY <2>1, FS_CardinalityType
    <2>3. Cardinality(inflight \cup {<<c, s>>}) = Cardinality(inflight) + 1
      BY ZenonT(30), <2>1, FS_AddElement DEF Used
    <2>4. Cardinality(lost \cup {<<c, s>>}) = Cardinality(lost) + 1
      BY ZenonT(30), <2>1, FS_AddElement DEF Used
    <2>5. pool + Cardinality(inflight) + Cardinality(lost) = task_count
      BY DEF IInv, PoolAccounting, PoolCreated
    <2> DEFINE a == Cardinality(inflight)
               b == Cardinality(lost)
    <2>6. \/ Cardinality(inflight') = a /\ Cardinality(lost') = b + 1
          \/ Cardinality(inflight') = a + 1 /\ Cardinality(lost') = b
      <3>1. CASE SubmitRefused(c, s)
        <4>1. inflight' = inflight /\ lost' = lost \cup {<<c, s>>}
          BY <3>1 DEF SubmitRefused
        <4> QED
          BY <2>4, <4>1
      <3>2. CASE SubmitAccepted(c, s)
        <4>1. inflight' = inflight \cup {<<c, s>>} /\ lost' = lost
          BY <3>2 DEF SubmitAccepted
        <4> QED
          BY <2>3, <4>1
      <3> QED
        BY <1>1, <3>1, <3>2
    <2>7. pool \in Nat
      BY DEF IInv, TypeOK
    <2> HIDE DEF a, b
    <2>8. pool' + Cardinality(inflight') + Cardinality(lost') = task_count
      BY SMTT(30), <1>1, <2>2, <2>5, <2>6, <2>7, TaskCountType DEF a, b
    <2> QED
      BY <2>8 DEF PoolAccounting
  <1>7. DepthIsOutstanding'
    <2>1. CASE SubmitRefused(c, s)
      BY <2>1 DEF SubmitRefused, IInv, DepthIsOutstanding, Outstanding
    <2>2. CASE SubmitAccepted(c, s)
      <3>1. s \notin Outstanding(c) /\ IsFiniteSet(Outstanding(c))
        BY FiniteIo DEF Used, Outstanding, IInv
      <3>2. Cardinality(Outstanding(c) \cup {s}) = Cardinality(Outstanding(c)) + 1
        BY ZenonT(30), <3>1, FS_AddElement
      <3>3. depth' = [depth EXCEPT ![c] = @ + 1] /\ depth \in [Ctxs -> Nat]
        BY <2>2 DEF SubmitAccepted, IInv, TypeOK
      <3> QED
        BY ZenonT(30), <2>2, <3>2, <3>3, OutstandingAdd DEF SubmitAccepted, IInv, DepthIsOutstanding
    <2> QED
      BY <1>1, <2>1, <2>2
  <1>8. QpairOutlivesIo'
    BY SMTT(30), <1>1 DEF IInv, QpairOutlivesIo, SubmitRefused, SubmitAccepted
  <1>9. worker'[w] = [pc |-> pc, cur |-> c, slot |-> slot]
    BY <1>1 DEF IInv, TypeOK
  <1>10. WorkerInv(w)'
    BY SMTT(30), <1>1, <1>9 DEF WorkerInv
  <1>11. \A v \in Workers : v # w => worker'[v] = worker[v]
    BY <1>1 DEF IInv, TypeOK
  <1>12. \A d \in Ctxs : worker_of(d) # w =>
           \A t \in Slots : /\ <<d, t>> \in inflight' <=> <<d, t>> \in inflight
                            /\ <<d, t>> \in lost' <=> <<d, t>> \in lost
    BY SMTT(30), <1>1 DEF SubmitRefused, SubmitAccepted
  <1>13. /\ \A v \in Workers : WorkerInv(v)'
         /\ \A d \in Ctxs : CtxInv(worker_of(d), d)'
         /\ \A d \in Ctxs, t \in Slots : SlotInv(worker_of(d), d, t)'
    BY <1>1, <1>2, <1>10, <1>11, <1>12, OtherWorkers
  <1> QED
    BY <1>4, <1>5, <1>6, <1>7, <1>8, <1>13 DEF IInv

\* One turn of the loop of submit_io.
LEMMA SubmitIoIInv ==
  ASSUME IInv, NEW w \in Workers, submit_io(w)
  PROVE  IInv'
  <1> DEFINE c == worker[w].cur
             s == worker[w].slot
  <1> USE ConstantsAssumption DEF At
  <1>1. /\ c \in Ctxs /\ s \in Slots /\ worker_of(c) = w /\ worker[w].pc = "submit"
        /\ main = "working" /\ submit_single_io(w, c, s, "submit", c, s - 1)
    BY SMTT(30) DEF IInv, TypeOK, WorkerInv, submit_io
  <1>2. <<c, s>> \notin Used /\ qpair[c] = "open" /\ s - 1 \in Slots \cup {0}
    BY SMTT(30), <1>1 DEF IInv, SlotInv, CtxInv, NULL, Ctxs, Slots
  <1>3. CASE Exit1
    BY <1>1, <1>3, ExitIInv
  <1>4. CASE ~Exit1
    <2>1. /\ SubmitRefused(c, s) \/ SubmitAccepted(c, s)
          /\ Goto(w, "submit", c, s - 1)
          /\ UNCHANGED <<main, qpair, draining>>
      BY <1>1, <1>4 DEF submit_single_io
    <2>2. worker'[w] = [pc |-> "submit", cur |-> c, slot |-> s - 1]
      BY <2>1 DEF IInv, TypeOK, Goto
    <2>3. Used' = Used \cup {<<c, s>>}
      BY <2>1 DEF SubmitRefused, SubmitAccepted, Used
    <2>4. ASSUME NEW d \in Ctxs, worker_of(d) = w
          PROVE  CtxInv(w, d)' /\ \A t \in Slots : SlotInv(w, d, t)'
      <3>1. CtxInv(w, d) /\ \A t \in Slots : SlotInv(w, d, t)
        BY <2>4 DEF IInv
      <3>2. CtxInv(w, d)'
        BY <1>1, <2>1, <2>2, <3>1 DEF CtxInv
      <3>3. ASSUME NEW t \in Slots
            PROVE  SlotInv(w, d, t)'
        BY SMTT(30), <1>1, <2>2, <2>3, <3>1 DEF SlotInv, Slots, Ctxs
      <3> QED
        BY <3>2, <3>3
    <2>5. main' # "exit"
      BY <1>1, <2>1
    <2> HIDE DEF c, s
    <2> QED
      BY <1>1, <1>2, <2>4, <2>5, SubmitStep
  <1> QED
    BY <1>3, <1>4

\* The submission of the replacement from the completion callback.
LEMMA ResubmitIInv ==
  ASSUME IInv, NEW w \in Workers, resubmit(w)
  PROVE  IInv'
  <1> DEFINE c == worker[w].cur
             s == worker[w].slot
  <1> USE ConstantsAssumption DEF At
  <1>1. /\ c \in Ctxs /\ s \in Slots /\ worker_of(c) = w /\ worker[w].pc = "resubmit"
        /\ main = "working" /\ submit_single_io(w, c, s, "poll", c, 0)
    BY DEF IInv, TypeOK, WorkerInv, resubmit
  <1>2. <<c, s>> \notin Used /\ qpair[c] = "open"
    BY <1>1 DEF IInv, SlotInv, CtxInv
  <1>3. CASE Exit1
    BY <1>1, <1>3, ExitIInv
  <1>4. CASE ~Exit1
    <2>1. /\ SubmitRefused(c, s) \/ SubmitAccepted(c, s)
          /\ Goto(w, "poll", c, 0)
          /\ UNCHANGED <<main, qpair, draining>>
      BY <1>1, <1>4 DEF submit_single_io
    <2>2. worker'[w] = [pc |-> "poll", cur |-> c, slot |-> 0]
      BY <2>1 DEF IInv, TypeOK, Goto
    <2>3. Used' = Used \cup {<<c, s>>}
      BY <2>1 DEF SubmitRefused, SubmitAccepted, Used
    <2>4. ASSUME NEW d \in Ctxs, worker_of(d) = w
          PROVE  CtxInv(w, d)' /\ \A t \in Slots : SlotInv(w, d, t)'
      <3>1. CtxInv(w, d) /\ \A t \in Slots : SlotInv(w, d, t)
        BY <2>4 DEF IInv
      <3>2. CtxInv(w, d)'
        BY <1>1, <2>1, <2>2, <3>1 DEF CtxInv
      <3>3. ASSUME NEW t \in Slots
            PROVE  SlotInv(w, d, t)'
        BY SMTT(30), <1>1, <2>2, <2>3, <3>1 DEF SlotInv
      <3> QED
        BY <3>2, <3>3
    <2>5. main' # "exit"
      BY <1>1, <2>1
    <2> HIDE DEF c, s
    <2> QED
      BY <1>1, <1>2, <2>4, <2>5, SubmitStep
  <1> QED
    BY <1>3, <1>4

\* A completion returns its task and frees its slot.
LEMMA CompletionIInv ==
  ASSUME IInv, NEW w \in Workers, NEW s \in Slots, task_complete(w, s)
  PROVE  IInv'
  <1>0. PICK c : c = worker[w].cur
    OBVIOUS
  <1> USE ConstantsAssumption, <1>0
  <1>a. TypeOK /\ PoolAccounting /\ DepthIsOutstanding /\ QpairOutlivesIo /\ inflight \cap lost = {}
    BY DEF IInv
  <1>1. /\ CompletionOf(w, c, s) /\ pool' = pool + 1
        /\ IF draining[c] THEN UNCHANGED worker ELSE Goto(w, "resubmit", c, s)
    BY DEF task_complete
  <1>2. /\ <<c, s>> \in inflight /\ c \in Ctxs
        /\ inflight' = inflight \ {<<c, s>>}
        /\ UNCHANGED <<main, qpair, draining, offset, expired, lost>>
        /\ main = "working" /\ worker[w].pc \in {"poll", "drain"}
    BY <1>a, <1>1 DEF CompletionOf, TypeOK, At
  <1>3. s \in Outstanding(c) /\ IsFiniteSet(Outstanding(c)) /\ IsFiniteSet(inflight)
    BY <1>2, FiniteIo DEF Outstanding, IInv
  <1>4. /\ Cardinality(Outstanding(c) \ {s}) = Cardinality(Outstanding(c)) - 1
        /\ Cardinality(Outstanding(c) \ {s}) \in Nat
    BY <1>3, FS_RemoveElement, FS_CardinalityType
  <1>5. /\ depth' = [depth EXCEPT ![c] = @ - 1] /\ depth \in [Ctxs -> Nat]
        /\ completed' = [completed EXCEPT ![c] = @ + 1] /\ completed \in [Ctxs -> Nat]
    BY <1>a, <1>1 DEF CompletionOf, TypeOK
  <1>6. depth[c] = Cardinality(Outstanding(c))
    BY <1>a, <1>2 DEF DepthIsOutstanding
  <1>7. depth' \in [Ctxs -> Nat] /\ completed' \in [Ctxs -> Nat]
    BY SMTT(30), <1>2, <1>4, <1>5, <1>6
  <1>8. worker' \in [Workers -> [pc : Pcs, cur : Ctxs \cup {NULL}, slot : Slots \cup {0}]]
    BY SMTT(30), <1>a, <1>1, <1>2 DEF Goto, TypeOK, Pcs
  <1>9. TypeOK'
    BY SMTT(30), <1>a, <1>1, <1>2, <1>7, <1>8 DEF TypeOK
  <1>10. PoolAccounting'
    <2>1. pool + Cardinality(inflight) + Cardinality(lost) = task_count /\ pool \in Nat
      BY <1>a, <1>2 DEF TypeOK, PoolAccounting, PoolCreated
    <2>2. /\ Cardinality(inflight \ {<<c, s>>}) = Cardinality(inflight) - 1
          /\ Cardinality(inflight) \in Nat
      BY ZenonT(30), <1>2, <1>3, FS_RemoveElement, FS_CardinalityType
    <2>3. Cardinality(lost) \in Nat /\ lost' = lost
      BY <1>2, FiniteIo, FS_CardinalityType DEF IInv
    <2>4. pool' + Cardinality(inflight \ {<<c, s>>}) + Cardinality(lost) = task_count
      BY SMTT(30), <1>1, <2>1, <2>2, <2>3, TaskCountType
    <2> QED
      BY <1>2, <2>3, <2>4 DEF PoolAccounting
  <1>11. DepthIsOutstanding'
    <2>1. Outstanding(c)' = Outstanding(c) \ {s}
      BY <1>2, OutstandingRemove
    <2>2. \A d \in Ctxs : d # c => Outstanding(d)' = Outstanding(d)
      BY <1>2, OutstandingRemove
    <2>3. depth'[c] = Cardinality(Outstanding(c)')
      BY <1>2, <1>4, <1>5, <1>6, <2>1
    <2>4. \A d \in Ctxs : d # c => depth'[d] = Cardinality(Outstanding(d)')
      BY <1>a, <1>5, <2>2 DEF DepthIsOutstanding
    <2> QED
      BY <2>3, <2>4 DEF DepthIsOutstanding
  <1>12. QpairOutlivesIo' /\ inflight' \cap lost' = {}
    BY <1>a, <1>2 DEF QpairOutlivesIo
  <1>13. /\ \A v \in Workers : WorkerInv(v)'
         /\ \A d \in Ctxs : CtxInv(worker_of(d), d)'
         /\ \A d \in Ctxs, t \in Slots : SlotInv(worker_of(d), d, t)'
    BY CompletionPlaces
  <1> QED
    BY <1>9, <1>10, <1>11, <1>12, <1>13 DEF IInv

-----------------------------------------------------------------------------
(* Theorems on the invariant *)

\* Every step preserves the invariant.
LEMMA NextIInv == IInv /\ [Next]_vars => IInv'
  <1> SUFFICES ASSUME IInv, [Next]_vars PROVE IInv'
    OBVIOUS
  <1>1. CASE MainNext
    BY <1>1, MainIInv
  <1>2. ASSUME NEW w \in Workers, ThreadStep(w)
        PROVE  IInv'
    BY <1>2, InitCtxIInv, MovesIInv, SubmitIoIInv, ResubmitIInv, DrainIInv, CleanupCtxIInv
       DEF ThreadStep
  <1>3. ASSUME NEW w \in Workers, Completion(w)
        PROVE  IInv'
    BY <1>3, CompletionIInv DEF Completion
  <1>4. ASSUME NEW w \in Workers, check_io_return(w)
        PROVE  IInv'
    BY <1>4, MovesIInv
  <1>5. ASSUME NEW w \in Workers, Clock(w)
        PROVE  IInv'
    BY <1>5, ClockIInv
  <1>6. CASE UNCHANGED vars
    <2> USE <1>6 DEF vars, ctxVars, ioVars
    <2>1. \A w \in Workers : WorkerInv(w)'
      BY DEF IInv, WorkerInv
    <2>2. main' \in MainPcs /\ (PoolCreated' => PoolCreated)
      BY DEF IInv, TypeOK, PoolCreated
    <2> QED
      BY <2>1, <2>2, FrameStep
  <1> QED
    BY <1>1, <1>2, <1>3, <1>4, <1>5, <1>6 DEF Next

\* The inductive invariant holds in every reachable state of the engine.
THEOREM Invariance == Spec => []IInv
  <1> QED
    BY InitIInv, NextIInv, PTL DEF Spec

\* Every field keeps its type; in particular current_queue_depth, an unsigned
\* counter decremented in task_complete, never wraps below zero.
THEOREM TypeCorrect == Spec => []TypeOK
  <1>1. IInv => TypeOK
    BY DEF IInv
  <1> QED
    BY <1>1, Invariance, PTL

\* However many workers share the pool, tasks in the pool, held by the device
\* and kept by refused submissions always add up to task_count.
THEOREM TasksConserved == Spec => []PoolAccounting
  <1>1. IInv => PoolAccounting
    BY DEF IInv
  <1> QED
    BY <1>1, Invariance, PTL

\* current_queue_depth equals the outstanding commands of its context, and no
\* qpair is freed under an outstanding command.
THEOREM DrainIsExact == Spec => [](DepthIsOutstanding /\ QpairOutlivesIo)
  <1>1. IInv => DepthIsOutstanding /\ QpairOutlivesIo
    BY DEF IInv
  <1> QED
    BY <1>1, Invariance, PTL

\* When main() prints and frees, all workers have returned and the device is idle.
THEOREM CleanupIsQuiet == Spec => []QuietAtCleanup
  <1>1. ASSUME IInv
        PROVE  QuietAtCleanup
    <2> SUFFICES ASSUME main \in {"print_stats", "end", "end_mismatch"}
                 PROVE  /\ inflight = {}
                        /\ \A w \in Workers : worker[w].pc \in {"done", "failed"}
      BY DEF QuietAtCleanup
    <2>1. \A w \in Workers : worker[w].pc \in {"done", "failed"}
      BY <1>1 DEF IInv, WorkerInv
    <2>2. \A c \in Ctxs, s \in Slots : <<c, s>> \notin inflight
      BY ZenonT(30), <1>1, <2>1, OwnerType DEF IInv, SlotInv, Used
    <2> QED
      BY SMTT(30), <1>1, <2>1, <2>2 DEF IInv, TypeOK
  <1> QED
    BY <1>1, Invariance, PTL

\* A polling worker has every slot of its contexts in flight, but for the slots
\* lost to refused submissions.
THEOREM LoopIsClosed == Spec => []ClosedLoop
  <1>1. ASSUME IInv
        PROVE  ClosedLoop
    BY <1>1 DEF IInv, ClosedLoop, At, SlotInv, Used
  <1> QED
    BY <1>1, Invariance, PTL

\* With a free slot somewhere and enough tasks for all contexts, the pool is not
\* empty.
LEMMA FreeSlotLeavesTask ==
  ASSUME IInv, PoolCreated, Count <= Larger(NumNamespaces, NumWorkers),
         NEW c \in Ctxs, NEW s \in Slots, <<c, s>> \notin Used
  PROVE  pool > 0
  <1> DEFINE All == Ctxs \X Slots
             N == Larger(NumNamespaces, NumWorkers)
  <1>1. Used \in SUBSET (All \ {<<c, s>>})
    BY DEF IInv, TypeOK, Used
  <1>2. /\ IsFiniteSet(All \ {<<c, s>>})
        /\ Cardinality(All \ {<<c, s>>}) = Count * QueueDepth - 1
    <2>1. <<c, s>> \in All
      OBVIOUS
    <2> HIDE DEF All
    <2> QED
      BY ZenonT(30), <2>1, CtxSlots, FS_RemoveElement DEF All
  <1>3. Cardinality(Used) <= Count * QueueDepth - 1
    BY <1>1, <1>2, FS_Subset
  <1>4. Cardinality(Used) = Cardinality(inflight) + Cardinality(lost)
    <2>1. IsFiniteSet(inflight) /\ IsFiniteSet(lost) /\ inflight \cap lost = {}
      BY FiniteIo DEF IInv
    <2>2. Cardinality(inflight) \in Nat /\ Cardinality(lost) \in Nat
      BY <2>1, FS_CardinalityType
    <2>3. Cardinality(inflight \cup lost) =
            Cardinality(inflight) + Cardinality(lost) - Cardinality(inflight \cap lost)
      BY <2>1, FS_Union
    <2> QED
      BY SMTT(30), <2>1, <2>2, <2>3, FS_EmptySet DEF Used
  <1>5. Cardinality(inflight) \in Nat /\ Cardinality(lost) \in Nat /\ pool \in Nat
    BY FiniteIo, FS_CardinalityType DEF IInv, TypeOK
  <1>6. pool + Cardinality(inflight) + Cardinality(lost) = task_count
    BY DEF IInv, PoolAccounting
  <1>7. Count * QueueDepth <= task_count /\ task_count \in Nat /\ Count * QueueDepth \in Nat
    <2>1. N \in Nat /\ Count \in Nat /\ QueueDepth \in Nat /\ Count <= N
      BY ConstantsAssumption DEF Larger
    <2> HIDE DEF N
    <2>2. Count * QueueDepth <= N * QueueDepth
      BY SMTT(30), <2>1
    <2> QED
      BY SMTT(30), <2>1, <2>2, TaskCountType DEF task_count, N
  <1> QED
    BY SMTT(30), <1>3, <1>4, <1>5, <1>6, <1>7

\* When main() builds no more contexts than it counted for task_count,
\* spdk_mempool_get never returns NULL, whatever the interleaving of the workers.
THEOREM PoolNeverExhausted ==
  ASSUME Count <= Larger(NumNamespaces, NumWorkers)
  PROVE  Spec => []PoolSuffices
  <1>1. ASSUME IInv
        PROVE  PoolSuffices
    <2> SUFFICES ASSUME NEW w \in Workers,
                        At(w, "resubmit") \/ (At(w, "submit") /\ worker[w].cur # NULL
                                                              /\ worker[w].slot > 0)
                 PROVE  pool > 0
      BY DEF PoolSuffices
    <2>1. PICK c \in Ctxs, s \in Slots : c = worker[w].cur /\ s = worker[w].slot
      BY SMTT(30), <1>1, ConstantsAssumption DEF IInv, TypeOK, WorkerInv, At, Slots
    <2>2. worker_of(c) = w /\ c # NULL
      BY <1>1, <2>1 DEF IInv, WorkerInv, At
    <2>3. SlotInv(w, c, s)
      BY <1>1, <2>2 DEF IInv
    <2>4. <<c, s>> \notin Used
      BY SMTT(30), <2>1, <2>2, <2>3, ConstantsAssumption DEF SlotInv, At, Ctxs, Slots
    <2>5. PoolCreated
      BY DEF At, PoolCreated
    <2> QED
      BY <1>1, <2>4, <2>5, FreeSlotLeavesTask
  <1> QED
    BY <1>1, Invariance, PTL

\* The sequential offset stays below size_in_ios.
THEOREM OffsetStaysInRange == Spec => []OffsetInRange
  <1> USE ConstantsAssumption
  <1>1. Init => OffsetInRange
    BY SMTT(30) DEF Init, OffsetInRange
  <1>2. IInv /\ OffsetInRange /\ [Next]_vars => OffsetInRange'
    <2> SUFFICES ASSUME IInv, OffsetInRange, [Next]_vars
                 PROVE  OffsetInRange'
      OBVIOUS
    <2>1. UNCHANGED offset \/ \E c \in Ctxs : AdvanceOffset(c)
      <3>1. CASE MainNext
        BY <3>1 DEF MainNext, register_workers, register_controllers, associate_workers_with_ns,
           create_pool, launch, wait_all, zstore_cleanup, zstore_cleanup_without_pool, Setup,
           ctxVars
      <3>2. ASSUME NEW w \in Workers, submit_io(w) \/ resubmit(w)
            PROVE  UNCHANGED offset \/ \E c \in Ctxs : AdvanceOffset(c)
        <4>1. worker[w].cur \in Ctxs
          BY <3>2 DEF submit_io, resubmit, IInv, TypeOK, WorkerInv, At
        <4> QED
          BY <3>2, <4>1, ZenonT(30) DEF submit_io, resubmit, submit_single_io, Exit1, ctxVars
      <3>3. ASSUME NEW w \in Workers,
                   ThreadStep(w) \/ Completion(w) \/ check_io_return(w) \/ Clock(w)
            PROVE  UNCHANGED offset \/ \E c \in Ctxs : AdvanceOffset(c)
        BY ZenonT(30), <3>2, <3>3 DEF ThreadStep, Completion, init_ns_worker_ctx, StartSubmit, SubmitNextCtx,
           StartPoll, PollAgain, StopPolling, drain_io, cleanup_ns_worker_ctx, WorkerReturns,
           task_complete, CompletionOf, check_io_return, Clock, Move, ctxVars
      <3> QED
        BY <3>1, <3>3 DEF Next, vars, ctxVars
    <2> QED
      BY SMTT(30), <2>1 DEF IInv, TypeOK, OffsetInRange, AdvanceOffset
  <1> QED
    BY <1>1, <1>2, Invariance, PTL DEF Spec

\* After is_draining is set a context starts no I/O.
THEOREM DrainShrinks == Spec => DrainOnlyShrinks
  <1> DEFINE Shrinks == \A c \in Ctxs : draining[c] => Outstanding(c)' \subseteq Outstanding(c)
  <1>1. ASSUME IInv, [Next]_vars
        PROVE  [Shrinks]_vars
    <2>1. inflight' \subseteq inflight \/ \E w \in Workers : submit_io(w) \/ resubmit(w)
      <3>1. CASE MainNext
        BY <3>1 DEF MainNext, register_workers, register_controllers, associate_workers_with_ns,
           create_pool, launch, wait_all, zstore_cleanup, zstore_cleanup_without_pool, Setup,
           ioVars
      <3>2. ASSUME NEW w \in Workers,
                   ThreadStep(w) \/ Completion(w) \/ check_io_return(w) \/ Clock(w)
            PROVE  inflight' \subseteq inflight \/ submit_io(w) \/ resubmit(w)
        BY ZenonT(30), <3>2 DEF ThreadStep, Completion, init_ns_worker_ctx, StartSubmit, SubmitNextCtx,
           StartPoll, PollAgain, StopPolling, drain_io, cleanup_ns_worker_ctx, WorkerReturns,
           task_complete, CompletionOf, check_io_return, Clock, Move, ioVars
      <3> QED
        BY <1>1, <3>1, <3>2 DEF Next, vars, ioVars
    <2>2. CASE inflight' \subseteq inflight
      BY <2>2 DEF Outstanding
    <2>3. ASSUME NEW w \in Workers, submit_io(w) \/ resubmit(w)
          PROVE  Shrinks
      <3>1. PICK c \in Ctxs : c = worker[w].cur
        BY <1>1, <2>3 DEF submit_io, resubmit, IInv, TypeOK, WorkerInv, At
      <3>2. worker_of(c) = w /\ worker[w].pc \in {"submit", "resubmit"}
        BY <1>1, <2>3, <3>1, ZenonT(30) DEF submit_io, resubmit, IInv, WorkerInv, At
      <3>3. ~draining[c]
        BY <1>1, <3>2 DEF IInv, CtxInv
      <3>4. inflight' \subseteq inflight \cup {<<c, t>> : t \in Slots}
        <4>1. worker[w].slot \in Slots
          BY SMTT(30), <1>1, <2>3, ConstantsAssumption
             DEF submit_io, resubmit, IInv, TypeOK, WorkerInv, At, Slots
        <4> QED
          BY <2>3, <3>1, <4>1, ZenonT(30) DEF submit_io, resubmit, submit_single_io, Exit1, SubmitRefused,
             SubmitAccepted, ioVars
      <3>5. ASSUME NEW d \in Ctxs, d # c
            PROVE  Outstanding(d)' \subseteq Outstanding(d)
        BY <3>4, <3>5 DEF Outstanding
      <3> QED
        BY <3>3, <3>5
    <2> QED
      BY <2>1, <2>2, <2>3
  <1> QED
    BY <1>1, Invariance, PTL DEF Spec, DrainOnlyShrinks

-----------------------------------------------------------------------------
(* The engine implements QpairContract *)

\* Every step of the engine is a step of the contract or leaves the qpairs alone.
LEMMA StepSimulation ==
  IInv /\ QInv /\ [Next]_vars => QInv' /\ [Contract!Next]_(Contract!vars)
  <1> SUFFICES ASSUME IInv, QInv, [Next]_vars
               PROVE  QInv' /\ [Contract!Next]_(Contract!vars)
    OBVIOUS
  <1>1. CASE MainNext
    BY <1>1, MainQInv DEF Contract!vars
  <1>2. ASSUME NEW w \in Workers,
               ThreadStep(w) \/ Completion(w) \/ check_io_return(w) \/ Clock(w)
        PROVE  QInv' /\ [Contract!Next]_(Contract!vars)
    <2>1. CASE \/ StartSubmit(w) \/ SubmitNextCtx(w) \/ StartPoll(w) \/ PollAgain(w)
               \/ StopPolling(w) \/ WorkerReturns(w) \/ check_io_return(w) \/ Clock(w)
      BY <2>1, MovesQInv DEF Contract!vars
    <2>2. CASE init_ns_worker_ctx(w)
      BY <2>2, InitCtxOpens
    <2>3. CASE submit_io(w) \/ resubmit(w)
      BY <2>3, SubmitUses
    <2>4. CASE drain_io(w)
      BY <2>4, DrainUses
    <2>5. CASE cleanup_ns_worker_ctx(w)
      <3>1. \A c \in Ctxs : depth[c] = Cardinality(Outstanding(c)) /\ IsFiniteSet(Outstanding(c))
        BY FiniteIo DEF IInv, DepthIsOutstanding
      <3>2. \A c \in Ctxs : depth[c] = 0 => Outstanding(c) = {}
        BY <3>1, FS_EmptySet
      <3> QED
        BY <2>5, <3>2, CleanupCtxFrees
    <2>6. CASE Completion(w)
      BY <2>6, CompletionUses DEF Completion
    <2> QED
      BY <1>2, <2>1, <2>2, <2>3, <2>4, <2>5, <2>6 DEF ThreadStep
  <1>3. CASE UNCHANGED vars
    BY <1>3 DEF vars, ctxVars, ioVars, QInv, OpenInv, Contract!vars
  <1> QED
    BY <1>1, <1>2, <1>3 DEF Next

\* The I/O engine implements the contract of its qpairs: each is opened once by
\* init_ns_worker_ctx, used while open, left alone once drain_io has begun, and
\* freed by cleanup_ns_worker_ctx with nothing outstanding.
THEOREM EngineImplementsContract == Spec => UsesQpairsProperly
  <1>1. Init => QInv /\ Contract!Init
    <2> SUFFICES ASSUME Init PROVE QInv /\ Contract!Init
      OBVIOUS
    <2>1. ASSUME NEW c \in Ctxs
          PROVE  OpenInv(worker_of(c), c)
      <3>1. worker_of(c) \in Workers
        BY OwnerType
      <3>2. worker[worker_of(c)].pc = "idle" /\ qpair[c] = "none"
        BY <3>1 DEF Init
      <3> QED
        BY <3>2 DEF OpenInv
    <2> QED
      BY <2>1 DEF QInv, Init, Contract!Init
  <1> QED
    BY <1>1, StepSimulation, Invariance, PTL DEF Spec, UsesQpairsProperly, Contract!Spec
=============================================================================
