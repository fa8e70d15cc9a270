-------------------------- MODULE VerificationProofs --------------------------
(***************************************************************************)
(* Proofs about VerificationIo: the comparisons of verification.cc raise no  *)
(* false alarm, every completed append is accounted for, and the task pool *)
(* never runs out, for every queue depth, zone and set of faults.          *)
(***************************************************************************)
EXTENDS VerificationIo, FiniteSetTheorems, TLAPS

USE ZenonT(30)

Setup == {"register_workers", "register_controllers", "associate", "create_pool"}
Over == {"print_stats", "end", "end_mismatch", "exit", "crashed", "segfault"}

IOs == [kind : {"write", "read"}, data : Nat, lba : Nat, st : {"sent", "done"}, got : Int]
Entries == [lba : Nat, data : Nat]

Types ==
  /\ todo \in Nat /\ depth \in Nat /\ count \in Nat /\ pool \in Nat
  /\ writes \in Nat /\ reads \in Nat /\ passed \in Nat /\ failed \in Nat
  /\ dropped \in Nat /\ dev_errors \in Nat
  /\ pending_reads \in Seq(Entries)
  /\ zone \in Seq(Int)
  /\ inflight \subseteq IOs /\ IsFiniteSet(inflight)

\* Block lba of the zone holds the pattern d.
Holds(lba, d) == lba < Len(zone) /\ zone[lba + 1] = d

\* While the device did all it was asked, whatever is compared belongs together.
Faithful ==
  dev_errors = 0 =>
    /\ failed = 0
    /\ \A io \in inflight :
         /\ io.kind = "read" \/ io.st = "done" => Holds(io.lba, io.data)
         /\ io.kind = "read" /\ io.st = "done" => io.got = io.data
    /\ \A i \in DOMAIN pending_reads : Holds(pending_reads[i].lba, pending_reads[i].data)

\* A pattern is in one place: with one command or in one entry of pending_reads.
Distinct ==
  /\ \A io \in inflight : io.data < count
  /\ \A io, jo \in inflight : io.data = jo.data => io = jo
  /\ \A i \in DOMAIN pending_reads :
       /\ pending_reads[i].data < count
       /\ \A io \in inflight : io.data # pending_reads[i].data
       /\ \A j \in DOMAIN pending_reads : pending_reads[i].data = pending_reads[j].data => i = j

Counted ==
  /\ depth = Cardinality(inflight)
  /\ writes = Len(pending_reads) + Cardinality(Reading) + reads + dropped
  /\ reads = passed + failed

\* How many commands and pending reads there can be, by the place of the program.
Phases ==
  /\ main \in Setup \cup {"init", "submit", "poll", "replace", "drain"} \cup Over
  /\ main \in Setup => depth = 0 /\ pending_reads = <<>> /\ inflight = {}
  /\ main = "init" => depth = 0
  /\ main \in Setup \cup {"init", "submit", "poll", "replace"} => ~draining
  /\ main = "drain" => draining
  /\ main \in {"init", "submit", "poll"} => pending_reads = <<>>
  /\ main = "submit" => depth + todo <= QueueDepth
  /\ main = "replace" => Len(pending_reads) <= 1 /\ depth < QueueDepth
  /\ main = "print_stats" => depth = 0
  /\ Len(pending_reads) + depth <= QueueDepth

\* A task is in the pool or with a command.
Tasks ==
  /\ main \notin Setup \cup {"crashed"} => pool + depth = task_count
  /\ main # "end_mismatch"

Data == Types /\ Faithful /\ Distinct /\ Counted
IInv == Data /\ Phases /\ Tasks

-----------------------------------------------------------------------------
(* Steps that neither submit nor complete *)

\* What the program moves between its functions is not what is compared.
LEMMA SameData ==
  ASSUME Data, todo' \in Nat, pool' \in Nat,
         UNCHANGED <<depth, count, pending_reads, writes, reads, passed, failed,
                     inflight, zone, dropped, dev_errors>>
  PROVE  Data'
  <1>1. Types'
    BY DEF Data, Types
  <1>2. Faithful'
    BY DEF Data, Faithful, Holds
  <1>3. Distinct'
    BY DEF Data, Distinct
  <1>4. Counted'
    BY DEF Data, Counted, Reading
  <1> QED
    BY <1>1, <1>2, <1>3, <1>4 DEF Data

\* The pool that create_pool makes is large enough for the initial submissions.
LEMMA PoolSize ==
  ASSUME VerificationConstants
  PROVE  task_count \in Nat /\ QueueDepth <= task_count
  BY SMTT(30) DEF VerificationConstants, task_count

\* The program gets ready: register_workers to init_ns_worker_ctx, every error path
\* included.
LEMMA SetupInv ==
  ASSUME VerificationConstants, IInv,
         \/ register_workers \/ register_controllers \/ associate_workers_with_ns
         \/ create_pool \/ init_ns_worker_ctx
  PROVE  IInv'
  <1>1. QueueDepth \in Nat /\ task_count \in Nat
    BY PoolSize DEF VerificationConstants
  <1>2. Data'
    <2>1. todo' \in Nat /\ pool' \in Nat
      BY <1>1 DEF register_workers, register_controllers, associate_workers_with_ns,
         create_pool, init_ns_worker_ctx, Stop, ctxVars, ioVars, IInv, Data, Types
    <2> QED
      BY <2>1, SameData DEF register_workers, register_controllers,
         associate_workers_with_ns, create_pool, init_ns_worker_ctx, Stop, ctxVars, ioVars, IInv
  <1>3. Phases'
    <2> USE DEF IInv, Phases, Setup, Over, Stop, ctxVars, ioVars
    <2>1. CASE register_workers \/ register_controllers \/ associate_workers_with_ns
      BY SMTT(30), <2>1 DEF register_workers, register_controllers, associate_workers_with_ns
    <2>2. CASE create_pool
      BY SMTT(30), <2>2 DEF create_pool
    <2>3. CASE init_ns_worker_ctx
      BY SMTT(30), <1>1, <2>3 DEF init_ns_worker_ctx, Data, Types
    <2> QED
      BY <2>1, <2>2, <2>3
  <1>4. Tasks'
    <2> USE DEF IInv, Tasks, Setup, Stop, ctxVars, ioVars
    <2>1. CASE register_workers \/ register_controllers \/ associate_workers_with_ns
      BY <2>1 DEF register_workers, register_controllers, associate_workers_with_ns
    <2>2. CASE create_pool
      BY SMTT(30), <1>1, <2>2 DEF create_pool, Phases
    <2>3. CASE init_ns_worker_ctx
      BY <2>3 DEF init_ns_worker_ctx
    <2> QED
      BY <2>1, <2>2, <2>3
  <1> QED
    BY <1>2, <1>3, <1>4 DEF IInv

\* The worker goes from submitting to polling, to draining, to the end; the clock.
LEMMA WorkerInv ==
  ASSUME VerificationConstants, IInv,
         StartPoll \/ drain_io \/ cleanup_ns_worker_ctx \/ zstore_cleanup \/ Clock
  PROVE  IInv'
  <1>1. QueueDepth \in Nat /\ task_count \in Nat
    BY PoolSize DEF VerificationConstants
  <1>2. Data'
    BY SameData DEF StartPoll, drain_io, cleanup_ns_worker_ctx, zstore_cleanup, Clock,
       Stop, ctxVars, ioVars, IInv, Data, Types
  <1>3. Phases'
    <2> USE DEF IInv, Phases, Setup, Over, ctxVars, ioVars
    <2>1. CASE StartPoll
      BY <1>1, <2>1 DEF StartPoll, Stop, Data, Types
    <2>2. CASE drain_io
      BY <2>2 DEF drain_io
    <2>3. CASE cleanup_ns_worker_ctx
      BY <2>3 DEF cleanup_ns_worker_ctx, Stop
    <2>4. CASE zstore_cleanup
      BY <2>4 DEF zstore_cleanup, Stop
    <2>5. CASE Clock
      BY <2>5 DEF Clock
    <2> QED
      BY <2>1, <2>2, <2>3, <2>4, <2>5
  <1>4. Tasks'
    <2> USE DEF IInv, Tasks, Setup, ctxVars, ioVars
    <2>1. CASE StartPoll
      BY <2>1 DEF StartPoll, Stop
    <2>2. CASE drain_io
      BY <2>2 DEF drain_io
    <2>3. CASE cleanup_ns_worker_ctx
      BY <2>3 DEF cleanup_ns_worker_ctx, Stop
    <2>4. CASE zstore_cleanup
      BY SMTT(30), <1>1, <2>4 DEF zstore_cleanup, Stop, Data, Types, Phases
    <2>5. CASE Clock
      BY <2>5 DEF Clock
    <2> QED
      BY <2>1, <2>2, <2>3, <2>4, <2>5
  <1> QED
    BY <1>2, <1>3, <1>4 DEF IInv

-----------------------------------------------------------------------------
(* Submission *)

\* A pattern is a number, in a command and in pending_reads.
LEMMA Patterns ==
  ASSUME Types
  PROVE  /\ \A io \in inflight : io.data \in Nat /\ io.lba \in Nat
         /\ \A i \in DOMAIN pending_reads :
              pending_reads[i].data \in Nat /\ pending_reads[i].lba \in Nat
  <1>1. \A i \in DOMAIN pending_reads : pending_reads[i] \in Entries
    BY SMTT(30) DEF Types
  <1>2. \A e \in Entries : e.data \in Nat /\ e.lba \in Nat
    BY DEF Entries
  <1>3. \A io \in IOs : io.data \in Nat /\ io.lba \in Nat
    BY DEF IOs
  <1> QED
    BY <1>1, <1>2, <1>3 DEF Types

\* A new command that is not like any other in flight: it counts in depth, and
\* among the reads if it is one.
LEMMA GiveCounts ==
  ASSUME Types, Counted, NEW io \in IOs, io \notin inflight, inflight' = inflight \cup {io}
  PROVE  /\ inflight' \subseteq IOs /\ IsFiniteSet(inflight')
         /\ Cardinality(inflight') = depth + 1
         /\ Cardinality(Reading) \in Nat
         /\ io.kind = "read" => Cardinality(Reading') = Cardinality(Reading) + 1
         /\ io.kind # "read" => Cardinality(Reading') = Cardinality(Reading)
  <1>1. IsFiniteSet(Reading) /\ Cardinality(Reading) \in Nat
    BY FS_Subset, FS_CardinalityType DEF Reading, Types
  <1>2. IsFiniteSet(inflight') /\ Cardinality(inflight') = Cardinality(inflight) + 1
    BY FS_AddElement DEF Types
  <1>3. CASE io.kind = "read"
    <2>1. Reading' = Reading \cup {io} /\ io \notin Reading
      BY <1>3 DEF Reading
    <2>2. Cardinality(Reading') = Cardinality(Reading) + 1
      BY <1>1, <2>1, FS_AddElement
    <2> QED
      BY <1>1, <1>2, <1>3, <2>2 DEF Types, Counted
  <1>4. CASE io.kind # "read"
    <2>1. Reading' = Reading
      BY <1>4 DEF Reading
    <2> QED
      BY <1>1, <1>2, <1>4, <2>1 DEF Types, Counted
  <1> QED
    BY <1>3, <1>4

\* submit_single_io of a write.  Its pattern is a new one, taken or not.
LEMMA SubmitWriteData ==
  ASSUME Data, pool \in Nat \ {0}, todo' \in Nat, SubmitWrite,
         UNCHANGED <<writes, reads, passed, failed, zone, dev_errors>>
  PROVE  Data' /\ pool' + depth' = pool + depth /\ (depth' = depth \/ depth' = depth + 1)
  <1>1. CASE Refused
    <2>1. Types' /\ depth' = depth /\ pool' = pool
      BY SMTT(30), <1>1 DEF SubmitWrite, Refused, Data, Types
    <2>2. Faithful'
      BY <1>1 DEF SubmitWrite, Refused, Data, Faithful, Holds
    <2>3. Distinct'
      <3>1. \A k \in Nat : k < count => k < count'
        BY SMTT(30) DEF SubmitWrite, Data, Types
      <3>2. /\ \A io \in inflight : io.data \in Nat
            /\ \A i \in DOMAIN pending_reads : pending_reads[i].data \in Nat
        BY Patterns DEF Data
      <3> QED
        BY <1>1, <3>1, <3>2 DEF SubmitWrite, Refused, Data, Distinct
    <2>4. Counted'
      BY <1>1 DEF SubmitWrite, Refused, Data, Counted, Reading
    <2> QED
      BY <2>1, <2>2, <2>3, <2>4 DEF Data, Types
  <1>2. CASE Give(Command("write", count, 0))
    <2> DEFINE io == Command("write", count, 0)
    <2>1. /\ io \in IOs /\ io.kind = "write" /\ io.data = count /\ io.st = "sent"
          /\ io.kind # "read" /\ io.st # "done"
      BY SMTT(30) DEF Command, IOs, NoData, Data, Types
    <2>2. \A jo \in inflight : jo.data # count
      BY SMTT(30) DEF Data, Types, Distinct, IOs
    <2>3. io \notin inflight
      BY <2>1, <2>2
    <2> HIDE DEF io
    <2>4. inflight' = inflight \cup {io} /\ depth' = depth + 1 /\ pool' = pool - 1
      BY <1>2 DEF Give, io
    <2>a. /\ inflight' \subseteq IOs /\ IsFiniteSet(inflight')
          /\ Cardinality(inflight') = depth + 1
          /\ Cardinality(Reading') = Cardinality(Reading)
      BY <2>1, <2>3, <2>4, GiveCounts DEF Data
    <2>5. Types'
      BY SMTT(30), <2>4, <2>a DEF SubmitWrite, Data, Types
    <2>6. Faithful'
      BY <2>1, <2>4 DEF SubmitWrite, Data, Types, Faithful, Holds
    <2>7. Distinct'
      <3>1. count < count' /\ \A k \in Nat : k < count => k < count' /\ k # count
        BY SMTT(30) DEF SubmitWrite, Data, Types
      <3>2. /\ \A jo \in inflight : jo.data \in Nat
            /\ \A i \in DOMAIN pending_reads : pending_reads[i].data \in Nat
        BY Patterns DEF Data
      <3> QED
        BY SMTT(30), <2>1, <2>2, <2>4, <3>1, <3>2 DEF SubmitWrite, Data, Distinct
    <2>8. Counted'
      BY <2>4, <2>a DEF SubmitWrite, Data, Counted
    <2> QED
      BY SMTT(30), <2>4, <2>5, <2>6, <2>7, <2>8 DEF Data, Types
  <1> QED
    BY <1>1, <1>2 DEF SubmitWrite

\* submit_single_io of a verification read: the entry leaves pending_reads and its
\* LBA and pattern go into the command, or are dropped.
LEMMA SubmitReadData ==
  ASSUME Data, pool \in Nat \ {0}, todo' \in Nat, pending_reads # <<>>, SubmitRead,
         UNCHANGED <<writes, reads, passed, failed, zone, dev_errors>>
  PROVE  /\ Data' /\ pool' + depth' = pool + depth /\ (depth' = depth \/ depth' = depth + 1)
         /\ Len(pending_reads') = Len(pending_reads) - 1
  <1> DEFINE r == Head(pending_reads)
             n == Len(pending_reads)
  <1>1. /\ n \in Nat \ {0} /\ DOMAIN pending_reads = 1..n
        /\ r = pending_reads[1] /\ 1 \in DOMAIN pending_reads
        /\ r \in Entries
    BY SMTT(30) DEF Data, Types
  <1>2. /\ pending_reads' \in Seq(Entries)
        /\ Len(pending_reads') = n - 1
        /\ DOMAIN pending_reads' = 1..(n - 1)
        /\ \A i \in 1..(n - 1) : pending_reads'[i] = pending_reads[i + 1]
    BY SMTT(30), <1>1 DEF SubmitRead, Data, Types
  <1>3. \A i \in DOMAIN pending_reads' :
          i + 1 \in DOMAIN pending_reads /\ i + 1 # 1
          /\ pending_reads'[i] = pending_reads[i + 1]
    BY SMTT(30), <1>1, <1>2
  <1>4. \A i \in DOMAIN pending_reads' : pending_reads'[i].data # r.data
    BY <1>1, <1>3 DEF Data, Distinct
  <1>5. CASE Refused /\ dropped' = dropped + 1
    <2>1. Types'
      BY SMTT(30), <1>2, <1>5 DEF SubmitRead, Refused, Data, Types
    <2>2. Faithful'
      BY SMTT(30), <1>3, <1>5 DEF SubmitRead, Refused, Data, Faithful, Holds
    <2>3. Distinct'
      <3>1. \A i, j \in DOMAIN pending_reads' : i \in Int /\ j \in Int /\ (i + 1 = j + 1 => i = j)
        BY SMTT(30), <1>1, <1>2
      <3> QED
        BY SMTT(30), <1>3, <1>5, <3>1 DEF SubmitRead, Refused, Data, Distinct
    <2>4. Counted'
      <3>1. Cardinality(Reading') = Cardinality(Reading)
        BY <1>5 DEF Refused, Reading
      <3>2. Cardinality(Reading) \in Nat
        BY FS_Subset, FS_CardinalityType DEF Reading, Data, Types
      <3>3. /\ dropped \in Nat /\ reads \in Nat
            /\ writes = n + Cardinality(Reading) + reads + dropped
        BY DEF Data, Types, Counted
      <3>4. writes = (n - 1) + Cardinality(Reading) + reads + (dropped + 1)
        BY SMTT(30), <1>1, <3>2, <3>3
      <3> QED
        BY <1>2, <1>5, <3>1, <3>3, <3>4 DEF Refused, Data, Counted
    <2> QED
      BY <1>2, <1>5, <2>1, <2>2, <2>3, <2>4 DEF Data, Refused
  <1>6. CASE Give(Command("read", r.data, r.lba)) /\ UNCHANGED dropped
    <2> DEFINE io == Command("read", r.data, r.lba)
    <2>1. /\ io \in IOs /\ io.kind = "read" /\ io.data = r.data /\ io.lba = r.lba
          /\ io.st # "done"
      BY SMTT(30), <1>1 DEF Command, IOs, NoData, Entries
    <2>2. \A jo \in inflight : jo.data # r.data
      BY <1>1 DEF Data, Distinct
    <2>3. io \notin inflight
      BY <2>1, <2>2
    <2> HIDE DEF io, r
    <2>4. inflight' = inflight \cup {io} /\ depth' = depth + 1 /\ pool' = pool - 1
      BY <1>6 DEF Give, io
    <2>a. /\ inflight' \subseteq IOs /\ IsFiniteSet(inflight')
          /\ Cardinality(inflight') = depth + 1
          /\ Cardinality(Reading) \in Nat
          /\ Cardinality(Reading') = Cardinality(Reading) + 1
      BY <2>1, <2>3, <2>4, GiveCounts DEF Data
    <2>5. Types'
      BY SMTT(30), <1>2, <1>6, <2>4, <2>a DEF SubmitRead, Data, Types
    <2>6. Faithful'
      BY SMTT(30), <1>1, <1>3, <2>1, <2>4 DEF SubmitRead, Data, Faithful, Holds
    <2>7. Distinct'
      <3>1. \A i, j \in DOMAIN pending_reads' : i \in Int /\ j \in Int /\ (i + 1 = j + 1 => i = j)
        BY SMTT(30), <1>1, <1>2
      <3> QED
        BY SMTT(30), <1>1, <1>3, <1>4, <2>1, <2>2, <2>4, <3>1 DEF SubmitRead, Data, Distinct
    <2>8. Counted'
      <3>1. /\ dropped \in Nat /\ reads \in Nat
            /\ writes = n + Cardinality(Reading) + reads + dropped
        BY DEF Data, Types, Counted
      <3>2. writes = (n - 1) + (Cardinality(Reading) + 1) + reads + dropped
        BY SMTT(30), <1>1, <2>a, <3>1
      <3> QED
        BY <1>2, <1>6, <2>4, <2>a, <3>2 DEF Data, Counted
    <2> QED
      BY SMTT(30), <1>2, <2>4, <2>5, <2>6, <2>7, <2>8 DEF Data, Types
  <1> QED
    BY <1>5, <1>6 DEF SubmitRead

\* The initial submissions, and exit(1) on the way.
LEMMA SubmitInv ==
  ASSUME VerificationConstants, IInv, submit_io
  PROVE  IInv'
  <1>1. QueueDepth \in Nat /\ task_count \in Nat
    BY PoolSize DEF VerificationConstants
  <1>2. CASE Stop("exit")
    <2>1. Data'
      BY <1>2, SameData DEF Stop, ctxVars, ioVars, IInv, Data, Types
    <2>2. Phases'
      BY <1>2 DEF Stop, ctxVars, ioVars, IInv, Phases, Setup, Over
    <2>3. Tasks'
      BY <1>2 DEF submit_io, Stop, ctxVars, ioVars, IInv, Tasks, Setup, task_count
    <2> QED
      BY <2>1, <2>2, <2>3 DEF IInv
  <1>3. CASE /\ pool > 0 /\ SubmitWrite
             /\ todo' = todo - 1
             /\ UNCHANGED <<main, expired, draining, writes, reads, passed, failed,
                            zone, dev_errors>>
    <2>1. pool \in Nat \ {0} /\ todo \in Nat \ {0} /\ todo' \in Nat /\ depth \in Nat
      BY SMTT(30), <1>3 DEF submit_io, IInv, Data, Types
    <2>2. Data' /\ pool' + depth' = pool + depth /\ (depth' = depth \/ depth' = depth + 1)
      BY <1>3, <2>1, SubmitWriteData DEF IInv
    <2>3. Phases'
      <3>1. pending_reads' = pending_reads /\ pending_reads = <<>> /\ Len(pending_reads) = 0
        BY <1>3 DEF SubmitWrite, submit_io, IInv, Phases
      <3>2. depth + todo <= QueueDepth /\ main' = "submit" /\ ~draining' /\ todo' = todo - 1
        BY <1>3 DEF submit_io, IInv, Phases
      <3>3. /\ depth' + todo' <= QueueDepth
            /\ Len(pending_reads') + depth' <= QueueDepth
        BY SMTT(30), <1>1, <2>1, <2>2, <3>1, <3>2
      <3> QED
        BY <3>1, <3>2, <3>3 DEF Phases, Setup, Over
    <2>4. Tasks'
      BY <1>3, <2>2 DEF submit_io, IInv, Tasks, Setup, task_count
    <2> QED
      BY <2>2, <2>3, <2>4 DEF IInv
  <1> QED
    BY <1>2, <1>3 DEF submit_io

\* The replacement.  A completed write left an entry behind and made room for its
\* read, so the test of current_queue_depth lets it through.
LEMMA ReplaceInv ==
  ASSUME VerificationConstants, IInv, Replace
  PROVE  IInv'
  <1>1. QueueDepth \in Nat /\ task_count \in Nat
    BY PoolSize DEF VerificationConstants
  <1>2. CASE Stop("exit")
    <2>1. Data'
      BY <1>2, SameData DEF Stop, ctxVars, ioVars, IInv, Data, Types
    <2>2. Phases'
      BY <1>2 DEF Stop, ctxVars, ioVars, IInv, Phases, Setup, Over
    <2>3. Tasks'
      BY <1>2 DEF Replace, Stop, ctxVars, ioVars, IInv, Tasks, Setup, task_count
    <2> QED
      BY <2>1, <2>2, <2>3 DEF IInv
  <1>3. CASE /\ pool > 0 /\ main' = "poll"
             /\ IF pending_reads # <<>> /\ depth < QueueDepth THEN SubmitRead ELSE SubmitWrite
             /\ UNCHANGED <<todo, expired, draining, writes, reads, passed, failed,
                            zone, dev_errors>>
    <2>1. /\ pool \in Nat \ {0} /\ todo' \in Nat /\ depth \in Nat /\ depth < QueueDepth
          /\ Len(pending_reads) <= 1 /\ Len(pending_reads) \in Nat /\ ~draining'
          /\ pending_reads \in Seq(Entries)
      BY SMTT(30), <1>3 DEF Replace, IInv, Data, Types, Phases
    <2>2. /\ Data' /\ pool' + depth' = pool + depth /\ (depth' = depth \/ depth' = depth + 1)
          /\ pending_reads' = <<>>
      <3>1. CASE pending_reads = <<>>
        BY <1>3, <2>1, <3>1, SubmitWriteData DEF SubmitWrite, IInv
      <3>2. CASE pending_reads # <<>>
        <4>1. /\ Data' /\ pool' + depth' = pool + depth /\ (depth' = depth \/ depth' = depth + 1)
              /\ Len(pending_reads') = Len(pending_reads) - 1
          BY <1>3, <2>1, <3>2, SubmitReadData DEF IInv
        <4>2. Len(pending_reads) # 0
          BY SMTT(30), <2>1, <3>2
        <4>3. Len(pending_reads') = 0
          BY SMTT(30), <2>1, <4>1, <4>2
        <4>4. pending_reads' \in Seq(Entries)
          BY <4>1 DEF Data, Types
        <4> QED
          BY SMTT(30), <4>1, <4>3, <4>4
      <3> QED
        BY <3>1, <3>2
    <2>3. Phases'
      <3>1. Len(pending_reads') = 0
        BY <2>2
      <3>2. Len(pending_reads') + depth' <= QueueDepth
        BY SMTT(30), <1>1, <2>1, <2>2, <3>1
      <3> QED
        BY <1>3, <2>1, <2>2, <3>2 DEF Phases, Setup, Over
    <2>4. Tasks'
      BY <1>3, <2>2 DEF Replace, IInv, Tasks, Setup, task_count
    <2> QED
      BY <2>2, <2>3, <2>4 DEF IInv
  <1> QED
    BY <1>2, <1>3 DEF Replace

-----------------------------------------------------------------------------
(* Completion *)

\* An entry at the end of a queue.
LEMMA Appended ==
  ASSUME NEW S, NEW s \in Seq(S), NEW e \in S
  PROVE  /\ Append(s, e) \in Seq(S) /\ Len(Append(s, e)) = Len(s) + 1
         /\ DOMAIN Append(s, e) = 1..(Len(s) + 1)
         /\ \A i \in 1..Len(s) : Append(s, e)[i] = s[i]
         /\ Append(s, e)[Len(s) + 1] = e
  BY SMTT(30)

\* A command that is taken out of those in flight.
LEMMA TakeCounts ==
  ASSUME Types, Counted, NEW io \in inflight, inflight' = inflight \ {io}
  PROVE  /\ inflight' \subseteq IOs /\ IsFiniteSet(inflight')
         /\ depth - 1 \in Nat /\ Cardinality(inflight') = depth - 1
         /\ Cardinality(Reading) \in Nat /\ Cardinality(Reading') \in Nat
         /\ io.kind = "read" => Cardinality(Reading) = Cardinality(Reading') + 1
         /\ io.kind # "read" => Cardinality(Reading) = Cardinality(Reading')
  <1>1. IsFiniteSet(Reading) /\ Cardinality(Reading) \in Nat
    BY FS_Subset, FS_CardinalityType DEF Reading, Types
  <1>2. IsFiniteSet(inflight') /\ Cardinality(inflight') = Cardinality(inflight) - 1
    BY FS_RemoveElement DEF Types
  <1>3. Cardinality(inflight') \in Nat /\ inflight' \subseteq IOs
    BY <1>2, FS_CardinalityType DEF Types
  <1>4. IsFiniteSet(Reading') /\ Cardinality(Reading') \in Nat
    <2>1. Reading' \subseteq inflight'
      BY DEF Reading
    <2> QED
      BY <1>2, <2>1, FS_Subset, FS_CardinalityType
  <1>5. CASE io.kind = "read"
    <2>1. Reading' = Reading \ {io} /\ io \in Reading
      BY <1>5 DEF Reading
    <2>2. Cardinality(Reading') = Cardinality(Reading) - 1
      BY <1>1, <2>1, FS_RemoveElement
    <2> QED
      BY SMTT(30), <1>1, <1>2, <1>3, <1>4, <1>5, <2>2 DEF Types, Counted
  <1>6. CASE io.kind # "read"
    <2>1. Reading' = Reading
      BY SMTT(30), <1>6 DEF Reading
    <2> QED
      BY <1>1, <1>2, <1>3, <1>4, <1>6, <2>1 DEF Types, Counted
  <1> QED
    BY <1>5, <1>6

\* io_complete and task_complete: a write leaves its LBA and its pattern in
\* pending_reads, a read is compared with the pattern it carries.
LEMMA CompleteInv ==
  ASSUME VerificationConstants, IInv, NEW io \in inflight, io_complete(io)
  PROVE  IInv'
  <1>1. QueueDepth \in Nat /\ task_count \in Nat
    BY PoolSize DEF VerificationConstants
  <1>2. CASE Stop("segfault")
    <2>1. Data'
      BY <1>2, SameData DEF Stop, ctxVars, ioVars, IInv, Data, Types
    <2>2. Phases'
      BY <1>2 DEF Stop, ctxVars, ioVars, IInv, Phases, Setup, Over
    <2>3. Tasks'
      BY <1>2 DEF io_complete, Stop, ctxVars, ioVars, IInv, Tasks, Setup, task_count
    <2> QED
      BY <2>1, <2>2, <2>3 DEF IInv
  <1> DEFINE Taken ==
        /\ inflight' = inflight \ {io} /\ pool' = pool + 1 /\ depth' = depth - 1
        /\ main' = IF draining THEN main ELSE "replace"
        /\ UNCHANGED <<todo, expired, draining, count, zone, dropped, dev_errors>>
      ReadDone ==
        /\ io.kind = "read" /\ reads' = reads + 1
        /\ passed' = IF io.got = io.data THEN passed + 1 ELSE passed
        /\ failed' = IF io.got = io.data THEN failed ELSE failed + 1
        /\ UNCHANGED <<writes, pending_reads>>
      WriteDone ==
        /\ io.kind # "read" /\ writes' = writes + 1
        /\ pending_reads' = Append(pending_reads, [lba |-> io.lba, data |-> io.data])
        /\ UNCHANGED <<reads, passed, failed>>
  <1>3. io.st = "done" /\ main \in {"poll", "drain"}
    BY DEF io_complete
  <1>4. ~Stop("segfault") => Taken /\ (ReadDone \/ WriteDone)
    BY DEF io_complete
  <1>5. ASSUME Taken
        PROVE  /\ inflight' \subseteq IOs /\ IsFiniteSet(inflight')
               /\ depth - 1 \in Nat /\ Cardinality(inflight') = depth - 1
               /\ Cardinality(Reading) \in Nat /\ Cardinality(Reading') \in Nat
               /\ io.kind = "read" => Cardinality(Reading) = Cardinality(Reading') + 1
               /\ io.kind # "read" => Cardinality(Reading) = Cardinality(Reading')
    BY <1>5, TakeCounts DEF IInv, Data
  <1>6. ASSUME Taken PROVE Tasks'
    <2>1. pool' + depth' = pool + depth
      BY SMTT(30), <1>5, <1>6 DEF IInv, Data, Types
    <2> QED
      BY <1>3, <1>6, <2>1 DEF IInv, Tasks, Setup, task_count
  <1>7. ASSUME Taken,
               \/ Len(pending_reads') = Len(pending_reads)
               \/ Len(pending_reads') = Len(pending_reads) + 1
        PROVE  Phases'
    <2>1. /\ Len(pending_reads) \in Nat /\ depth \in Nat
          /\ Len(pending_reads) + depth <= QueueDepth
          /\ main = "poll" => Len(pending_reads) = 0 /\ ~draining
          /\ main = "drain" => draining
      BY SMTT(30) DEF IInv, Data, Types, Phases
    <2>2. /\ Len(pending_reads') + depth' <= QueueDepth
          /\ main = "poll" => Len(pending_reads') <= 1 /\ depth' < QueueDepth
      BY SMTT(30), <1>1, <1>7, <2>1
    <2>3. /\ main = "poll" => main' = "replace" /\ ~draining'
          /\ main = "drain" => main' = "drain" /\ draining'
      BY <1>7, <2>1
    <2> QED
      BY <1>3, <2>2, <2>3 DEF Phases, Setup, Over
  <1>8. CASE Taken /\ ReadDone
    <2>1. Types'
      BY SMTT(30), <1>5, <1>8 DEF IInv, Data, Types
    <2>2. Faithful'
      BY <1>3, <1>8 DEF IInv, Data, Faithful, Holds
    <2>3. Distinct'
      BY <1>8 DEF IInv, Data, Distinct
    <2>4. Counted'
      <3>1. /\ dropped \in Nat /\ reads \in Nat /\ passed \in Nat /\ failed \in Nat
            /\ Len(pending_reads) \in Nat
            /\ writes = Len(pending_reads) + Cardinality(Reading) + reads + dropped
            /\ reads = passed + failed
        BY SMTT(30) DEF IInv, Data, Types, Counted
      <3>2. /\ writes = Len(pending_reads) + Cardinality(Reading') + (reads + 1) + dropped
            /\ reads' = passed' + failed'
        BY SMTT(30), <1>5, <1>8, <3>1
      <3> QED
        BY <1>5, <1>8, <3>2 DEF Counted
    <2>a. Taken /\ Len(pending_reads') = Len(pending_reads)
      BY <1>8
    <2> HIDE DEF Taken, ReadDone
    <2>5. Phases'
      BY <1>7, <2>a
    <2>6. Tasks'
      BY <1>6, <2>a
    <2> QED
      BY <2>1, <2>2, <2>3, <2>4, <2>5, <2>6 DEF IInv, Data
  <1>9. CASE Taken /\ WriteDone
    <2> DEFINE n == Len(pending_reads)
               e == [lba |-> io.lba, data |-> io.data]
    <2>1. io.data \in Nat /\ io.lba \in Nat
      BY Patterns DEF IInv, Data
    <2>2. e \in Entries /\ e.lba = io.lba /\ e.data = io.data
      BY <2>1 DEF Entries
    <2>3. pending_reads' = Append(pending_reads, e)
      BY <1>9
    <2>a. /\ Taken /\ io.kind # "read" /\ writes' = writes + 1
          /\ reads' = reads /\ passed' = passed /\ failed' = failed
      BY <1>9
    <2> HIDE DEF e, ReadDone, WriteDone
    <2>4. /\ pending_reads \in Seq(Entries) /\ n \in Nat /\ DOMAIN pending_reads = 1..n
      BY SMTT(30) DEF IInv, Data, Types
    <2>5. /\ pending_reads' \in Seq(Entries) /\ Len(pending_reads') = n + 1
          /\ DOMAIN pending_reads' = 1..(n + 1)
          /\ \A i \in 1..n : pending_reads'[i] = pending_reads[i]
          /\ pending_reads'[n + 1] = e
      <3>1. e \in Entries
        BY <2>2
      <3> QED
        BY SMTT(30), <2>3, <2>4, <3>1, Appended
    <2>6. \A i \in DOMAIN pending_reads' :
            \/ i \in DOMAIN pending_reads /\ pending_reads'[i] = pending_reads[i]
            \/ i = n + 1 /\ pending_reads'[i] = e
      BY SMTT(30), <2>4, <2>5
    <2>7. Types'
      BY SMTT(30), <1>5, <2>a, <2>5 DEF IInv, Data, Types
    <2>8. Faithful'
      BY <1>3, <2>a, <2>2, <2>6 DEF IInv, Data, Faithful, Holds
    <2>9. Distinct'
      BY SMTT(30), <2>a, <2>2, <2>6 DEF IInv, Data, Distinct
    <2>10. Counted'
      <3>1. /\ dropped \in Nat /\ reads \in Nat
            /\ writes = n + Cardinality(Reading) + reads + dropped
        BY DEF IInv, Data, Types, Counted
      <3>2. writes' = (n + 1) + Cardinality(Reading') + reads + dropped
        BY SMTT(30), <1>5, <2>a, <2>4, <3>1
      <3> QED
        BY <1>5, <2>a, <2>5, <3>2 DEF IInv, Data, Counted
    <2> HIDE DEF Taken
    <2>11. Phases'
      BY <1>7, <2>a, <2>5
    <2>12. Tasks'
      BY <1>6, <2>a
    <2> QED
      BY <2>7, <2>8, <2>9, <2>10, <2>11, <2>12 DEF IInv, Data
  <1> QED
    BY <1>2, <1>4, <1>8, <1>9

-----------------------------------------------------------------------------
(* The device *)

\* The device marks a command as done: the same commands, of the same kinds and
\* patterns, are in flight.
LEMMA ExecutedCounts ==
  ASSUME Data, NEW io \in inflight, NEW d \in IOs,
         d.kind = io.kind, d.data = io.data,
         inflight' = (inflight \ {io}) \cup {d}
  PROVE  /\ inflight' \subseteq IOs /\ IsFiniteSet(inflight')
         /\ Cardinality(inflight') = Cardinality(inflight)
         /\ Cardinality(Reading') = Cardinality(Reading)
  <1> DEFINE rest == inflight \ {io}
             others == Reading \ {io}
  <1>1. d \notin rest
    BY DEF Data, Distinct
  <1>2. IsFiniteSet(inflight) /\ IsFiniteSet(Reading) /\ inflight \subseteq IOs
    BY FS_Subset DEF Data, Types, Reading
  <1>3. /\ IsFiniteSet(rest) /\ Cardinality(rest) = Cardinality(inflight) - 1
    BY <1>2, FS_RemoveElement
  <1>4. /\ IsFiniteSet(inflight') /\ Cardinality(inflight') = Cardinality(rest) + 1
    BY <1>1, <1>3, FS_AddElement
  <1>5. Cardinality(inflight) \in Nat /\ Cardinality(Reading) \in Nat
    BY <1>2, FS_CardinalityType
  <1>6. CASE io.kind = "read"
    <2>1. io \in Reading /\ d \notin others /\ Reading' = others \cup {d}
      BY <1>1, <1>6 DEF Reading
    <2>2. IsFiniteSet(others) /\ Cardinality(others) = Cardinality(Reading) - 1
      BY <1>2, <2>1, FS_RemoveElement
    <2> HIDE DEF others
    <2>3. Cardinality(Reading') = Cardinality(others) + 1
      BY <2>1, <2>2, FS_AddElement
    <2> HIDE DEF rest
    <2> QED
      BY SMTT(30), <1>2, <1>3, <1>4, <1>5, <2>2, <2>3
  <1>7. CASE io.kind # "read"
    <2>1. Reading' = Reading
      BY <1>7 DEF Reading
    <2> HIDE DEF rest
    <2> QED
      BY SMTT(30), <1>2, <1>3, <1>4, <1>5, <2>1
  <1> QED
    BY <1>6, <1>7

\* A command is done, and nothing else changes but the zone, which grows, and the
\* count of the device's errors.
LEMMA ExecutedInv ==
  ASSUME IInv, NEW io \in inflight, NEW lba \in Nat, NEW got \in Int,
         Executed(io, lba, got),
         zone' \in Seq(Int), Len(zone) <= Len(zone'),
         \A i \in 1..Len(zone) : zone'[i] = zone[i],
         dev_errors' \in Nat, dev_errors' = 0 => dev_errors = 0,
         dev_errors' = 0 => lba < Len(zone') /\ zone'[lba + 1] = io.data,
         dev_errors' = 0 /\ io.kind = "read" => got = io.data,
         UNCHANGED <<main, todo, expired, ctxVars, pool, dropped>>
  PROVE  IInv'
  <1> DEFINE d == [io EXCEPT !.st = "done", !.lba = lba, !.got = got]
  <1>1. io \in IOs
    BY DEF IInv, Data, Types
  <1>2. /\ d \in IOs /\ d.kind = io.kind /\ d.data = io.data /\ d.st = "done"
        /\ d.lba = lba /\ d.got = got
    <2>1. d \in IOs
      BY <1>1 DEF IOs
    <2>2. /\ d.kind = io.kind /\ d.data = io.data /\ d.st = "done"
          /\ d.lba = lba /\ d.got = got
      BY <1>1 DEF IOs
    <2> QED
      BY <2>1, <2>2
  <1>3. inflight' = (inflight \ {io}) \cup {d}
    BY DEF Executed
  <1> HIDE DEF d
  <1>4. /\ inflight' \subseteq IOs /\ IsFiniteSet(inflight')
        /\ Cardinality(inflight') = Cardinality(inflight)
        /\ Cardinality(Reading') = Cardinality(Reading)
    BY <1>2, <1>3, ExecutedCounts DEF IInv
  <1>5. Types'
    BY <1>4 DEF ctxVars, IInv, Data, Types
  <1>6. Faithful'
    <2> SUFFICES ASSUME dev_errors' = 0 PROVE Faithful'
      BY DEF Faithful
    <2>1. ASSUME NEW b \in Nat, NEW x, Holds(b, x)
          PROVE  Holds(b, x)'
      <3>1. Len(zone) \in Nat /\ Len(zone') \in Nat
        BY SMTT(30) DEF IInv, Data, Types
      <3>2. b < Len(zone) /\ zone[b + 1] = x
        BY <2>1 DEF Holds
      <3>3. b + 1 \in 1..Len(zone) /\ b < Len(zone')
        BY SMTT(30), <3>1, <3>2
      <3> QED
        BY <3>2, <3>3 DEF Holds
    <2>2. /\ \A jo \in inflight : jo.lba \in Nat
          /\ \A i \in DOMAIN pending_reads : pending_reads[i].lba \in Nat
      BY Patterns DEF IInv, Data
    <2>3. /\ failed = 0
          /\ \A jo \in inflight :
               /\ jo.kind = "read" \/ jo.st = "done" => Holds(jo.lba, jo.data)
               /\ jo.kind = "read" /\ jo.st = "done" => jo.got = jo.data
          /\ \A i \in DOMAIN pending_reads :
               Holds(pending_reads[i].lba, pending_reads[i].data)
      BY DEF IInv, Data, Faithful
    <2>4. ASSUME NEW jo \in inflight'
          PROVE  /\ jo.kind = "read" \/ jo.st = "done" => Holds(jo.lba, jo.data)'
                 /\ jo.kind = "read" /\ jo.st = "done" => jo.got = jo.data
      <3>1. CASE jo = d
        BY <1>2, <3>1 DEF Holds
      <3>2. CASE jo \in inflight
        BY <2>1, <2>2, <2>3, <3>2
      <3> QED
        BY <1>3, <2>4, <3>1, <3>2
    <2>5. (\A i \in DOMAIN pending_reads : Holds(pending_reads[i].lba, pending_reads[i].data))'
      <3>1. pending_reads' = pending_reads
        BY DEF ctxVars
      <3>2. ASSUME NEW i \in DOMAIN pending_reads
            PROVE  /\ pending_reads[i].lba < Len(zone')
                   /\ zone'[pending_reads[i].lba + 1] = pending_reads[i].data
        BY <2>1, <2>2, <2>3, <3>2 DEF Holds
      <3> QED
        BY <3>1, <3>2 DEF Holds
    <2>6. failed' = 0
      BY <2>3 DEF ctxVars
    <2> QED
      BY <2>4, <2>5, <2>6 DEF Faithful
  <1>7. Distinct'
    BY SMTT(30), <1>2, <1>3 DEF ctxVars, IInv, Data, Distinct
  <1>8. Counted'
    BY <1>4 DEF ctxVars, IInv, Data, Counted
  <1>9. Phases'
    <2>1. inflight = {} => inflight' = {}
      OBVIOUS
    <2> QED
      BY <2>1 DEF ctxVars, IInv, Phases
  <1>10. Tasks'
    BY DEF ctxVars, IInv, Tasks, task_count
  <1> QED
    BY <1>5, <1>6, <1>7, <1>8, <1>9, <1>10 DEF IInv, Data

\* An append takes the next block, whose number it reports, or fails.
LEMMA AppendInv ==
  ASSUME IInv, NEW io \in inflight, ExecuteAppend(io)
  PROVE  IInv'
  <1>1. /\ zone \in Seq(Int) /\ Len(zone) \in Nat /\ dev_errors \in Nat /\ io \in IOs
        /\ NoData \in Int
    BY SMTT(30) DEF IInv, Data, Types, NoData
  <1>2. io.data \in Int /\ io.kind # "read"
    BY SMTT(30), <1>1 DEF IOs, ExecuteAppend
  <1>3. CASE /\ zone' = Append(zone, io.data) /\ Executed(io, Len(zone), NoData)
             /\ UNCHANGED dev_errors
    <2>1. /\ zone' \in Seq(Int) /\ Len(zone') = Len(zone) + 1
          /\ \A i \in 1..Len(zone) : zone'[i] = zone[i]
          /\ zone'[Len(zone) + 1] = io.data
      BY SMTT(30), <1>1, <1>2, <1>3
    <2>2. Len(zone) <= Len(zone') /\ Len(zone) < Len(zone')
      BY SMTT(30), <1>1, <2>1
    <2> QED
      BY <1>1, <1>2, <1>3, <2>1, <2>2, ExecutedInv DEF ExecuteAppend
  <1>4. CASE Executed(io, 0, NoData) /\ dev_errors' = dev_errors + 1 /\ UNCHANGED zone
    <2>1. dev_errors' \in Nat /\ dev_errors' # 0 /\ Len(zone) <= Len(zone') /\ 0 \in Nat
      BY SMTT(30), <1>1, <1>4
    <2> QED
      BY <1>1, <1>4, <2>1, ExecutedInv DEF ExecuteAppend
  <1> QED
    BY <1>3, <1>4 DEF ExecuteAppend

\* A read returns what the block holds, or fails.
LEMMA ReadInv ==
  ASSUME IInv, NEW io \in inflight, ExecuteRead(io)
  PROVE  IInv'
  <1>1. /\ zone \in Seq(Int) /\ Len(zone) \in Nat /\ dev_errors \in Nat /\ io \in IOs
        /\ NoData \in Int /\ Len(zone) <= Len(zone)
    BY SMTT(30) DEF IInv, Data, Types, NoData
  <1>2. io.lba \in Nat /\ io.kind = "read" /\ zone' = zone
    BY <1>1 DEF IOs, ExecuteRead
  <1>3. CASE /\ io.lba < Len(zone) /\ Executed(io, io.lba, zone[io.lba + 1])
             /\ UNCHANGED dev_errors
    <2>1. zone[io.lba + 1] \in Int
      BY SMTT(30), <1>1, <1>2, <1>3
    <2>2. dev_errors = 0 => zone[io.lba + 1] = io.data
      BY <1>2 DEF IInv, Data, Faithful, Holds
    <2> QED
      BY <1>1, <1>2, <1>3, <2>1, <2>2, ExecutedInv DEF ExecuteRead
  <1>4. CASE Executed(io, io.lba, NoData) /\ dev_errors' = dev_errors + 1
    <2>1. dev_errors' \in Nat /\ dev_errors' # 0
      BY SMTT(30), <1>1, <1>4
    <2> QED
      BY <1>1, <1>2, <1>4, <2>1, ExecutedInv DEF ExecuteRead
  <1> QED
    BY <1>3, <1>4 DEF ExecuteRead

-----------------------------------------------------------------------------
(* The theorems *)

\* The inductive invariant holds in every reachable state.
THEOREM VerificationInvariance ==
  ASSUME VerificationConstants
  PROVE  ProgramSpec => []IInv
  <1>1. ProgramInit => IInv
    <2> SUFFICES ASSUME ProgramInit PROVE IInv
      OBVIOUS
    <2>1. IsFiniteSet({}) /\ Cardinality({}) = 0
      BY FS_EmptySet
    <2>2. Reading = {}
      BY DEF ProgramInit, Reading
    <2>3. Types
      <3>1. WpAtStart \in Nat /\ OldData \in Int
        BY SMTT(30) DEF VerificationConstants, OldData
      <3>2. zone \in Seq(Int)
        BY SMTT(30), <3>1 DEF ProgramInit
      <3>3. <<>> \in Seq(Entries)
        BY SMTT(30)
      <3> QED
        BY <2>1, <3>2, <3>3 DEF ProgramInit, Types
    <2>4. Faithful /\ Distinct
      BY SMTT(30) DEF ProgramInit, Faithful, Distinct
    <2>5. Counted
      BY SMTT(30), <2>1, <2>2 DEF ProgramInit, Counted
    <2>6. Phases /\ Tasks
      BY SMTT(30) DEF ProgramInit, Phases, Tasks, Setup, Over, VerificationConstants
    <2> QED
      BY <2>3, <2>4, <2>5, <2>6 DEF IInv, Data
  <1>2. IInv /\ [ProgramNext]_programVars => IInv'
    <2> SUFFICES ASSUME IInv, [ProgramNext]_programVars PROVE IInv'
      OBVIOUS
    <2>1. CASE UNCHANGED programVars
      <3>1. Data'
        BY <2>1, SameData DEF programVars, ctxVars, ioVars, IInv, Data, Types
      <3>2. Phases' /\ Tasks'
        BY <2>1 DEF programVars, ctxVars, ioVars, IInv, Phases, Tasks, task_count
      <3> QED
        BY <3>1, <3>2 DEF IInv
    <2>2. CASE Program
      <3>1. ASSUME NEW io \in inflight, io_complete(io) PROVE IInv'
        BY <3>1, CompleteInv
      <3> QED
        BY <2>2, <3>1, SetupInv, SubmitInv, ReplaceInv, WorkerInv DEF Program
    <2>3. CASE Device
      BY <2>3, AppendInv, ReadInv DEF Device
    <2>4. CASE Clock
      BY <2>4, WorkerInv
    <2> QED
      BY <2>1, <2>2, <2>3, <2>4 DEF ProgramNext
  <1> QED
    BY <1>1, <1>2, PTL DEF ProgramSpec

\* "Data verification FAILED" is printed only if the device failed an append or a
\* read: in whatever order appends and reads are executed and completed, and
\* whichever submissions are refused, the LBA that is read and the pattern that is
\* expected come from the same append.
THEOREM NoAlarmWithoutError ==
  ASSUME VerificationConstants
  PROVE  ProgramSpec => []NoFalseAlarm
  <1>1. IInv => NoFalseAlarm
    BY SMTT(30) DEF IInv, Data, Types, Faithful, NoFalseAlarm
  <1> QED
    BY <1>1, VerificationInvariance, PTL

\* Every completed append is waiting for its read, being read, verified or was
\* refused its read; nothing waits while the worker polls, and never more than
\* queue_depth appends do.
THEOREM NothingIsForgotten ==
  ASSUME VerificationConstants
  PROVE  ProgramSpec => []VerificationKeepsUp
  <1>1. IInv => VerificationKeepsUp
    <2> SUFFICES ASSUME IInv PROVE VerificationKeepsUp
      OBVIOUS
    <2>1. Len(pending_reads) <= QueueDepth
      <3>1. /\ Len(pending_reads) \in Nat /\ depth \in Nat /\ QueueDepth \in Nat
            /\ Len(pending_reads) + depth <= QueueDepth
        BY SMTT(30) DEF IInv, Data, Types, Phases, VerificationConstants
      <3> QED
        BY SMTT(30), <3>1
    <2> QED
      BY <2>1 DEF IInv, Data, Counted, Phases, VerificationKeepsUp
  <1> QED
    BY <1>1, VerificationInvariance, PTL

\* spdk_mempool_get never fails, in the initial submissions or in task_complete,
\* and zstore_cleanup finds every task back in the pool.
THEOREM TasksComeBack ==
  ASSUME VerificationConstants
  PROVE  ProgramSpec => [](/\ (main = "submit" /\ todo > 0) \/ main = "replace" => pool > 0
                    /\ main # "end_mismatch")
  <1>1. IInv => /\ (main = "submit" /\ todo > 0) \/ main = "replace" => pool > 0
                /\ main # "end_mismatch"
    <2> SUFFICES ASSUME IInv, (main = "submit" /\ todo > 0) \/ main = "replace"
                 PROVE  pool > 0
      BY DEF IInv, Tasks
    <2>1. pool + depth = task_count /\ task_count \in Nat /\ QueueDepth <= task_count
      BY PoolSize DEF IInv, Tasks, Setup
    <2>2. depth < QueueDepth
      BY SMTT(30) DEF IInv, Data, Types, Phases, VerificationConstants
    <2> QED
      BY SMTT(30), <2>1, <2>2 DEF IInv, Data, Types, VerificationConstants
  <1> QED
    BY <1>1, VerificationInvariance, PTL
=============================================================================
