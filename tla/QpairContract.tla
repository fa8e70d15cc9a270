---------------------------- MODULE QpairContract ----------------------------
(***************************************************************************)
(* How a program may use its I/O queue pairs, whatever the number of       *)
(* threads and however they interleave: what the functions around          *)
(* spdk_nvme_ctrlr_alloc_io_qpair, drain_io and                            *)
(* spdk_nvme_ctrlr_free_io_qpair promise the driver and one another.  A    *)
(* qpair is opened once, carries I/O while it is open, takes no new I/O    *)
(* once it drains, and is freed when the last one has completed.           *)
(***************************************************************************)
EXTENDS Integers

CONSTANTS
  Qpairs,  \* one per ns_worker_ctx
  Slots    \* the I/Os a qpair may have outstanding

VARIABLES qpair, draining, inflight

vars == <<qpair, draining, inflight>>

Init ==
  /\ qpair = [q \in Qpairs |-> "none"]
  /\ draining = [q \in Qpairs |-> FALSE]
  /\ inflight = {}

Open(q) ==
  /\ qpair[q] = "none"
  /\ qpair' = [qpair EXCEPT ![q] = "open"]
  /\ UNCHANGED <<draining, inflight>>

Submit(q, s) ==
  /\ qpair[q] = "open" /\ ~draining[q]
  /\ <<q, s>> \notin inflight
  /\ inflight' = inflight \cup {<<q, s>>}
  /\ UNCHANGED <<qpair, draining>>

Complete(q, s) ==
  /\ qpair[q] = "open"
  /\ <<q, s>> \in inflight
  /\ inflight' = inflight \ {<<q, s>>}
  /\ UNCHANGED <<qpair, draining>>

Drain(q) ==
  /\ qpair[q] = "open" /\ ~draining[q]
  /\ draining' = [draining EXCEPT ![q] = TRUE]
  /\ UNCHANGED <<qpair, inflight>>

Free(q) ==
  /\ qpair[q] = "open" /\ draining[q]
  /\ \A s \in Slots : <<q, s>> \notin inflight
  /\ qpair' = [qpair EXCEPT ![q] = "freed"]
  /\ UNCHANGED <<draining, inflight>>

Next ==
  \E q \in Qpairs :
    \/ Open(q) \/ Drain(q) \/ Free(q)
    \/ \E s \in Slots : Submit(q, s) \/ Complete(q, s)

Spec == Init /\ [][Next]_vars
=============================================================================
