------------------------------ MODULE ParseArgs ------------------------------
(***************************************************************************)
(* parse_args of examples/arbitration/arbitration.cc, which every program  *)
(* copied from it has too: getopt's loop writes the fields of              *)
(* g_arbitration one option after the other, then the fields are checked.  *)
(*                                                                         *)
(* An option is [op, val]; val is a string for -w and what spdk_strtol     *)
(* returns for the others (negative if the text is no number).  -l, -a and *)
(* -b are stored in a uint8_t.  The numbers that only size the I/O (-q,    *)
(* -o, -t, -m, -n, -i, -d) stand for one option "q", of which only the     *)
(* sign matters here; -h stands for every option that ends the parsing.    *)
(***************************************************************************)
EXTENDS Integers, Sequences

CONSTANT Sequential  \* parse_args ends with is_random = 0, as in multipath/

Reads == {"read", "randread"}
Writes == {"write", "randwrite"}
Mixes == {"rw", "randrw"}

\* SPDK_NVME_CC_AMS_RR, SPDK_NVME_CC_AMS_WRR, SPDK_NVME_CC_AMS_VS.
RR == 0
WRR == 1
VS == 7

g_arbitration ==
  [ok |-> TRUE, workload_type |-> "randrw", rw_percentage |-> 50,
   is_random |-> FALSE, latency_tracking_enable |-> 0,
   arbitration_mechanism |-> RR, arbitration_config |-> 0]

uint8_t(v) == v % 256

\* One turn of the loop: an option that fails makes parse_args return at once.
getopt(g, o) ==
  IF ~g.ok \/ o.op = "h" \/ (o.op # "w" /\ o.val < 0)
  THEN [g EXCEPT !.ok = FALSE]
  ELSE CASE o.op = "w" -> [g EXCEPT !.workload_type = o.val]
         [] o.op = "M" -> [g EXCEPT !.rw_percentage = o.val]
         [] o.op = "l" -> [g EXCEPT !.latency_tracking_enable = uint8_t(o.val)]
         [] o.op = "a" -> [g EXCEPT !.arbitration_mechanism = uint8_t(o.val)]
         [] o.op = "b" -> [g EXCEPT !.arbitration_config = uint8_t(o.val)]
         [] o.op = "q" -> g


\* A pure workload overrides -M.
rw_percentage(g) ==
  CASE g.workload_type \in Reads -> 100
    [] g.workload_type \in Writes -> 0
    [] OTHER -> g.rw_percentage

is_random(g) == ~Sequential /\ g.workload_type \notin {"read", "write", "rw"}

\* The checks after the loop.
Accepted(g) ==
  /\ g.ok
  /\ g.workload_type \in Reads \cup Writes \cup Mixes
  /\ g.workload_type \in Mixes => g.rw_percentage \in 0..100
  /\ g.latency_tracking_enable \in {0, 1}
  /\ g.arbitration_mechanism \in {RR, WRR, VS}
  /\ g.arbitration_config \in {0, 1}
  /\ g.arbitration_config = 1 => g.arbitration_mechanism = WRR

\* g_arbitration when parse_args returns; ok is "returned 0".
Parsed(options) ==
  LET loop[n \in 0..Len(options)] ==
        IF n = 0 THEN g_arbitration ELSE getopt(loop[n - 1], options[n])
      g == loop[Len(options)] IN
  [g EXCEPT !.ok = Accepted(g), !.rw_percentage = rw_percentage(g),
            !.is_random = is_random(g)]

-----------------------------------------------------------------------------
(* Reference: what a command line means, without the loop *)

\* The value of the last option op, or the default d.
LastOf(options, op, d) ==
  LET at == {i \in DOMAIN options : options[i].op = op} IN
  IF at = {} THEN d ELSE options[CHOOSE i \in at : \A j \in at : j <= i].val

\* usage() offers "(0, 1, 2)" for -a, with 2 the vendor specific mechanism; the check
\* takes "0, 1, or 7".  What a line with 2 or 7 should mean is not known.
Disputed == {2, VS}

\* A command line is good if no option is bad and the last -w, -M, -l, -a and -b
\* go together; its workload, its log pages and its modes are those of the last.
\* No claim is made on the lines on which usage() and the check disagree.
Means(options, g) ==
  LET w == LastOf(options, "w", "randrw")
      m == LastOf(options, "M", 50)
      l == LastOf(options, "l", 0) % 256
      a == LastOf(options, "a", RR) % 256
      b == LastOf(options, "b", 0) % 256 IN
  a \notin Disputed =>
    /\ g.ok <=>
         /\ \A i \in DOMAIN options :
              options[i].op # "h" /\ (options[i].op # "w" => options[i].val >= 0)
         /\ w \in Reads \cup Writes \/ (w \in Mixes /\ m <= 100)
         /\ l <= 1
         /\ <<a, b>> \in {<<RR, 0>>, <<WRR, 0>>, <<WRR, 1>>}
    /\ g.ok =>
         /\ g.workload_type = w
         /\ g.latency_tracking_enable = l
         /\ g.arbitration_mechanism = a
         /\ g.arbitration_config = b
         /\ (g.rw_percentage # 0) <=> (w \in Reads \/ (w \in Mixes /\ m # 0))
         /\ (g.rw_percentage # 100) <=> (w \in Writes \/ (w \in Mixes /\ m # 100))
=============================================================================
