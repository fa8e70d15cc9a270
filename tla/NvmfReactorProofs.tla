------------------------- MODULE NvmfReactorProofs -------------------------
(***************************************************************************)
(* The homes of the lightweight threads on the reactors of the NVMe-oF     *)
(* target, for any number of cores and any order of the reactors' steps.   *)
(***************************************************************************)
EXTENDS NvmfTargetProofs

USE ZenonT(30)

Nobody == Reactors!Nobody

\* The hands h and the rings r of the reactors hold each thread of L once, and no
\* other thread.
Homes(h, r, L) ==
  /\ L \subseteq Threads
  /\ h \in [Cores -> L \cup {Nobody}]
  /\ DOMAIN r = Cores /\ \A c \in Cores : IsSeq(r[c])
  /\ \A c \in Cores : \A i \in DOMAIN r[c] : r[c][i] \in L
  /\ \A c, d \in Cores : h[c] = h[d] /\ h[c] # Nobody => c = d
  /\ \A c, d \in Cores : \A i \in DOMAIN r[d] : r[d][i] # h[c]
  /\ \A c, d \in Cores : \A i \in DOMAIN r[c], j \in DOMAIN r[d] :
       r[c][i] = r[d][j] => c = d /\ i = j
  /\ \A t \in L : \E c \in Cores : h[c] = t \/ \E i \in DOMAIN r[c] : r[c][i] = t

Living == {t \in Threads : state[t] \notin {"none", "destroyed"}}

\* The threads of the poll groups are made in the order of the cores.
Ordered ==
  \E k \in 0..NumCores :
    /\ \A t \in Cores : state[t] # "none" <=> t <= k
    /\ Early => k < NumCores

Fields ==
  /\ DOMAIN state = Threads /\ DOMAIN cpumask = Threads /\ DOMAIN resched = Threads
  /\ DOMAIN reactor = Cores /\ g_next_reactor \in 0..NumCores

\* A reactor holds a thread while it polls it and until it has disposed of it.
Holds == \A c \in Cores : hand[c] # Nobody <=> reactor[c] \in {"poll", "dispose"}

Masks == \A t \in Living : \E k \in Cores : cpumask[t] = {k}

HomeInv ==
  /\ Homes(hand, ring, Living)
  /\ Fields /\ Holds /\ Masks /\ Ordered
  /\ main = "init" => Living = {}

-----------------------------------------------------------------------------
(* nvmf_schedule_spdk_thread *)

\* Remainders of the turn through the list.
LEMMA Remainders ==
  ASSUME NEW n \in Nat \ {0}, NEW x \in 0..n - 1
  PROVE  x % n = x /\ (x + n) % n = x
  BY Z3

\* The turn takes each reactor once.
LEMMA OneTurn ==
  ASSUME NEW n \in Nat \ {0}, NEW s \in 1..n, NEW k \in 1..n, NEW j \in 0..n - 1,
         (s - 1 + j) % n = k - 1
  PROVE  j = IF k >= s THEN k - s ELSE k - s + n
  <1>1. CASE s - 1 + j \in 0..n - 1
    BY SMTT(30), <1>1, Remainders
  <1>2. CASE s - 1 + j >= n
    <2> DEFINE x == s - 1 + j - n
    <2>1. x \in 0..n - 1 /\ x + n = s - 1 + j
      BY SMTT(30), <1>2
    <2> HIDE DEF x
    <2>2. (x + n) % n = x
      BY <2>1, Remainders
    <2> QED
      BY SMTT(30), <2>1, <2>2
  <1> QED
    BY SMTT(30), <1>1, <1>2

\* A thread whose mask is one core goes to the ring of that core, wherever the
\* turn begins.
LEMMA Scheduled ==
  ASSUME g_next_reactor \in 0..NumCores, NEW t, NEW k \in Cores, NEW rings,
         Reactors!nvmf_schedule_spdk_thread(t, {k}, rings)
  PROVE  /\ resched' = [resched EXCEPT ![t] = FALSE]
         /\ ring' = [rings EXCEPT ![k] = Append(@, t)]
         /\ g_next_reactor' \in 0..NumCores
  <1> DEFINE N == NumCores
             s == IF g_next_reactor = 0 THEN 1 ELSE g_next_reactor
             i == IF k >= s THEN k - s ELSE k - s + N
             S == Reactors!Turns({k})
  <1>1. N \in Nat \ {0} /\ Cores = 1..N
    BY NvmfConstants DEF Reactors!ReactorConstants, Cores
  <1>2. s \in 1..N /\ k \in 1..N /\ i \in 0..N - 1
    BY SMTT(30), <1>1
  <1>3. \A j : Reactors!Visited(j) = ((s - 1 + j) % N) + 1
    BY DEF Reactors!Visited, Reactors!NULL
  <1>4. s - 1 + i = k - 1 \/ s - 1 + i = (k - 1) + N
    BY SMTT(30), <1>1, <1>2
  <1>5. (k - 1) % N = k - 1 /\ ((k - 1) + N) % N = k - 1
    BY SMTT(30), <1>1, <1>2, Remainders
  <1> HIDE DEF s, i, N
  <1>6. Reactors!Visited(i) = k
    <2>1. (s - 1 + i) % N = k - 1
      BY <1>4, <1>5
    <2> QED
      BY SMTT(30), <1>2, <1>3, <2>1
  <1>7. S = {i}
    <2>1. i \in S /\ \A j \in S : j \in 0..N - 1 /\ Reactors!Visited(j) = k
      BY <1>2, <1>6 DEF Reactors!Turns, N
    <2>2. ASSUME NEW j \in S
          PROVE  j = i
      <3>1. j \in 0..N - 1 /\ (s - 1 + j) % N = k - 1
        <4>1. j \in 0..N - 1 /\ ((s - 1 + j) % N) + 1 = k
          BY <1>3, <2>1
        <4>2. (s - 1 + j) % N \in Int
          BY SMTT(30), <1>1, <1>2, <4>1
        <4> QED
          BY SMTT(30), <1>2, <4>1, <4>2
      <3> QED
        BY <1>1, <1>2, <3>1, OneTurn DEF i
    <2> QED
      BY <2>1, <2>2
  <1>8. Reactors!Min(S) \in S
    <2>1. i =< i
      BY SMTT(30), <1>2
    <2> QED
      BY <1>7, <2>1 DEF Reactors!Min
  <1>9. Reactors!Visited(Reactors!Min(S)) = k
    BY <1>8 DEF Reactors!Turns
  <1>10. S # {}
    BY <1>7
  <1>11. /\ resched' = [resched EXCEPT ![t] = FALSE]
         /\ ring' = [rings EXCEPT ![Reactors!Visited(Reactors!Min(S))] = Append(@, t)]
         /\ g_next_reactor' = IF Reactors!Visited(Reactors!Min(S)) = NumCores THEN Reactors!NULL
                              ELSE Reactors!Visited(Reactors!Min(S)) + 1
    BY <1>10 DEF Reactors!nvmf_schedule_spdk_thread
  <1>12. g_next_reactor' = IF k = NumCores THEN 0 ELSE k + 1
    BY <1>9, <1>11 DEF Reactors!NULL
  <1>13. g_next_reactor' \in 0..NumCores
    BY SMTT(30), <1>1, <1>2, <1>12 DEF N
  <1> QED
    BY <1>9, <1>11, <1>13

-----------------------------------------------------------------------------
(* Threads move *)

\* The threads are not Nobody.
LEMMA ThreadNumbers == Threads = 0..NumCores /\ Nobody = -1 /\ Nobody \notin Threads /\ Cores \subseteq Threads /\ Main = 0
  BY SMTT(30), NvmfConstants DEF Reactors!ReactorConstants, Threads, Main, Cores, Reactors!Threads, Reactors!Main,
     Reactors!Cores, Nobody, Reactors!Nobody

\* A thread that is nowhere is put at the end of a ring.
LEMMA HomesPut ==
  ASSUME NEW h, NEW r, NEW L, Homes(h, r, L), NEW t \in Threads, t \notin L, NEW k \in Cores
  PROVE  Homes(h, [r EXCEPT ![k] = Append(@, t)], L \cup {t})
  <1> DEFINE q == [r EXCEPT ![k] = Append(@, t)]
             n == Len(r[k]) + 1
  <1>1. IsSeq(r[k]) /\ DOMAIN r = Cores
    BY DEF Homes
  <1>2. /\ q[k] = Append(r[k], t) /\ DOMAIN q = Cores
        /\ \A c \in Cores \ {k} : q[c] = r[c]
    BY <1>1
  <1>3. /\ IsSeq(q[k]) /\ n \in Nat \ {0} /\ n \notin DOMAIN r[k] /\ n \in DOMAIN q[k]
        /\ \A i \in DOMAIN q[k] : i = n \/ i \in DOMAIN r[k]
        /\ \A i \in DOMAIN r[k] : i \in DOMAIN q[k] /\ q[k][i] = r[k][i]
        /\ q[k][n] = t
    BY SMTT(30), <1>1, <1>2, Appended, SeqDomain
  <1> HIDE DEF q, n
  <1>4. \A c \in Cores : \A i \in DOMAIN q[c] :
          \/ c = k /\ i = n /\ q[c][i] = t
          \/ i \in DOMAIN r[c] /\ q[c][i] = r[c][i]
    BY <1>2, <1>3
  <1>5. \A c \in Cores : \A i \in DOMAIN r[c] : i \in DOMAIN q[c] /\ q[c][i] = r[c][i]
    BY <1>2, <1>3
  <1>6. \A c \in Cores : IsSeq(q[c])
    BY <1>2, <1>3 DEF Homes
  <1>7. \A c \in Cores : \A i \in DOMAIN r[c] : r[c][i] \in L
    BY DEF Homes
  <1>8. h \in [Cores -> L \cup {Nobody}] /\ t # Nobody /\ L \cup {t} \subseteq Threads
    BY ThreadNumbers DEF Homes
  <1>9. \A c \in Cores : h[c] # t
    BY <1>8
  <1>10. \A c, d \in Cores : \A i \in DOMAIN q[d] : q[d][i] # h[c]
    BY SMTT(30), <1>4, <1>9 DEF Homes
  <1>11. \A c, d \in Cores : \A i \in DOMAIN q[c], j \in DOMAIN q[d] :
           q[c][i] = q[d][j] => c = d /\ i = j
    BY SMTT(30), <1>4, <1>7 DEF Homes
  <1>12. \A u \in L \cup {t} : \E c \in Cores : h[c] = u \/ \E i \in DOMAIN q[c] : q[c][i] = u
    <2>1. \E i \in DOMAIN q[k] : q[k][i] = t
      BY <1>3
    <2>2. \A u \in L : \E c \in Cores : h[c] = u \/ \E i \in DOMAIN q[c] : q[c][i] = u
      BY SMTT(30), <1>5 DEF Homes
    <2> QED
      BY <2>1, <2>2
  <1>13. \A c \in Cores : \A i \in DOMAIN q[c] : q[c][i] \in L \cup {t}
    BY <1>4, <1>7
  <1>14. \A c, d \in Cores : h[c] = h[d] /\ h[c] # Nobody => c = d
    BY DEF Homes
  <1>15. h \in [Cores -> (L \cup {t}) \cup {Nobody}]
    BY <1>8
  <1>16. Homes(h, q, L \cup {t})
    BY <1>2, <1>6, <1>8, <1>10, <1>11, <1>12, <1>13, <1>14, <1>15 DEF Homes
  <1> QED
    BY <1>16 DEF q

\* The thread a reactor holds leaves its hand.
LEMMA HomesDrop ==
  ASSUME NEW h, NEW r, NEW L, Homes(h, r, L), NEW c \in Cores, h[c] # Nobody
  PROVE  Homes([h EXCEPT ![c] = Nobody], r, L \ {h[c]}) /\ h[c] \in L
  <1> DEFINE g == [h EXCEPT ![c] = Nobody]
  <1>1. /\ h \in [Cores -> L \cup {Nobody}] /\ h[c] \in L
        /\ \A d \in Cores : h[d] = h[c] => d = c
        /\ \A d \in Cores : \A i \in DOMAIN r[d] : r[d][i] # h[c]
    BY SMTT(30) DEF Homes
  <1>2. /\ g[c] = Nobody /\ \A d \in Cores \ {c} : g[d] = h[d]
        /\ g \in [Cores -> (L \ {h[c]}) \cup {Nobody}]
    BY <1>1
  <1> HIDE DEF g
  <1>3. \A d \in Cores : \A i \in DOMAIN r[d] : r[d][i] \in L \ {h[c]}
    BY <1>1 DEF Homes
  <1>4. Nobody \notin L
    BY ThreadNumbers DEF Homes
  <1>5. \A b, d \in Cores : \A i \in DOMAIN r[d] : r[d][i] # g[b]
    BY SMTT(30), <1>2, <1>3, <1>4 DEF Homes
  <1>6. \A b, d \in Cores : g[b] = g[d] /\ g[b] # Nobody => b = d
    BY SMTT(30), <1>2 DEF Homes
  <1>7. \A t \in L \ {h[c]} : \E d \in Cores : g[d] = t \/ \E i \in DOMAIN r[d] : r[d][i] = t
    BY SMTT(30), <1>2 DEF Homes
  <1>8. Homes(g, r, L \ {h[c]})
    BY <1>2, <1>3, <1>5, <1>6, <1>7 DEF Homes
  <1> QED
    BY <1>1, <1>8 DEF g

\* A thread that is nowhere is taken into an empty hand.
LEMMA HomesHold ==
  ASSUME NEW h, NEW r, NEW L, Homes(h, r, L), NEW t \in Threads, t \notin L,
         NEW c \in Cores, h[c] = Nobody
  PROVE  Homes([h EXCEPT ![c] = t], r, L \cup {t})
  <1> DEFINE g == [h EXCEPT ![c] = t]
  <1>1. h \in [Cores -> L \cup {Nobody}] /\ t # Nobody /\ L \cup {t} \subseteq Threads
    BY ThreadNumbers DEF Homes
  <1>2. /\ g[c] = t /\ \A d \in Cores \ {c} : g[d] = h[d] /\ g[d] # t
        /\ g \in [Cores -> (L \cup {t}) \cup {Nobody}]
    BY <1>1
  <1> HIDE DEF g
  <1>3. \A d \in Cores : \A i \in DOMAIN r[d] : r[d][i] \in L
    BY DEF Homes
  <1>4. \A b, d \in Cores : \A i \in DOMAIN r[d] : r[d][i] # g[b]
    BY SMTT(30), <1>2, <1>3 DEF Homes
  <1>5. \A b, d \in Cores : g[b] = g[d] /\ g[b] # Nobody => b = d
    BY SMTT(30), <1>2 DEF Homes
  <1>6. \A u \in L \cup {t} : \E d \in Cores : g[d] = u \/ \E i \in DOMAIN r[d] : r[d][i] = u
    <2>1. \A u \in L : u # Nobody
      BY SMTT(30), ThreadNumbers DEF Homes
    <2>2. \A u \in L : \E d \in Cores : g[d] = u \/ \E i \in DOMAIN r[d] : r[d][i] = u
      BY SMTT(30), <1>2, <2>1 DEF Homes
    <2> QED
      BY <1>2, <2>2
  <1>7. Homes(g, r, L \cup {t})
    BY <1>1, <1>2, <1>3, <1>4, <1>5, <1>6 DEF Homes
  <1> QED
    BY <1>7 DEF g

\* The thread at the front of a ring leaves it.
LEMMA HomesTake ==
  ASSUME NEW h, NEW r, NEW L, Homes(h, r, L), NEW c \in Cores, r[c] # <<>>
  PROVE  Homes(h, [r EXCEPT ![c] = Tail(@)], L \ {Head(r[c])}) /\ Head(r[c]) \in L
  <1> DEFINE q == [r EXCEPT ![c] = Tail(@)]
             t == Head(r[c])
  <1>1. IsSeq(r[c]) /\ DOMAIN r = Cores
    BY DEF Homes
  <1>2. /\ q[c] = Tail(r[c]) /\ DOMAIN q = Cores
        /\ \A d \in Cores \ {c} : q[d] = r[d]
    BY <1>1
  <1>3. /\ IsSeq(q[c]) /\ t = r[c][1] /\ 1 \in DOMAIN r[c]
        /\ \A i \in DOMAIN q[c] : i + 1 \in DOMAIN r[c] /\ i \in Nat \ {0} /\ q[c][i] = r[c][i + 1]
        /\ \A i \in DOMAIN r[c] : i # 1 => i - 1 \in DOMAIN q[c] /\ q[c][i - 1] = r[c][i]
    <2>1. /\ IsSeq(q[c]) /\ t = r[c][1] /\ 1 \in DOMAIN r[c] /\ Len(r[c]) \in Nat \ {0}
          /\ DOMAIN q[c] = 1..Len(r[c]) - 1 /\ DOMAIN r[c] = 1..Len(r[c])
          /\ \A i \in 1..Len(r[c]) - 1 : q[c][i] = r[c][i + 1]
      BY <1>1, <1>2, Tailed, SeqDomain
    <2> HIDE DEF q, t
    <2>2. \A i \in DOMAIN q[c] : i + 1 \in DOMAIN r[c] /\ i \in Nat \ {0} /\ q[c][i] = r[c][i + 1]
      BY SMTT(30), <2>1
    <2>3. \A i \in DOMAIN r[c] : i # 1 => i - 1 \in DOMAIN q[c] /\ q[c][i - 1] = r[c][i]
      BY SMTT(30), <2>1
    <2> QED
      BY <2>1, <2>2, <2>3
  <1> HIDE DEF q, t
  <1>4. t \in L /\ \A d \in Cores : h[d] # t
    BY SMTT(30), <1>3 DEF Homes
  <1>5. \A d \in Cores : \A i \in DOMAIN q[d] :
          \/ d = c /\ i + 1 \in DOMAIN r[d] /\ i \in Nat \ {0} /\ q[d][i] = r[d][i + 1]
          \/ d # c /\ i \in DOMAIN r[d] /\ q[d][i] = r[d][i]
    BY <1>2, <1>3
  <1>6. \A d \in Cores : \A i \in DOMAIN r[d] : r[d][i] \in L
    BY DEF Homes
  <1>7. \A d \in Cores : \A i \in DOMAIN r[d] : r[d][i] = t => d = c /\ i = 1
    BY SMTT(30), <1>3 DEF Homes
  <1>8. \A d \in Cores : \A i \in DOMAIN q[d] : q[d][i] \in L \ {t}
    BY SMTT(30), <1>5, <1>6, <1>7
  <1>9. \A b, d \in Cores : \A i \in DOMAIN q[d] : q[d][i] # h[b]
    BY SMTT(30), <1>5 DEF Homes
  <1>10. \A b, d \in Cores : \A i \in DOMAIN q[b], j \in DOMAIN q[d] :
           q[b][i] = q[d][j] => b = d /\ i = j
    <2> SUFFICES ASSUME NEW b \in Cores, NEW d \in Cores, NEW i \in DOMAIN q[b],
                        NEW j \in DOMAIN q[d], q[b][i] = q[d][j]
                 PROVE  b = d /\ i = j
      OBVIOUS
    <2>1. \A a, e \in Cores : \A x \in DOMAIN r[a], y \in DOMAIN r[e] :
            r[a][x] = r[e][y] => a = e /\ x = y
      BY DEF Homes
    <2>2. CASE b = c /\ d = c
      BY SMTT(30), <1>3, <2>1, <2>2
    <2>3. CASE b = c /\ d # c
      BY SMTT(30), <1>3, <1>2, <2>1, <2>3
    <2>4. CASE b # c /\ d = c
      BY SMTT(30), <1>3, <1>2, <2>1, <2>4
    <2>5. CASE b # c /\ d # c
      BY SMTT(30), <1>2, <2>1, <2>5
    <2> QED
      BY <2>2, <2>3, <2>4, <2>5
  <1>11. \A u \in L \ {t} : \E d \in Cores : h[d] = u \/ \E i \in DOMAIN q[d] : q[d][i] = u
    <2> SUFFICES ASSUME NEW u \in L \ {t}, NEW d \in Cores, NEW i \in DOMAIN r[d], r[d][i] = u
                 PROVE  \E j \in DOMAIN q[d] : q[d][j] = u
      BY SMTT(30) DEF Homes
    <2>1. CASE d = c
      <3>1. i # 1
        BY <1>3, <2>1
      <3> QED
        BY <1>3, <2>1, <3>1
    <2>2. CASE d # c
      BY <1>2, <2>2
    <2> QED
      BY <2>1, <2>2
  <1>12. h \in [Cores -> (L \ {t}) \cup {Nobody}]
    BY <1>4 DEF Homes
  <1>13. \A d \in Cores : IsSeq(q[d])
    BY <1>2, <1>3 DEF Homes
  <1>14. /\ \A b, d \in Cores : h[b] = h[d] /\ h[b] # Nobody => b = d
         /\ L \ {t} \subseteq Threads
    BY DEF Homes
  <1>15. Homes(h, q, L \ {t})
    BY <1>2, <1>8, <1>9, <1>10, <1>11, <1>12, <1>13, <1>14 DEF Homes
  <1> QED
    BY <1>4, <1>15 DEF q, t

-----------------------------------------------------------------------------
(* Steps *)

\* No thread is made, and nothing goes back.
LEMMA SameOrder ==
  ASSUME HomeInv, Early' => Early,
         \A t \in Cores : state'[t] # "none" <=> state[t] # "none"
  PROVE  Ordered'
  <1>1. PICK k \in 0..NumCores : /\ \A t \in Cores : state[t] # "none" <=> t <= k
                                 /\ Early => k < NumCores
    BY DEF HomeInv, Ordered
  <1>2. /\ \A t \in Cores : state'[t] # "none" <=> t <= k
        /\ Early' => k < NumCores
    BY <1>1
  <1> QED
    BY <1>2 DEF Ordered

\* The target moves, the reactors do not.
LEMMA TargetStep ==
  ASSUME HomeInv, Early' => Early, UNCHANGED reactorVars
  PROVE  HomeInv'
  <1>1. UNCHANGED <<main, hand, ring, state, cpumask, resched, g_next_reactor, reactor>>
    BY DEF reactorVars
  <1>2. Living' = Living
    BY <1>1 DEF Living
  <1>3. Ordered'
    BY <1>1, SameOrder
  <1> QED
    BY <1>1, <1>2, <1>3 DEF HomeInv, Fields, Holds, Masks

\* An assert ends the process: main stands still, and so do the threads.
LEMMA AbortStep ==
  ASSUME HomeInv, Early' => Early, Reactors!Abort
  PROVE  HomeInv'
  <1>1. UNCHANGED <<hand, ring, state, cpumask, resched, g_next_reactor, reactor>> /\ main' = "aborted"
    BY DEF Reactors!Abort, Reactors!reactorVars, Reactors!threadVars
  <1>2. Living' = Living
    BY <1>1 DEF Living
  <1>3. Ordered'
    BY <1>1, SameOrder
  <1> QED
    BY <1>1, <1>2, <1>3 DEF HomeInv, Fields, Holds, Masks

\* The state of one thread changes.
LEMMA LivingStep ==
  ASSUME HomeInv, NEW t \in Threads, NEW v, state' = [state EXCEPT ![t] = v]
  PROVE  /\ DOMAIN state' = Threads /\ state'[t] = v
         /\ v \in {"none", "destroyed"} => Living' = Living \ {t}
         /\ v \notin {"none", "destroyed"} => Living' = Living \cup {t}
         /\ \A u \in Threads \ {t} : state'[u] = state[u]
         /\ t \in Living /\ v # "none" => \A u \in Cores : state'[u] # "none" <=> state[u] # "none"
  <1>1. /\ DOMAIN state = Threads /\ DOMAIN state' = Threads /\ state'[t] = v
        /\ \A u \in Threads \ {t} : state'[u] = state[u]
    BY DEF HomeInv, Fields
  <1>2. /\ v \in {"none", "destroyed"} => Living' = Living \ {t}
        /\ v \notin {"none", "destroyed"} => Living' = Living \cup {t}
    BY <1>1 DEF Living
  <1>3. t \in Living => state[t] # "none"
    BY DEF Living
  <1> QED
    BY <1>1, <1>2, <1>3, ThreadNumbers

\* What a reactor holds is alive.
LEMMA HeldAlive ==
  ASSUME HomeInv, NEW c \in Cores, reactor[c] \in {"poll", "dispose"}
  PROVE  hand[c] \in Living /\ hand[c] \in Threads /\ hand[c] # Nobody
  BY SMTT(30) DEF HomeInv, Homes, Holds

\* nvmf_init_threads.
LEMMA InitThreadsInv ==
  ASSUME HomeInv, nvmf_init_threads
  PROVE  HomeInv'
  <1>a. /\ Homes(hand, ring, Living) /\ Fields /\ Holds /\ Masks /\ Ordered /\ Living = {}
        /\ main = "init" /\ Reactors!nvmf_init_threads /\ UNCHANGED targetVars
    BY DEF HomeInv, nvmf_init_threads, Reactors!nvmf_init_threads
  <1>b. Early' => Early
    BY <1>a DEF Early, st, targetVars
  <1>c. \A c \in Cores : hand[c] = Nobody
    BY <1>a DEF Homes
  <1>d. NumCores \in Nat \ {0} /\ 1 \in Cores /\ Cores = 1..NumCores
    BY SMTT(30), NvmfConstants DEF Reactors!ReactorConstants, Cores
  <1>1. CASE Reactors!Abort
    BY <1>b, <1>1, AbortStep
  <1>2. ASSUME NEW c, c <= NumCores,
               IF c = 1 THEN g_next_reactor' = 1 /\ UNCHANGED reactor
               ELSE reactor' = [reactor EXCEPT ![c] = "loop"] /\ UNCHANGED g_next_reactor,
               UNCHANGED <<main, hand, ring, state, cpumask, resched>>
        PROVE  HomeInv'
    <2>1. Living' = Living
      BY <1>2 DEF Living
    <2>2. Ordered'
      BY <1>b, <1>2, SameOrder
    <2>3. DOMAIN reactor' = Cores /\ g_next_reactor' \in 0..NumCores
      BY SMTT(30), <1>2, <1>a, <1>d DEF Fields
    <2>4. \A d \in Cores : reactor'[d] = reactor[d] \/ reactor'[d] = "loop"
      BY <1>2, <1>a DEF Fields
    <2>5. Holds'
      BY <1>2, <1>a, <1>c, <2>4 DEF Holds
    <2>6. Masks' /\ Fields'
      BY <1>2, <1>a, <2>1, <2>3 DEF Masks, Fields
    <2> QED
      BY <1>2, <1>a, <2>1, <2>2, <2>5, <2>6 DEF HomeInv
  <1>3. ASSUME Reactors!Create(Main, 1), main' = "run",
               reactor' = [reactor EXCEPT ![1] = "loop"], UNCHANGED hand
        PROVE  HomeInv'
    <2>1. /\ state' = [state EXCEPT ![Main] = "running"]
          /\ cpumask' = [cpumask EXCEPT ![Main] = {1}]
          /\ Reactors!nvmf_schedule_spdk_thread(Main, {1}, ring)
      BY <1>3 DEF Reactors!Create
    <2>2. /\ resched' = [resched EXCEPT ![Main] = FALSE]
          /\ ring' = [ring EXCEPT ![1] = Append(@, Main)]
          /\ g_next_reactor' \in 0..NumCores
      BY <1>a, <1>d, <2>1, Scheduled DEF Fields
    <2>3. Main \in Threads /\ Main \notin Cores /\ "running" \notin {"none", "destroyed"}
      BY SMTT(30), ThreadNumbers, <1>d
    <2>4. /\ DOMAIN state' = Threads /\ Living' = Living \cup {Main}
          /\ \A u \in Threads \ {Main} : state'[u] = state[u]
      BY <2>1, <2>3, LivingStep
    <2>5. Homes(hand, ring', Living')
      BY <1>a, <1>d, <2>2, <2>3, <2>4, HomesPut
    <2>6. Ordered'
      BY <1>b, <2>3, <2>4, SameOrder, ThreadNumbers
    <2>7. Fields'
      BY <1>a, <1>3, <2>1, <2>2, <2>4 DEF Fields
    <2>8. Holds'
      BY <1>a, <1>c, <1>3 DEF Holds, Fields
    <2>9. Masks'
      BY <1>a, <1>d, <2>1, <2>3, <2>4 DEF Masks, Fields
    <2> QED
      BY <1>3, <2>5, <2>6, <2>7, <2>8, <2>9 DEF HomeInv
  <1> QED
    BY <1>a, <1>1, <1>2, <1>3 DEF Reactors!nvmf_init_threads, Reactors!threadVars, Main, Reactors!reactorVars

\* One turn of the loop of nvmf_poll_groups_create.
LEMMA CreateStep ==
  ASSUME Counting, TargetInv, HomeInv, nvmf_poll_groups_create
  PROVE  HomeInv'
  <1>a. Homes(hand, ring, Living) /\ Fields /\ Holds /\ Masks /\ Ordered
    BY DEF HomeInv
  <1>b. NumCores \in Nat \ {0} /\ Cores = 1..NumCores
    BY NvmfConstants DEF Reactors!ReactorConstants, Cores
  <1>c. main # "init"
    <2>1. PICK c \in Cores : reactor[c] = "poll" /\ hand[c] = Main
      BY DEF nvmf_poll_groups_create, MainPolled, Reactors!Polled
    <2>2. Main \in Living
      BY <2>1, HeldAlive
    <2> QED
      BY <2>2 DEF HomeInv
  <1>d. Target!InCase(2)
    BY StateNumbers DEF nvmf_poll_groups_create, States
  <1>e. st = 2 /\ stack = One(Sw)
    BY SMTT(30), <1>d, InCaseShape
  <1>1. PICK k \in 0..NumCores : /\ \A t \in Cores : state[t] # "none" <=> t <= k
                                 /\ k < NumCores
    BY <1>a, <1>e DEF Ordered, Early
  <1>2. Created = k
    <2>1. {t \in Cores : state[t] # "none"} = 1..k
      BY SMTT(30), <1>b, <1>1
    <2>2. k \in Int /\ k >= 0
      BY SMTT(30), <1>1, <1>b
    <2>3. Cardinality(1..k) = IF 1 > k THEN 0 ELSE k - 1 + 1
      BY SMTT(30), <2>2 DEF Counting, Sizes
    <2>4. Cardinality(1..k) = k
      BY SMTT(30), <2>2, <2>3
    <2> QED
      BY <2>1, <2>4 DEF Created
  <1>3. CASE Reactors!Abort /\ UNCHANGED targetVars
    <2>1. Early' => Early
      BY <1>3 DEF Early, st, targetVars
    <2> QED
      BY <1>3, <2>1, AbortStep
  <1>4. ASSUME NEW t, t = k + 1, Reactors!Create(t, t), UNCHANGED <<main, g_reactors, reactor, hand>>,
               IF t = NumCores THEN Target!nvmf_poll_groups_create
               ELSE UNCHANGED <<targetVars, g_reactors_exit>>
        PROVE  HomeInv'
    <2>1. /\ state' = [state EXCEPT ![t] = "running"]
          /\ cpumask' = [cpumask EXCEPT ![t] = {t}]
          /\ Reactors!nvmf_schedule_spdk_thread(t, {t}, ring)
      BY <1>4 DEF Reactors!Create
    <2>2. t \in Cores /\ t \in Threads /\ t \in 1..NumCores
      BY SMTT(30), <1>1, <1>4, <1>b, ThreadNumbers
    <2>3. /\ resched' = [resched EXCEPT ![t] = FALSE]
          /\ ring' = [ring EXCEPT ![t] = Append(@, t)]
          /\ g_next_reactor' \in 0..NumCores
      BY <1>a, <2>1, <2>2, Scheduled DEF Fields
    <2>4. /\ DOMAIN state' = Threads /\ Living' = Living \cup {t} /\ state'[t] = "running"
          /\ \A u \in Threads \ {t} : state'[u] = state[u]
      BY <2>1, <2>2, LivingStep
    <2>5. t \notin Living
      BY SMTT(30), <1>1, <1>4, <2>2 DEF Living
    <2>6. Homes(hand, ring', Living')
      BY <1>a, <2>2, <2>3, <2>4, <2>5, HomesPut
    <2>7. Fields'
      BY <1>a, <1>4, <2>1, <2>3, <2>4 DEF Fields
    <2>8. Holds'
      BY <1>a, <1>4 DEF Holds
    <2>9. Masks'
      BY <1>a, <2>1, <2>2, <2>4 DEF Masks, Fields, Living
    <2>10. \A u \in Cores : state'[u] # "none" <=> u <= t
      BY SMTT(30), <1>1, <1>4, <1>b, <2>2, <2>4, ThreadNumbers
    <2>11. Early' => t < NumCores
      <3>1. CASE t = NumCores
        <4>1. st' = st /\ stack' = One(2)
          BY SMTT(30), <1>4, <1>d, <3>1, InCaseShape DEF Target!nvmf_poll_groups_create, st
        <4> QED
          BY SMTT(30), <1>e, <4>1, Shapes DEF Early
      <3>2. CASE t # NumCores
        BY SMTT(30), <1>b, <2>2, <3>2
      <3> QED
        BY <3>1, <3>2
    <2>12. Ordered'
      <3>1. t \in 0..NumCores
        BY SMTT(30), <1>b, <2>2
      <3> QED
        BY <3>1, <2>10, <2>11 DEF Ordered
    <2> QED
      BY <1>c, <1>4, <2>6, <2>7, <2>8, <2>9, <2>12 DEF HomeInv
  <1> QED
    BY <1>2, <1>3, <1>4 DEF nvmf_poll_groups_create

\* What is left to show of a step of one reactor.
LEMMA ReactorStep ==
  ASSUME HomeInv, Early' => Early, main' = main, NEW L, Living' = L,
         Homes(hand', ring', L), L \subseteq Living, Fields', Holds',
         \A t \in L : cpumask'[t] = cpumask[t] \/ \E k \in Cores : cpumask'[t] = {k},
         \A t \in Cores : state'[t] # "none" <=> state[t] # "none"
  PROVE  HomeInv'
  <1>1. Ordered'
    BY SameOrder
  <1>2. Masks'
    BY DEF HomeInv, Masks
  <1> QED
    BY <1>1, <1>2 DEF HomeInv

\* A reactor takes the thread at the front of its ring.
LEMMA DequeueInv ==
  ASSUME HomeInv, Early' => Early, NEW c \in Cores, Reactors!Dequeue(c)
  PROVE  HomeInv'
  <1>a. Homes(hand, ring, Living) /\ Fields /\ Holds
    BY DEF HomeInv
  <1>1. /\ reactor[c] = "loop" /\ ring[c] # <<>>
        /\ hand' = [hand EXCEPT ![c] = Head(ring[c])]
        /\ ring' = [ring EXCEPT ![c] = Tail(@)]
        /\ reactor' = [reactor EXCEPT ![c] = "poll"]
        /\ UNCHANGED <<main, state, cpumask, resched, g_next_reactor>>
    BY DEF Reactors!Dequeue, Reactors!threadVars
  <1>2. Living' = Living
    BY <1>1 DEF Living
  <1> DEFINE t == Head(ring[c])
  <1>3. Homes(hand, ring', Living \ {t}) /\ t \in Living /\ t \in Threads
    <2>1. Homes(hand, [ring EXCEPT ![c] = Tail(@)], Living \ {Head(ring[c])}) /\ Head(ring[c]) \in Living
      BY <1>a, <1>1, HomesTake
    <2>2. t \in Threads
      BY <2>1 DEF Living
    <2> QED
      BY <1>1, <2>1, <2>2
  <1>4. hand[c] = Nobody /\ t # Nobody
    BY <1>a, <1>1, <1>3, ThreadNumbers DEF Holds
  <1>5. Homes(hand', ring', (Living \ {t}) \cup {t})
    BY <1>1, <1>3, <1>4, HomesHold, ZenonT(30)
  <1>6. (Living \ {t}) \cup {t} = Living
    BY <1>3
  <1>7. Fields'
    BY <1>a, <1>1 DEF Fields
  <1>8. Holds'
    <2>1. /\ hand'[c] = t /\ reactor'[c] = "poll"
          /\ \A d \in Cores \ {c} : hand'[d] = hand[d] /\ reactor'[d] = reactor[d]
      BY <1>a, <1>1 DEF Homes, Fields
    <2> QED
      BY <1>a, <1>4, <2>1 DEF Holds
  <1> QED
    BY <1>1, <1>2, <1>5, <1>6, <1>7, <1>8, ReactorStep, ZenonT(30)

\* A reactor goes on without touching a thread.
LEMMA QuietStep ==
  ASSUME HomeInv, Early' => Early, NEW c \in Cores,
         Reactors!IdleTurn(c) \/ Reactors!PollReturns(c) \/ Reactors!ReactorReturns(c)
  PROVE  HomeInv'
  <1>a. Homes(hand, ring, Living) /\ Fields /\ Holds
    BY DEF HomeInv
  <1>1. /\ UNCHANGED <<main, hand, ring, state, cpumask, resched, g_next_reactor>>
        /\ \E v : /\ reactor' = [reactor EXCEPT ![c] = v]
                  /\ reactor[c] \in {"poll", "dispose"} <=> v \in {"poll", "dispose"}
    BY DEF Reactors!IdleTurn, Reactors!PollReturns, Reactors!ReactorReturns, Reactors!threadVars,
           Reactors!WhileTest
  <1>2. Living' = Living
    BY <1>1 DEF Living
  <1>3. Fields' /\ Holds'
    BY <1>a, <1>1 DEF Fields, Holds
  <1> QED
    BY <1>a, <1>1, <1>2, <1>3, ReactorStep

\* What becomes of a thread after the poll: it is destroyed, handed over or put back.
LEMMA DisposeInv ==
  ASSUME HomeInv, Early' => Early, NEW c \in Cores, Reactors!Dispose(c)
  PROVE  HomeInv'
  <1> DEFINE t == hand[c]
             w == Reactors!WhileTest
  <1>a. Homes(hand, ring, Living) /\ Fields /\ Holds /\ Masks
    BY DEF HomeInv
  <1>1. /\ reactor[c] = "dispose"
        /\ hand' = [hand EXCEPT ![c] = Nobody]
        /\ reactor' = [reactor EXCEPT ![c] = w]
        /\ UNCHANGED <<main, cpumask>>
        /\ \/ /\ state' = [state EXCEPT ![t] = "destroyed"]
              /\ UNCHANGED <<ring, resched, g_next_reactor>>
           \/ /\ Reactors!nvmf_schedule_spdk_thread(t, cpumask[t], ring)
              /\ UNCHANGED state
           \/ /\ ring' = [ring EXCEPT ![c] = Append(@, t)]
              /\ UNCHANGED <<state, resched, g_next_reactor>>
    BY DEF Reactors!Dispose, Nobody
  <1>2. t \in Living /\ t \in Threads /\ t # Nobody
    BY <1>1, HeldAlive
  <1>3. Homes(hand', ring, Living \ {t})
    BY <1>a, <1>1, <1>2, HomesDrop, ZenonT(30)
  <1>4. Holds'
    <2>1. w \notin {"poll", "dispose"}
      BY DEF Reactors!WhileTest
    <2>2. /\ hand'[c] = Nobody /\ reactor'[c] = w
          /\ \A d \in Cores \ {c} : hand'[d] = hand[d] /\ reactor'[d] = reactor[d]
      BY <1>a, <1>1 DEF Homes, Fields
    <2> HIDE DEF w
    <2> QED
      BY <1>a, <2>1, <2>2 DEF Holds
  <1>5. DOMAIN reactor' = Cores /\ DOMAIN cpumask' = Threads
    BY <1>a, <1>1 DEF Fields
  <1> HIDE DEF t, w
  <1>6. CASE state' = [state EXCEPT ![t] = "destroyed"] /\ UNCHANGED <<ring, resched, g_next_reactor>>
    <2>1. /\ DOMAIN state' = Threads /\ Living' = Living \ {t}
          /\ \A u \in Cores : state'[u] # "none" <=> state[u] # "none"
      BY <1>2, <1>6, LivingStep
    <2>2. Fields'
      BY <1>a, <1>5, <1>6, <2>1 DEF Fields
    <2> QED
      BY <1>1, <1>3, <1>4, <1>6, <2>1, <2>2, ReactorStep
  <1>b. (Living \ {t}) \cup {t} = Living
    BY <1>2
  <1>7. ASSUME NEW k \in Cores, ring' = [ring EXCEPT ![k] = Append(@, t)], state' = state,
               DOMAIN resched' = Threads, g_next_reactor' \in 0..NumCores
        PROVE  HomeInv'
    <2>1. Living' = Living
      BY <1>7 DEF Living
    <2>2. Homes(hand', ring', (Living \ {t}) \cup {t})
      BY <1>2, <1>3, <1>7, HomesPut
    <2>3. Fields'
      BY <1>a, <1>5, <1>7 DEF Fields
    <2> QED
      BY <1>1, <1>4, <1>7, <1>b, <2>1, <2>2, <2>3, ReactorStep
  <1>8. CASE Reactors!nvmf_schedule_spdk_thread(t, cpumask[t], ring) /\ UNCHANGED state
    <2>1. PICK k \in Cores : cpumask[t] = {k}
      BY <1>a, <1>2 DEF Masks
    <2>2. Reactors!nvmf_schedule_spdk_thread(t, {k}, ring)
      BY <1>8, <2>1
    <2>3. /\ resched' = [resched EXCEPT ![t] = FALSE]
          /\ ring' = [ring EXCEPT ![k] = Append(@, t)]
          /\ g_next_reactor' \in 0..NumCores
      BY <1>a, <2>2, Scheduled DEF Fields
    <2> QED
      BY <1>a, <1>7, <1>8, <2>3, ZenonT(30) DEF Fields
  <1>9. CASE ring' = [ring EXCEPT ![c] = Append(@, t)] /\ UNCHANGED <<state, resched, g_next_reactor>>
    BY <1>a, <1>7, <1>9, ZenonT(30) DEF Fields
  <1> QED
    BY <1>1, <1>6, <1>8, <1>9

\* A reactor that ends takes the next thread of its ring.
LEMMA DrainInv ==
  ASSUME HomeInv, Early' => Early, NEW c \in Cores, NEW s \in {"exiting", "exited", "destroyed"},
         Reactors!Drain(c, s)
  PROVE  HomeInv'
  <1> DEFINE t == Head(ring[c])
  <1>a. Homes(hand, ring, Living) /\ Fields /\ Holds
    BY DEF HomeInv
  <1>1. /\ ring[c] # <<>>
        /\ \/ s = "destroyed" /\ ring' = [ring EXCEPT ![c] = Tail(@)]
           \/ s \in {"exiting", "exited"} /\ ring' = [ring EXCEPT ![c] = Append(Tail(@), t)]
        /\ state' = [state EXCEPT ![t] = s]
        /\ UNCHANGED <<main, reactor, hand, cpumask, resched, g_next_reactor>>
    BY DEF Reactors!Drain, Reactors!reactorVars
  <1> DEFINE q == [ring EXCEPT ![c] = Tail(@)]
  <1>2. Homes(hand, q, Living \ {t}) /\ t \in Living /\ t \in Threads
    <2>1. Homes(hand, [ring EXCEPT ![c] = Tail(@)], Living \ {Head(ring[c])}) /\ Head(ring[c]) \in Living
      BY <1>a, <1>1, HomesTake
    <2>2. t \in Threads
      BY <2>1 DEF Living
    <2> QED
      BY <1>1, <2>1, <2>2
  <1> HIDE DEF t
  <1>3. /\ DOMAIN state' = Threads
        /\ s = "destroyed" => Living' = Living \ {t}
        /\ s \in {"exiting", "exited"} => Living' = Living \cup {t}
        /\ \A u \in Cores : state'[u] # "none" <=> state[u] # "none"
    BY <1>1, <1>2, LivingStep, ZenonT(30)
  <1>4. Fields' /\ Holds'
    BY <1>a, <1>1, <1>3 DEF Fields, Holds
  <1>5. CASE s = "destroyed" /\ ring' = [ring EXCEPT ![c] = Tail(@)]
    BY <1>1, <1>2, <1>3, <1>4, <1>5, ReactorStep
  <1>6. CASE s \in {"exiting", "exited"} /\ ring' = [ring EXCEPT ![c] = Append(Tail(@), t)]
    <2>1. ring' = [q EXCEPT ![c] = Append(@, t)]
      BY <1>6, <1>a DEF Homes
    <2> HIDE DEF q
    <2>2. Homes(hand, ring', (Living \ {t}) \cup {t})
      BY <1>2, <2>1, HomesPut
    <2>3. (Living \ {t}) \cup {t} = Living /\ Living' = Living
      BY <1>2, <1>3, <1>6, ZenonT(30)
    <2> QED
      BY <1>1, <1>3, <1>4, <2>2, <2>3, ReactorStep
  <1> QED
    BY <1>1, <1>5, <1>6

\* A polled thread changes its mask or its state.
LEMMA PolledInv ==
  ASSUME HomeInv, Early' => Early, NEW c \in Cores,
         \/ \E t \in Cores : Reactors!Polled(c, t) /\ (Reactors!Resched(c, t) \/ Reactors!Exits(t))
         \/ Reactors!ExitCompletes(c)
  PROVE  HomeInv'
  <1>a. Homes(hand, ring, Living) /\ Fields /\ Holds
    BY DEF HomeInv
  <1>b. NumCores \in Nat \ {0} /\ Cores = 1..NumCores
    BY NvmfConstants DEF Reactors!ReactorConstants, Cores
  <1>1. ASSUME NEW t \in Living, NEW v \in {"exiting", "exited"}, state' = [state EXCEPT ![t] = v],
               UNCHANGED <<main, reactor, hand, ring, cpumask, resched, g_next_reactor>>
        PROVE  HomeInv'
    <2>1. t \in Threads
      BY DEF Living
    <2>2. DOMAIN state' = Threads /\ \A u \in Cores : state'[u] # "none" <=> state[u] # "none"
      BY <1>1, <2>1, LivingStep
    <2>3. Living' = Living
      <3>1. v \notin {"none", "destroyed"}
        BY <1>1
      <3>2. Living' = Living \cup {t}
        BY <1>1, <2>1, <3>1, LivingStep
      <3> QED
        BY <3>2
    <2>4. Fields' /\ Holds'
      BY <1>a, <1>1, <2>2 DEF Fields, Holds
    <2> QED
      BY <1>a, <1>1, <2>2, <2>3, <2>4, ReactorStep
  <1>2. ASSUME NEW t \in Cores, Reactors!Polled(c, t), Reactors!Resched(c, t)
        PROVE  HomeInv'
    <2>1. /\ cpumask' = [cpumask EXCEPT ![t] = {(c % NumCores) + 1}]
          /\ resched' = [resched EXCEPT ![t] = TRUE]
          /\ UNCHANGED <<main, reactor, hand, ring, state, g_next_reactor>>
      BY <1>2 DEF Reactors!Resched, Reactors!reactorVars
    <2>2. (c % NumCores) + 1 \in Cores
      BY SMTT(30), <1>b
    <2>3. Living' = Living
      BY <2>1 DEF Living
    <2>4. Fields' /\ Holds'
      BY <1>a, <2>1 DEF Fields, Holds
    <2>5. \A u \in Living : cpumask'[u] = cpumask[u] \/ \E k \in Cores : cpumask'[u] = {k}
      BY <1>a, <2>1, <2>2 DEF Fields, Living
    <2> QED
      BY <1>a, <2>1, <2>3, <2>4, <2>5, ReactorStep
  <1>3. ASSUME NEW t \in Cores, Reactors!Polled(c, t), Reactors!Exits(t)
        PROVE  HomeInv'
    <2>1. t \in Living
      BY <1>3, HeldAlive DEF Reactors!Polled
    <2> QED
      BY <1>1, <1>3, <2>1 DEF Reactors!Exits, Reactors!reactorVars
  <1>4. CASE Reactors!ExitCompletes(c)
    <2>1. hand[c] \in Living
      BY <1>4, HeldAlive DEF Reactors!ExitCompletes
    <2> QED
      BY <1>1, <1>4, <2>1 DEF Reactors!ExitCompletes, Reactors!reactorVars
  <1> QED
    BY <1>2, <1>3, <1>4

-----------------------------------------------------------------------------
(* Theorems *)

\* The homes of the threads are kept by every step of the target, of the reactors
\* and of the poll-group threads; the invariant is inductive together with that of
\* the target, which says when nvmf_poll_groups_create may still make a thread.
THEOREM HomeInvariance == Spec => []HomeInv
  <1>1. Init => HomeInv
    <2> SUFFICES ASSUME Init PROVE HomeInv
      OBVIOUS
    <2>1. /\ main = "init" /\ reactor = [c \in Cores |-> "off"]
          /\ hand = [c \in Cores |-> Nobody] /\ ring = [c \in Cores |-> <<>>]
          /\ state = [t \in Threads |-> "none"] /\ cpumask = [t \in Threads |-> {}]
          /\ resched = [t \in Threads |-> FALSE] /\ g_next_reactor = 0
      BY DEF Init, Reactors!Init, Nobody, Threads, Cores, Reactors!Cores, Reactors!NULL
    <2>2. Living = {}
      BY <2>1 DEF Living
    <2>3. IsSeq(<<>>)
      BY EmptyQueue
    <2>4. NumCores \in Nat \ {0} /\ Cores = 1..NumCores
      BY NvmfConstants DEF Reactors!ReactorConstants, Cores
    <2>5. Homes(hand, ring, Living)
      BY SMTT(30), <2>1, <2>2, <2>3 DEF Homes
    <2>6. Fields /\ Holds /\ Masks
      BY SMTT(30), <2>1, <2>2, <2>4 DEF Fields, Holds, Masks
    <2>7. \A t \in Cores : state[t] # "none" <=> t <= 0
      BY SMTT(30), <2>1, <2>4, ThreadNumbers
    <2>8. Ordered
      BY SMTT(30), <2>4, <2>7 DEF Ordered
    <2> QED
      BY <2>2, <2>5, <2>6, <2>8 DEF HomeInv
  <1>2. TargetInv /\ HomeInv /\ [Next]_vars => HomeInv'
    <2> SUFFICES ASSUME TargetInv, HomeInv, [Next]_vars PROVE HomeInv'
      OBVIOUS
    <2>a. ASSUME \/ Target!AdvanceState \/ Target!Callback \/ Target!InitMessage
                 \/ UNCHANGED <<g_target_state, stack>>
          PROVE  Early' => Early
      BY <2>a, EarlyStep
    <2>b. ASSUME UNCHANGED targetVars
          PROVE  Early' => Early
      BY <2>a, <2>b DEF targetVars
    <2>1. CASE UNCHANGED vars
      BY <2>1, <2>b, TargetStep DEF vars
    <2>2. CASE nvmf_init_threads
      BY <2>2, InitThreadsInv
    <2>3. CASE nvmf_destroy_threads
      <3>1. /\ main' = "end"
            /\ Early' => Early
            /\ UNCHANGED <<hand, ring, state, cpumask, resched, g_next_reactor, reactor>>
        BY <2>3, <2>b DEF nvmf_destroy_threads, Reactors!nvmf_destroy_threads, Reactors!reactorVars,
           Reactors!threadVars
      <3>2. Living' = Living
        BY <3>1 DEF Living
      <3>3. Ordered'
        BY <3>1, SameOrder
      <3>4. Homes(hand, ring, Living)'
        BY SMTT(30), <3>1, <3>2 DEF HomeInv, Homes
      <3>5. (Fields /\ Holds /\ Masks)'
        BY <3>1, <3>2 DEF HomeInv, Fields, Holds, Masks
      <3> QED
        BY <3>1, <3>3, <3>4, <3>5 DEF HomeInv
    <2>4. CASE Signal
      BY <2>4, <2>a, TargetStep DEF Signal, Target!nvmf_shutdown_cb, Target!targetVars
    <2>5. CASE AdvanceState
      BY <2>5, <2>a, TargetStep, CreateStep, CountingHolds DEF AdvanceState
    <2>6. CASE MainCallback \/ MainMessage
      BY <2>6, <2>a, TargetStep DEF MainCallback, MainMessage
    <2>7. CASE MainPoller
      BY <2>7, <2>a, TargetStep DEF MainPoller, Target!migrate_poll_groups_by_rr, Target!targetVars
    <2>8. ASSUME NEW c \in Cores, Turn(c)
          PROVE  HomeInv'
      BY <2>8, <2>b, DequeueInv, QuietStep, DisposeInv DEF Turn
    <2>9. ASSUME NEW c \in Cores, DrainStep(c)
          PROVE  HomeInv'
      BY <2>9, <2>b, DrainInv DEF DrainStep, Drain
    <2>10. ASSUME NEW c \in Cores, ExitCompletes(c)
           PROVE  HomeInv'
      BY <2>10, <2>b, PolledInv DEF ExitCompletes
    <2>11. ASSUME NEW c \in Cores, NEW t \in Cores, PgThread(c, t)
           PROVE  HomeInv'
      <3>1. UNCHANGED <<g_target_state, stack>>
        BY <2>11 DEF PgThread, nvmf_tgt_create_poll_group, Target!nvmf_tgt_create_poll_group,
           Target!nvmf_tgt_destroy_poll_group, Target!migrate_poll_group_by_rr,
           Target!nvmf_tgt_destroy_poll_groups_done, Target!targetVars, targetVars
      <3>2. Early' => Early
        BY <3>1, <2>a
      <3> QED
        BY <2>11, <3>2, TargetStep, AbortStep, PolledInv DEF PgThread, nvmf_tgt_create_poll_group
    <2> QED
      BY <2>1, <2>2, <2>3, <2>4, <2>5, <2>6, <2>7, <2>8, <2>9, <2>10, <2>11 DEF Next
  <1> QED
    BY <1>1, <1>2, TargetInvariance, PTL DEF Spec

\* The number of elements of a set, as NvmfReactor writes it.
LEMMA SameCount == \A S : Reactors!Cardinality(S) = Cardinality(S)
  BY DEF Reactors!Cardinality, Cardinality

\* Every living thread is in exactly one ring once or in the hands of exactly one
\* reactor, and a destroyed one nowhere: no thread is polled on two cores, lost in a
\* hand-over between reactors, or touched after spdk_thread_destroy.
THEOREM EveryThreadHasOneHome == Spec => []OneHome
  <1>1. HomeInv => OneHome
    <2> SUFFICES ASSUME HomeInv, NEW t \in Threads
                 PROVE  Cardinality(Reactors!Places(t))
                          = IF state[t] \in {"none", "destroyed"} THEN 0 ELSE 1
      BY SameCount DEF OneHome, Reactors!OneHome, Threads
    <2>1. Homes(hand, ring, Living)
      BY DEF HomeInv
    <2>2. \A p : p \in Reactors!Places(t) <=>
            \E c \in Cores : \/ hand[c] = t /\ p = <<c, 0>>
                             \/ \E i \in DOMAIN ring[c] : ring[c][i] = t /\ p = <<c, i>>
      <3> DEFINE At(c) == {<<c, i>> : i \in {j \in DOMAIN ring[c] : ring[c][j] = t}}
                 InHand == {<<c, 0>> : c \in {d \in Cores : hand[d] = t}}
                 InRing == UNION {At(c) : c \in Cores}
      <3>1. Reactors!Places(t) = InRing \cup InHand
        <4>1. Reactors!Cores = Cores
          BY DEF Reactors!Cores, Cores
        <4> QED
          BY <4>1 DEF Reactors!Places
      <3>2. \A c, p : p \in At(c) <=> \E i \in DOMAIN ring[c] : ring[c][i] = t /\ p = <<c, i>>
        OBVIOUS
      <3>3. \A p : p \in InHand <=> \E c \in Cores : hand[c] = t /\ p = <<c, 0>>
        OBVIOUS
      <3> HIDE DEF At, InHand
      <3>4. \A p : p \in InRing <=> \E c \in Cores : p \in At(c)
        OBVIOUS
      <3> HIDE DEF InRing
      <3> SUFFICES ASSUME NEW p
                   PROVE  p \in Reactors!Places(t) <=>
                            \E c \in Cores : \/ hand[c] = t /\ p = <<c, 0>>
                                             \/ \E i \in DOMAIN ring[c] : ring[c][i] = t /\ p = <<c, i>>
        OBVIOUS
      <3>5. p \in Reactors!Places(t) <=> (\E c \in Cores : p \in At(c)) \/ p \in InHand
        <4>1. p \in InRing <=> \E c \in Cores : p \in At(c)
          BY <3>4
        <4>2. p \in Reactors!Places(t) <=> p \in InRing \/ p \in InHand
          BY <3>1
        <4> QED
          BY <4>1, <4>2
      <3>6. ASSUME p \in Reactors!Places(t)
            PROVE  \E c \in Cores : \/ hand[c] = t /\ p = <<c, 0>>
                                    \/ \E i \in DOMAIN ring[c] : ring[c][i] = t /\ p = <<c, i>>
        <4>1. CASE p \in InHand
          BY <3>3, <4>1
        <4>2. CASE \E c \in Cores : p \in At(c)
          BY SMTT(30), <3>2, <4>2
        <4> QED
          BY <3>5, <3>6, <4>1, <4>2
      <3>7. ASSUME NEW c \in Cores,
                   \/ hand[c] = t /\ p = <<c, 0>>
                   \/ \E i \in DOMAIN ring[c] : ring[c][i] = t /\ p = <<c, i>>
            PROVE  p \in Reactors!Places(t)
        <4>1. CASE hand[c] = t /\ p = <<c, 0>>
          BY <3>3, <3>5, <4>1
        <4>2. CASE \E i \in DOMAIN ring[c] : ring[c][i] = t /\ p = <<c, i>>
          BY <3>2, <3>5, <4>2
        <4> QED
          BY <3>7, <4>1, <4>2
      <3> QED
        BY <3>6, <3>7
    <2>3. CASE state[t] \in {"none", "destroyed"}
      <3>1. t \notin Living /\ t # Nobody
        BY <2>3, ThreadNumbers DEF Living
      <3>2. \A c \in Cores : hand[c] # t /\ \A i \in DOMAIN ring[c] : ring[c][i] # t
        BY SMTT(30), <2>1, <3>1 DEF Homes
      <3>3. Reactors!Places(t) = {}
        BY <2>2, <3>2
      <3> QED
        BY <2>3, <3>3, FS_EmptySet
    <2>4. CASE state[t] \notin {"none", "destroyed"}
      <3>1. t \in Living /\ t # Nobody
        BY <2>4, ThreadNumbers DEF Living
      <3>2. PICK c \in Cores : hand[c] = t \/ \E i \in DOMAIN ring[c] : ring[c][i] = t
        BY <2>1, <3>1 DEF Homes
      <3>3. CASE hand[c] = t
        <4>1. \A d \in Cores : /\ hand[d] = t => d = c
                              /\ \A i \in DOMAIN ring[d] : ring[d][i] # t
          BY SMTT(30), <2>1, <3>1, <3>3 DEF Homes
        <4>2. Reactors!Places(t) = {<<c, 0>>}
          BY <2>2, <3>3, <4>1
        <4> QED
          BY <2>4, <4>2, FS_Singleton
      <3>4. CASE \E i \in DOMAIN ring[c] : ring[c][i] = t
        <4>1. PICK i \in DOMAIN ring[c] : ring[c][i] = t
          BY <3>4
        <4>2. \A d \in Cores : /\ hand[d] # t
                              /\ \A j \in DOMAIN ring[d] : ring[d][j] = t => d = c /\ j = i
          BY SMTT(30), <2>1, <4>1 DEF Homes
        <4>3. Reactors!Places(t) = {<<c, i>>}
          BY <2>2, <4>1, <4>2
        <4> QED
          BY <2>4, <4>3, FS_Singleton
      <3> QED
        BY <3>2, <3>3, <3>4
    <2> QED
      BY <2>3, <2>4
  <1> QED
    BY <1>1, HomeInvariance, PTL

=============================================================================
