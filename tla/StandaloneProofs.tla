---------------------------- MODULE StandaloneProofs ----------------------------
(***************************************************************************)
(* The properties of the models that stand on their own, without module    *)
(* Kernel.                                                                 *)
(*                                                                         *)
(* TaskChange, for every pool of dummies and every number of iterations:   *)
(* ChangeInv says in which phase the test is and what the ready queue, the *)
(* wait queue and the suspended threads are in it.  The heart is A_Run:    *)
(* the ready queue is a ring of peers in front of I_Task, in which         *)
(* H_Task_SA follows L_Task_SA; the order of the dummies does not matter.  *)
(*                                                                         *)
(* Sim, for every number of windows and every limit of the semaphore: its  *)
(* properties say what a window has captured.  What they rest on is what   *)
(* the entry of a probe establishes and no window of it destroys: that is  *)
(* the invariant IInv.  Outcome(c) is what a window of call c does under   *)
(* IInv; there is one lemma for each replay, and one that carries IInv     *)
(* over a step with that outcome.                                          *)
(*                                                                         *)
(* MemAdapter, for every arena, every sweep of granularities that divide   *)
(* it and every cost of a header: MemInv relates what the harness holds to *)
(* the structure of the allocator.  A slab and a pool hold the pieces that *)
(* are not free and the set bits; the chunks of a heap are a row without   *)
(* gaps from its header to the end of the arena, and each piece is what    *)
(* the harness has of a used chunk of its own.  The number of used bytes   *)
(* is a sum over the pieces and a walk over the chunks, both recursive     *)
(* functions: that such a function exists, and that the walk meets the     *)
(* sum, is shown with a smallest counterexample (WFMin).                   *)
(***************************************************************************)
EXTENDS TaskChange, Sim, MemAdapter, SequenceTheorems, FiniteSetTheorems, TLAPS

-----------------------------------------------------------------------------
(***************************************************************************)
(* TaskChange                                                              *)
(***************************************************************************)

ChangeSeries == {"scenario_a", "scenario_b"}

ChangeType ==
    /\ queue \in Seq(Task) /\ waiting \in Seq(Task)
    /\ suspended \subseteq Task
    /\ pc \in [Task -> Labels]
    /\ window \in ChangeSeries \cup {"closed"}
    /\ samples \in [ChangeSeries -> Nat]
    /\ load \subseteq Dummies

Distinct(q) == \A k, m \in 1..Len(q) : q[k] = q[m] => k = m

Fresh(T) == \A t \in T : pc[t] = "wait_start"

\* The threads of scenario A that have been created wait for START in the
\* order of their creation, L_Task_SA and H_Task_SA at the head.
A_Gather ==
    /\ pc["L_Task_SA"] = "yield" /\ pc["H_Task_SA"] = "yield"
    /\ queue = <<"I_Task">> \/ \E d \in load : queue = <<d, "I_Task">> /\ pc[d] = "wait_start"
    /\ Len(waiting) >= 2 /\ waiting[1] = "L_Task_SA" /\ waiting[2] = "H_Task_SA"
    /\ Distinct(waiting)
    /\ Members(waiting) = {"L_Task_SA", "H_Task_SA"} \cup {d \in load : pc[d] = "close"}
    /\ \A d \in load : pc[d] \in {"wait_start", "close"}

A_Setup ==
    /\ window = "closed" /\ samples["scenario_a"] = 0 /\ suspended = {}
    /\ \/ /\ pc["I_Task"] = "create_low_sa" /\ queue = <<"I_Task">> /\ waiting = <<>>
          /\ Fresh({"L_Task_SA", "H_Task_SA"} \cup load)
       \/ /\ pc["I_Task"] = "create_high_sa" /\ Fresh({"H_Task_SA"} \cup load)
          /\ \/ queue = <<"L_Task_SA", "I_Task">> /\ waiting = <<>> /\ pc["L_Task_SA"] = "wait_start"
             \/ queue = <<"I_Task">> /\ waiting = <<"L_Task_SA">> /\ pc["L_Task_SA"] = "yield"
       \/ /\ pc["I_Task"] = "post_start" /\ Fresh({"H_Task_SA"} \cup load)
          /\ queue = <<"H_Task_SA", "I_Task">> /\ waiting = <<"L_Task_SA">>
          /\ pc["L_Task_SA"] = "yield"
       \/ pc["I_Task"] = "post_start" /\ A_Gather

\* H_Task_SA follows L_Task_SA around the ready queue.  While H_Task_SA runs
\* the window is open; the series is complete at most when the first dummy is
\* about to find out.
Follows(p) ==
    /\ queue[p] = "L_Task_SA"
    /\ queue[IF p = Len(queue) - 1 THEN 1 ELSE p + 1] = "H_Task_SA"
    /\ p = Len(queue) - 1 => window = "scenario_a"
    /\ \/ samples["scenario_a"] < MEASUREMENT_COUNT
       \/ samples["scenario_a"] = MEASUREMENT_COUNT /\ load # {} /\ p = Len(queue) - 2

A_Run ==
    /\ pc["I_Task"] = "abort_high_sa" /\ waiting = <<>> /\ suspended = {}
    /\ Len(queue) >= 3 /\ queue[Len(queue)] = "I_Task" /\ Distinct(queue)
    /\ Members(queue) = {"L_Task_SA", "H_Task_SA", "I_Task"} \cup load
    /\ pc["L_Task_SA"] = "yield" /\ pc["H_Task_SA"] \in {"yield", "stop"}
    /\ \A d \in load : pc[d] = "close"
    /\ window \in {"closed", "scenario_a"}
    /\ \E p \in 1..(Len(queue) - 1) : Follows(p)

\* The series is complete.  Whoever runs suspends L_Task_SA, H_Task_SA and
\* itself, and no thread but I_Task is left when they have all done so.
A_Over ==
    /\ pc["I_Task"] = "abort_high_sa" /\ waiting = <<>>
    /\ window = "closed" /\ samples["scenario_a"] = MEASUREMENT_COUNT
    /\ Len(queue) >= 1 /\ queue[Len(queue)] = "I_Task" /\ Distinct(queue)
    /\ Members(queue) \cap suspended = {} /\ "L_Task_SA" \in suspended
    /\ Members(queue) \cup suspended = {"L_Task_SA", "H_Task_SA", "I_Task"} \cup load
    /\ \A d \in load : pc[d] \in {"close", "suspend_high", "suspend", "yield"}
    /\ \/ "H_Task_SA" \in suspended
       \/ queue[1] \in load /\ pc[queue[1]] = "suspend_high"
       \/ load = {} /\ queue[1] = "H_Task_SA" /\ pc["H_Task_SA"] = "suspend"

A_Clear ==
    /\ queue = <<"I_Task">> /\ waiting = <<>>
    /\ window = "closed" /\ samples["scenario_a"] = MEASUREMENT_COUNT
    /\ \/ pc["I_Task"] = "abort_low_sa" /\ suspended = {"L_Task_SA"} \cup load
       \/ pc["I_Task"] = "create_sb" /\ suspended \subseteq load

ChangeA ==
    /\ samples["scenario_b"] = 0 /\ pc["Task_SB"] = "yield"
    /\ A_Setup \/ A_Run \/ A_Over \/ A_Clear

ChangeB ==
    /\ pc["I_Task"] = "signalize" /\ waiting = <<>>
    /\ samples["scenario_a"] = MEASUREMENT_COUNT
    /\ \/ /\ queue = <<"Task_SB", "I_Task">> /\ suspended = {}
          /\ samples["scenario_b"] < MEASUREMENT_COUNT
          /\ \/ pc["Task_SB"] = "yield" /\ window = "closed"
             \/ pc["Task_SB"] = "stop" /\ window = "scenario_b"
       \/ /\ queue = <<"I_Task">> /\ suspended = {"Task_SB"}
          /\ samples["scenario_b"] = MEASUREMENT_COUNT /\ window = "closed"

ChangeInv == ChangeType /\ (ChangeA \/ ChangeB)

LEMMA InsertAtIs ==
    ASSUME NEW q \in Seq(Task), NEW k \in 1..(Len(q) + 1), NEW t \in Task
    PROVE  /\ InsertAt(q, k, t) \in Seq(Task)
           /\ Len(InsertAt(q, k, t)) = Len(q) + 1
           /\ \A m \in 1..(Len(q) + 1) :
                 InsertAt(q, k, t)[m] = IF m < k THEN q[m] ELSE IF m = k THEN t ELSE q[m - 1]
<1> DEFINE a == SubSeq(q, 1, k - 1)
           c == SubSeq(q, k, Len(q))
           at == a \o <<t>>
<1>0. Len(q) \in Nat
  OBVIOUS
<1>1. a \in Seq(Task) /\ Len(a) = k - 1 /\ \A m \in 1..(k - 1) : a[m] = q[m]
  <2>1. \A m \in 1..(k - 1) : q[m] \in Task
    BY <1>0
  <2> QED
    BY <2>1, <1>0, SubSeqProperties
<1>2. c \in Seq(Task) /\ Len(c) = Len(q) - k + 1 /\ \A m \in 1..(Len(q) - k + 1) : c[m] = q[k + m - 1]
  <2>1. \A m \in k..Len(q) : q[m] \in Task
    BY <1>0
  <2> QED
    BY <2>1, <1>0, SubSeqProperties
<1>3. at \in Seq(Task) /\ Len(at) = k /\ \A m \in 1..k : at[m] = IF m < k THEN q[m] ELSE t
  <2>1. <<t>> \in Seq(Task) /\ Len(<<t>>) = 1 /\ <<t>>[1] = t
    OBVIOUS
  <2> HIDE DEF a
  <2> QED
    BY <2>1, <1>1, <1>0, ConcatProperties
<1> HIDE DEF a, c, at
<1>4. /\ at \o c \in Seq(Task)
      /\ Len(at \o c) = Len(at) + Len(c)
      /\ \A m \in 1..(Len(at) + Len(c)) : (at \o c)[m] = IF m <= Len(at) THEN at[m] ELSE c[m - Len(at)]
  BY <1>2, <1>3, ConcatProperties
<1>5. InsertAt(q, k, t) = at \o c
  BY DEF InsertAt, a, c, at
<1> QED
  BY <1>0, <1>2, <1>3, <1>4, <1>5

LEMMA RemoveAtIs ==
    ASSUME NEW q \in Seq(Task), NEW k \in 1..Len(q)
    PROVE  /\ RemoveAt(q, k) \in Seq(Task)
           /\ Len(RemoveAt(q, k)) = Len(q) - 1
           /\ \A m \in 1..(Len(q) - 1) : RemoveAt(q, k)[m] = IF m < k THEN q[m] ELSE q[m + 1]
<1> DEFINE a == SubSeq(q, 1, k - 1)
           c == SubSeq(q, k + 1, Len(q))
<1>0. Len(q) \in Nat
  OBVIOUS
<1>1. a \in Seq(Task) /\ Len(a) = k - 1 /\ \A m \in 1..(k - 1) : a[m] = q[m]
  <2>1. \A m \in 1..(k - 1) : q[m] \in Task
    BY <1>0
  <2> QED
    BY <2>1, <1>0, SubSeqProperties
<1>2. c \in Seq(Task) /\ Len(c) = Len(q) - k /\ \A m \in 1..(Len(q) - k) : c[m] = q[k + m]
  <2>1. \A m \in (k + 1)..Len(q) : q[m] \in Task
    BY <1>0
  <2> QED
    BY <2>1, <1>0, SubSeqProperties
<1> HIDE DEF a, c
<1>3. /\ a \o c \in Seq(Task)
      /\ Len(a \o c) = Len(a) + Len(c)
      /\ \A m \in 1..(Len(a) + Len(c)) : (a \o c)[m] = IF m <= Len(a) THEN a[m] ELSE c[m - Len(a)]
  BY <1>1, <1>2, ConcatProperties
<1>4. RemoveAt(q, k) = a \o c
  BY DEF RemoveAt, a, c
<1>5. ASSUME NEW m \in 1..(Len(q) - 1)
      PROVE  (a \o c)[m] = IF m < k THEN q[m] ELSE q[m + 1]
  <2>1. (a \o c)[m] = IF m <= k - 1 THEN a[m] ELSE c[m - (k - 1)]
    BY <1>0, <1>1, <1>2, <1>3
  <2>2. m >= k => m - (k - 1) \in 1..(Len(q) - k) /\ k + (m - (k - 1)) = m + 1
    BY <1>0
  <2>3. m >= k => c[m - (k - 1)] = q[m + 1]
    BY <2>2, <1>2
  <2> QED
    BY <2>1, <2>3, <1>1, <1>0
<1> DEFINE w == a \o c
<1>6. w \in Seq(Task) /\ Len(w) = Len(q) - 1
  BY <1>0, <1>1, <1>2, <1>3
<1>7. \A m \in 1..(Len(q) - 1) : w[m] = IF m < k THEN q[m] ELSE q[m + 1]
  BY <1>5
<1>8. RemoveAt(q, k) = w
  BY <1>4
<1> HIDE DEF w
<1> QED
  BY <1>6, <1>7, <1>8

LEMMA PlaceIs ==
    ASSUME NEW q \in Seq(Task), NEW t \in Task, NEW k \in 1..(Len(q) + 1),
           \A m \in 1..(k - 1) : prio[q[m]] <= prio[t],
           k <= Len(q) => prio[q[k]] > prio[t]
    PROVE  Place(q, t) = k
<1>1. \A m \in 1..Len(q) : prio[q[m]] \in Nat /\ prio[t] \in Nat
  BY PrioAssumption
<1>2. ASSUME NEW j \in 1..(Len(q) + 1),
             \A m \in 1..(j - 1) : prio[q[m]] <= prio[t],
             j <= Len(q) => prio[q[j]] > prio[t]
      PROVE  j = k
  BY <1>1, <1>2
<1> QED
  BY <1>2 DEF Place

LEMMA InsertIs ==
    ASSUME NEW q \in Seq(Task), NEW t \in Task, NEW k \in 1..(Len(q) + 1),
           \A m \in 1..(k - 1) : prio[q[m]] <= prio[t],
           k <= Len(q) => prio[q[k]] > prio[t]
    PROVE  /\ Insert(q, t) \in Seq(Task)
           /\ Len(Insert(q, t)) = Len(q) + 1
           /\ \A m \in 1..(Len(q) + 1) :
                 Insert(q, t)[m] = IF m < k THEN q[m] ELSE IF m = k THEN t ELSE q[m - 1]
<1>1. Place(q, t) = k
  BY PlaceIs
<1>2. Insert(q, t) = InsertAt(q, k, t)
  BY <1>1 DEF Insert
<1> DEFINE w == InsertAt(q, k, t)
<1>3. /\ w \in Seq(Task)
      /\ Len(w) = Len(q) + 1
      /\ \A m \in 1..(Len(q) + 1) : w[m] = IF m < k THEN q[m] ELSE IF m = k THEN t ELSE q[m - 1]
  BY ONLY InsertAtIs, q \in Seq(Task), k \in 1..(Len(q) + 1), t \in Task DEF w
<1> HIDE DEF w
<1> QED
  BY <1>2, <1>3 DEF w

\* A thread is inserted in front of I_Task.
LEMMA CreateBeforeI ==
    ASSUME NEW t \in Task \ {"I_Task"}
    PROVE  Insert(<<"I_Task">>, t) = <<t, "I_Task">>
<1>1. <<"I_Task">> \in Seq(Task) /\ Len(<<"I_Task">>) = 1 /\ <<"I_Task">>[1] = "I_Task"
  BY DEF Task, MainTasks
<1>2. prio["I_Task"] > prio[t]
  BY PrioAssumption DEF Task, MainTasks
<1> DEFINE r == Insert(<<"I_Task">>, t)
<1>3. r \in Seq(Task) /\ Len(r) = 2 /\ r[1] = t /\ r[2] = "I_Task"
  <2> DEFINE q == <<"I_Task">>
  <2>1. q \in Seq(Task) /\ t \in Task /\ 1 \in 1..(Len(q) + 1)
    BY <1>1
  <2>2. (\A m \in 1..(1 - 1) : prio[q[m]] <= prio[t]) /\ (1 <= Len(q) => prio[q[1]] > prio[t])
    BY <1>1, <1>2
  <2> HIDE DEF q
  <2>3. /\ Insert(q, t) \in Seq(Task)
        /\ Len(Insert(q, t)) = Len(q) + 1
        /\ \A m \in 1..(Len(q) + 1) :
              Insert(q, t)[m] = IF m < 1 THEN q[m] ELSE IF m = 1 THEN t ELSE q[m - 1]
    BY <2>1, <2>2, InsertIs
  <2>4. Len(q) = 1 /\ q[1] = "I_Task" /\ r = Insert(q, t)
    BY DEF q
  <2> HIDE DEF r
  <2> QED
    BY <2>3, <2>4
<1>4. <<t, "I_Task">> \in Seq(Task) /\ Len(<<t, "I_Task">>) = 2
      /\ <<t, "I_Task">>[1] = t /\ <<t, "I_Task">>[2] = "I_Task"
  BY DEF Task, MainTasks
<1> HIDE DEF r
<1>5. r = <<t, "I_Task">>
  BY <1>3, <1>4, SeqEqual
<1> QED
  BY <1>5 DEF r



LEMMA ThreadFacts ==
    /\ "I_Task" \in Task /\ "L_Task_SA" \in Task /\ "H_Task_SA" \in Task /\ "Task_SB" \in Task
    /\ Dummies \subseteq Task
    /\ Dummies \cap MainTasks = {}
    /\ \A t \in {"L_Task_SA", "H_Task_SA"} \cup Dummies : prio[t] = prio["L_Task_SA"]
    /\ \A t \in Task : prio[t] \in Nat /\ (t # "I_Task" => prio[t] < prio["I_Task"])
BY TaskAssumption, PrioAssumption DEF Task, MainTasks

LEMMA HeadTail ==
    ASSUME NEW q \in Seq(Task), Len(q) >= 1
    PROVE  /\ Head(q) = q[1] /\ q[1] \in Task
           /\ Tail(q) \in Seq(Task) /\ Len(Tail(q)) = Len(q) - 1
           /\ \A m \in 1..(Len(q) - 1) : Tail(q)[m] = q[m + 1]
OBVIOUS

\* The head of a queue of peers in front of I_Task goes to the end of the peers.
LEMMA RotationIs ==
    ASSUME NEW q \in Seq(Task), Len(q) >= 2, q[Len(q)] = "I_Task",
           \A m \in 1..(Len(q) - 1) : q[m] # "I_Task" /\ prio[q[m]] = prio[q[1]]
    PROVE  LET r == Insert(Tail(q), Head(q))
           IN  /\ r \in Seq(Task) /\ Len(r) = Len(q) /\ r[Len(q)] = "I_Task"
               /\ r[Len(q) - 1] = q[1]
               /\ \A m \in 1..(Len(q) - 2) : r[m] = q[m + 1]
<1> DEFINE s == Tail(q)
           k == Len(q) - 1
           r == Insert(s, q[1])
<1>0. Len(q) \in Nat /\ \A m \in 1..Len(q) : q[m] \in Task
  OBVIOUS
<1>1. s \in Seq(Task) /\ Len(s) = k /\ q[1] \in Task /\ Head(q) = q[1]
      /\ \A m \in 1..k : s[m] = q[m + 1]
  BY HeadTail
<1> HIDE DEF s
<1>2. \A m \in 1..(k - 1) : prio[s[m]] <= prio[q[1]]
  <2>1. \A m \in 1..(k - 1) : prio[s[m]] = prio[q[1]]
    BY <1>1, <1>0
  <2> QED
    BY <2>1, <1>1, ThreadFacts
<1>3. prio[s[k]] > prio[q[1]]
  <2>1. s[k] = "I_Task" /\ q[1] # "I_Task"
    BY <1>1, <1>0
  <2> QED
    BY <2>1, <1>1, ThreadFacts
<1>4. k \in 1..(Len(s) + 1)
  BY <1>0, <1>1
<1>5. /\ r \in Seq(Task) /\ Len(r) = Len(s) + 1
      /\ \A m \in 1..(Len(s) + 1) : r[m] = IF m < k THEN s[m] ELSE IF m = k THEN q[1] ELSE s[m - 1]
  <2>1. PICK j : j = k
    OBVIOUS
  <2>2. PICK t : t = q[1]
    OBVIOUS
  <2>3. /\ s \in Seq(Task) /\ t \in Task /\ j \in 1..(Len(s) + 1)
        /\ (\A m \in 1..(j - 1) : prio[s[m]] <= prio[t])
        /\ (j <= Len(s) => prio[s[j]] > prio[t])
    BY <1>1, <1>2, <1>3, <1>4, <2>1, <2>2
  <2>4. /\ Insert(s, t) \in Seq(Task)
        /\ Len(Insert(s, t)) = Len(s) + 1
        /\ \A m \in 1..(Len(s) + 1) :
              Insert(s, t)[m] = IF m < j THEN s[m] ELSE IF m = j THEN t ELSE s[m - 1]
    BY ONLY <2>3, InsertIs
  <2> QED
    BY <2>1, <2>2, <2>4
<1> HIDE DEF r
<1>6. Len(r) = Len(q) /\ r[Len(q)] = "I_Task" /\ r[Len(q) - 1] = q[1]
  BY <1>5, <1>1, <1>0
<1>7. \A m \in 1..(Len(q) - 2) : r[m] = q[m + 1]
  BY <1>5, <1>1, <1>0
<1> QED
  BY <1>5, <1>6, <1>7, <1>1 DEF r, s

LEMMA MembersIs ==
    ASSUME NEW q \in Seq(Task), NEW x
    PROVE  x \in Members(q) <=> \E m \in 1..Len(q) : q[m] = x
BY DEF Members

\* Rotating a queue keeps its members, each once.
LEMMA RotationKeeps ==
    ASSUME NEW q \in Seq(Task), NEW r \in Seq(Task), Len(q) >= 2, Len(r) = Len(q),
           r[Len(q)] = q[Len(q)], r[Len(q) - 1] = q[1],
           \A m \in 1..(Len(q) - 2) : r[m] = q[m + 1]
    PROVE  /\ Members(r) = Members(q)
           /\ Distinct(q) => Distinct(r)
<1> DEFINE to(m) == IF m = Len(q) THEN m ELSE IF m = Len(q) - 1 THEN 1 ELSE m + 1
           from(m) == IF m = Len(q) THEN m ELSE IF m = 1 THEN Len(q) - 1 ELSE m - 1
<1>0. Len(q) \in Nat
  OBVIOUS
<1>1. \A m \in 1..Len(q) : to(m) \in 1..Len(q) /\ r[m] = q[to(m)]
  BY <1>0
<1>2. \A m \in 1..Len(q) : from(m) \in 1..Len(q) /\ to(from(m)) = m /\ from(to(m)) = m
  BY <1>0
<1> HIDE DEF to, from
<1>3. \A m \in 1..Len(q) : r[from(m)] = q[m]
  BY <1>1, <1>2
<1>4. Members(r) = Members(q)
  <2>1. ASSUME NEW m \in 1..Len(q) PROVE r[m] \in Members(q)
    BY ONLY <1>1, m \in 1..Len(q) DEF Members
  <2>2. ASSUME NEW m \in 1..Len(q) PROVE q[m] \in Members(r)
    <3>1. from(m) \in 1..Len(r) /\ r[from(m)] = q[m]
      BY ONLY <1>2, <1>3, Len(r) = Len(q), m \in 1..Len(q)
    <3> QED
      BY ONLY <3>1 DEF Members
  <2> QED
    BY ONLY <2>1, <2>2, Len(r) = Len(q) DEF Members
<1>5. ASSUME Distinct(q), NEW x \in 1..Len(r), NEW y \in 1..Len(r), r[x] = r[y]
      PROVE  x = y
  <2>1. to(x) = to(y)
    BY ONLY <1>1, <1>5, Len(r) = Len(q) DEF Distinct
  <2> QED
    BY ONLY <2>1, <1>2, Len(r) = Len(q), x \in 1..Len(r), y \in 1..Len(r)
<1> QED
  BY <1>4, <1>5 DEF Distinct

\* Without takes out what is there, and changes nothing otherwise.
LEMMA WithoutAbsent ==
    ASSUME NEW q \in Seq(Task), NEW t, t \notin Members(q)
    PROVE  Without(q, t) = q
BY DEF Without, Members

LEMMA WithoutIs ==
    ASSUME NEW q \in Seq(Task), NEW k \in 1..Len(q), Distinct(q)
    PROVE  LET r == Without(q, q[k])
           IN  /\ r \in Seq(Task) /\ Len(r) = Len(q) - 1
               /\ \A m \in 1..(Len(q) - 1) : r[m] = IF m < k THEN q[m] ELSE q[m + 1]
               /\ Distinct(r)
               /\ Members(r) = Members(q) \ {q[k]}
<1> DEFINE r == Without(q, q[k])
<1>0. Len(q) \in Nat
  OBVIOUS
<1>1. (CHOOSE m \in 1..Len(q) : q[m] = q[k]) = k
  BY DEF Distinct
<1>2. r = RemoveAt(q, k)
  BY <1>1 DEF Without
<1> HIDE DEF r
<1>3. r \in Seq(Task) /\ Len(r) = Len(q) - 1
      /\ \A m \in 1..(Len(q) - 1) : r[m] = IF m < k THEN q[m] ELSE q[m + 1]
  BY ONLY <1>2, RemoveAtIs, q \in Seq(Task), k \in 1..Len(q)
<1> DEFINE to(m) == IF m < k THEN m ELSE m + 1
<1>4. \A m \in 1..Len(r) : to(m) \in 1..Len(q) /\ to(m) # k /\ r[m] = q[to(m)]
  BY <1>3, <1>0
<1>5. \A m, j \in 1..Len(r) : to(m) = to(j) => m = j
  BY <1>3, <1>0
<1>6. \A j \in 1..Len(q) : j # k => \E m \in 1..Len(r) : to(m) = j
  <2> SUFFICES ASSUME NEW j \in 1..Len(q), j # k
               PROVE  \E m \in 1..Len(r) : to(m) = j
    OBVIOUS
  <2> DEFINE x == IF j < k THEN j ELSE j - 1
  <2>1. x \in 1..Len(r) /\ to(x) = j
    BY <1>3, <1>0
  <2> QED
    BY <2>1
<1> HIDE DEF to
<1>7. Distinct(r)
  BY <1>4, <1>5 DEF Distinct
<1>8. Members(r) = Members(q) \ {q[k]}
  <2>1. ASSUME NEW x \in Members(r) PROVE x \in Members(q) /\ x # q[k]
    BY <1>4 DEF Members, Distinct
  <2>2. ASSUME NEW x \in Members(q), x # q[k] PROVE x \in Members(r)
    <3>1. PICK j \in 1..Len(q) : q[j] = x
      BY DEF Members
    <3>2. PICK m \in 1..Len(r) : to(m) = j
      BY <3>1, <2>2, <1>6
    <3> QED
      BY <3>1, <3>2, <1>4 DEF Members
  <2> QED
    BY <2>1, <2>2
<1> QED
  BY <1>3, <1>7, <1>8 DEF r

-----------------------------------------------------------------------------
LEMMA ChangeInit == Init => ChangeInv
<1> SUFFICES ASSUME Init PROVE ChangeInv
  OBVIOUS
<1>1. ChangeType
  <2>1. queue \in Seq(Task) /\ waiting \in Seq(Task)
    BY ThreadFacts DEF Init
  <2>2. pc \in [Task -> Labels]
    BY DEF Init, Labels
  <2> QED
    BY <2>1, <2>2 DEF ChangeType, Init, ChangeSeries
<1>2. pc["I_Task"] = "create_low_sa" /\ pc["Task_SB"] = "yield" /\ Fresh({"L_Task_SA", "H_Task_SA"} \cup load)
  <2>1. \A t \in {"L_Task_SA", "H_Task_SA"} \cup load : t \in Task /\ t # "I_Task" /\ t # "Task_SB"
    BY ThreadFacts DEF Init, MainTasks
  <2> QED
    BY <2>1, ThreadFacts DEF Init, Fresh
<1> QED
  BY <1>1, <1>2 DEF Init, ChangeInv, ChangeA, A_Setup

\* What a step leaves of the types.
LEMMA StepType ==
    ASSUME ChangeType, NEW t \in Task, NEW l \in Labels, NEW m \in Labels, Step(t, l, m),
           queue' \in Seq(Task), waiting' \in Seq(Task), suspended' \subseteq Task,
           window' \in ChangeSeries \cup {"closed"}, samples' \in [ChangeSeries -> Nat]
    PROVE  /\ ChangeType'
           /\ pc'[t] = m /\ \A u \in Task : u # t => pc'[u] = pc[u]
           /\ load' = load /\ Len(queue) >= 1 /\ queue[1] = t /\ pc[t] = l
BY DEF ChangeType, Step, Runs

LEMMA LabelFacts ==
    {"create_low_sa", "create_high_sa", "post_start", "abort_high_sa", "abort_low_sa",
     "create_sb", "signalize", "wait_start", "yield", "stop", "suspend", "close",
     "suspend_high"} = Labels
BY DEF Labels

\* A call that has no thread to switch to but I_Task.
LEMMA WaitStartIs ==
    ASSUME ChangeType, NEW t \in Task, queue = <<t, "I_Task">>, WaitStart
    PROVE  /\ queue' = <<"I_Task">> /\ waiting' = Append(waiting, t) /\ suspended' = suspended
           /\ queue' \in Seq(Task) /\ waiting' \in Seq(Task)
BY ThreadFacts DEF WaitStart, ChangeType

LEMMA CreateIs ==
    ASSUME NEW t \in Task \ {"I_Task"}, queue = <<"I_Task">>, Create(t)
    PROVE  queue' = <<t, "I_Task">> /\ queue' \in Seq(Task) /\ waiting' = waiting /\ suspended' = suspended
<1>1. queue' = Insert(<<"I_Task">>, t) /\ waiting' = waiting /\ suspended' = suspended
  BY DEF Create
<1>2. queue' = <<t, "I_Task">>
  BY ONLY <1>1, CreateBeforeI, t \in Task \ {"I_Task"}
<1>3. <<t, "I_Task">> \in Seq(Task)
  BY ThreadFacts
<1> QED
  BY <1>1, <1>2, <1>3

-----------------------------------------------------------------------------
\* While scenario A runs the queue is a ring of peers in front of I_Task.
\* A queue that begins and ends with I_Task holds nothing else.
LEMMA OnlyI ==
    ASSUME NEW q \in Seq(Task), Distinct(q), Len(q) >= 1, q[1] = "I_Task", q[Len(q)] = "I_Task"
    PROVE  Len(q) = 1 /\ q = <<"I_Task">> /\ Members(q) = {"I_Task"}
<1>1. Len(q) \in Nat /\ 1 \in 1..Len(q) /\ Len(q) \in 1..Len(q) /\ q[1] = q[Len(q)]
  OBVIOUS
<1>2. Len(q) = 1
  BY <1>1 DEF Distinct
<1>3. q = <<"I_Task">>
  BY <1>2
<1> QED
  BY <1>2, <1>3 DEF Members

LEMMA RunRing ==
    ASSUME ChangeType, A_Run
    PROVE  /\ queue \in Seq(Task) /\ Len(queue) \in Nat /\ Len(queue) >= 3
           /\ queue[Len(queue)] = "I_Task"
           /\ \A m \in 1..(Len(queue) - 1) :
                 /\ queue[m] \in {"L_Task_SA", "H_Task_SA"} \cup load
                 /\ queue[m] # "I_Task"
                 /\ prio[queue[m]] = prio["L_Task_SA"]
<1>1. queue \in Seq(Task) /\ Len(queue) \in Nat /\ Len(queue) >= 3 /\ queue[Len(queue)] = "I_Task" /\ load \subseteq Dummies
  BY DEF ChangeType, A_Run
<1>2. ASSUME NEW m \in 1..(Len(queue) - 1)
      PROVE  queue[m] \in {"L_Task_SA", "H_Task_SA"} \cup load /\ queue[m] # "I_Task"
  <2>1. queue[m] # queue[Len(queue)]
    BY <1>1 DEF A_Run, Distinct
  <2>2. queue[m] \in Members(queue)
    BY <1>1 DEF Members
  <2> QED
    BY <1>1, <2>1, <2>2 DEF A_Run
<1> QED
  BY <1>1, <1>2, ThreadFacts

LEMMA RunYield ==
    ASSUME ChangeType, A_Run, Yield
    PROVE  /\ queue' \in Seq(Task) /\ Len(queue') = Len(queue) /\ Len(queue) \in Nat /\ Len(queue) >= 3
           /\ queue'[Len(queue)] = "I_Task" /\ queue'[Len(queue) - 1] = queue[1]
           /\ \A m \in 1..(Len(queue) - 2) : queue'[m] = queue[m + 1]
           /\ Distinct(queue') /\ Members(queue') = Members(queue)
           /\ waiting' = waiting /\ suspended' = suspended
<1> DEFINE r == Insert(Tail(queue), Head(queue))
<1>1. queue \in Seq(Task) /\ Len(queue) \in Nat /\ Len(queue) >= 3 /\ queue[Len(queue)] = "I_Task"
  BY RunRing
<1>2. \A m \in 1..(Len(queue) - 1) : queue[m] # "I_Task" /\ prio[queue[m]] = prio[queue[1]]
  BY RunRing, <1>1
<1>3. /\ r \in Seq(Task) /\ Len(r) = Len(queue) /\ r[Len(queue)] = "I_Task"
      /\ r[Len(queue) - 1] = queue[1]
      /\ \A m \in 1..(Len(queue) - 2) : r[m] = queue[m + 1]
  BY <1>1, <1>2, RotationIs
<1>4. queue' = r /\ waiting' = waiting /\ suspended' = suspended
  BY DEF Yield
<1> HIDE DEF r
<1>5. Distinct(r) /\ Members(r) = Members(queue)
  BY <1>1, <1>3, RotationKeeps DEF A_Run
<1> QED
  BY <1>1, <1>3, <1>4, <1>5

\* A thread of scenario A takes its turn in the ring.
LEMMA RunTurn ==
    ASSUME ChangeType, A_Run, Yield, ChangeType', load' = load,
           NEW t \in {"L_Task_SA", "H_Task_SA"} \cup load, \A u \in Task : u # t => pc'[u] = pc[u],
           pc'["L_Task_SA"] = "yield", pc'["H_Task_SA"] \in {"yield", "stop"},
           \A d \in load : pc'[d] = "close",
           window' \in {"closed", "scenario_a"},
           NEW p \in 1..(Len(queue) - 1), Follows(p)'
    PROVE  A_Run'
<1>1. pc'["I_Task"] = "abort_high_sa"
  BY ThreadFacts DEF A_Run, ChangeType, MainTasks
<1>2. /\ Len(queue') = Len(queue) /\ queue'[Len(queue)] = "I_Task" /\ Len(queue) >= 3
      /\ Distinct(queue') /\ Members(queue') = Members(queue)
      /\ waiting' = waiting /\ suspended' = suspended
  BY RunYield
<1>3. Members(queue') = {"L_Task_SA", "H_Task_SA", "I_Task"} \cup load'
  BY <1>2 DEF A_Run
<1>4. \E k \in 1..(Len(queue') - 1) : Follows(k)'
  BY <1>2
<1> QED
  BY <1>1, <1>2, <1>3, <1>4 DEF A_Run, Distinct

-----------------------------------------------------------------------------
\* L_Task_SA

LEMMA LowSA_WaitStartKeeps == ASSUME ChangeInv, LowSA_WaitStart PROVE ChangeInv'
<1>1. ChangeType /\ Runs("L_Task_SA") /\ pc["L_Task_SA"] = "wait_start"
  BY DEF ChangeInv, LowSA_WaitStart, Step
<1>2. /\ samples["scenario_b"] = 0 /\ pc["Task_SB"] = "yield"
      /\ window = "closed" /\ samples["scenario_a"] = 0 /\ suspended = {}
      /\ pc["I_Task"] = "create_high_sa" /\ Fresh({"H_Task_SA"} \cup load)
      /\ queue = <<"L_Task_SA", "I_Task">> /\ waiting = <<>>
  <2>1. ~A_Gather
    BY <1>1 DEF A_Gather
  <2>2. ~A_Run /\ ~A_Clear /\ ~ChangeB
    BY <1>1 DEF A_Run, A_Clear, ChangeB, Runs
  <2>3. ~A_Over
    BY <1>1 DEF A_Over, Members, Runs
  <2> QED
    BY <1>1, <2>1, <2>2, <2>3 DEF ChangeInv, ChangeA, A_Setup, Runs
<1>3. queue' = <<"I_Task">> /\ waiting' = <<"L_Task_SA">> /\ suspended' = {}
      /\ queue' \in Seq(Task) /\ waiting' \in Seq(Task)
  BY <1>1, <1>2, ThreadFacts, WaitStartIs DEF LowSA_WaitStart
<1>4. window' = window /\ samples' = samples
  BY DEF LowSA_WaitStart, NoSample
<1>5. /\ ChangeType' /\ pc'["L_Task_SA"] = "yield" /\ load' = load
      /\ \A u \in Task : u # "L_Task_SA" => pc'[u] = pc[u]
  BY <1>1, <1>3, <1>4, StepType, ThreadFacts, LabelFacts DEF LowSA_WaitStart, ChangeType
<1>6. pc'["I_Task"] = pc["I_Task"] /\ pc'["Task_SB"] = pc["Task_SB"]
  BY <1>5, ThreadFacts
<1>7. Fresh({"H_Task_SA"} \cup load)'
  BY <1>1, <1>2, <1>5, ThreadFacts DEF Fresh, ChangeType, MainTasks
<1> QED
  BY <1>2, <1>3, <1>4, <1>5, <1>6, <1>7 DEF ChangeInv, ChangeA, A_Setup

\* Who is a thread of the ring, and where L_Task_SA and H_Task_SA are.
LEMMA RingPlaces ==
    ASSUME ChangeType, A_Run, NEW p \in 1..(Len(queue) - 1), Follows(p)
    PROVE  /\ queue[1] = "L_Task_SA" => p = 1 /\ queue[2] = "H_Task_SA"
           /\ queue[1] = "H_Task_SA" => p = Len(queue) - 1
           /\ queue[1] \in load => p \in 2..(Len(queue) - 2) /\ queue[p + 1] = "H_Task_SA"
           /\ p = 1 => samples["scenario_a"] < MEASUREMENT_COUNT
<1>1. /\ queue \in Seq(Task) /\ Len(queue) \in Nat /\ Len(queue) >= 3
      /\ queue[Len(queue)] = "I_Task" /\ Distinct(queue)
  BY RunRing DEF A_Run
<1>2. /\ queue[p] = "L_Task_SA"
      /\ p = Len(queue) - 1 => queue[1] = "H_Task_SA"
      /\ p # Len(queue) - 1 => queue[p + 1] = "H_Task_SA"
  BY DEF Follows
<1>3. "L_Task_SA" \notin load /\ "H_Task_SA" \notin load
  BY ThreadFacts DEF ChangeType, MainTasks
<1>4. queue[1] = "L_Task_SA" => p = 1 /\ queue[2] = "H_Task_SA"
  BY <1>1, <1>2 DEF Distinct
<1>5. queue[1] = "H_Task_SA" => p = Len(queue) - 1
  BY <1>1, <1>2 DEF Distinct
<1>6. queue[1] \in load => p \in 2..(Len(queue) - 2) /\ queue[p + 1] = "H_Task_SA"
  BY <1>1, <1>2, <1>3
<1>7. p = 1 => samples["scenario_a"] < MEASUREMENT_COUNT
  <2> SUFFICES ASSUME p = 1, ~(samples["scenario_a"] < MEASUREMENT_COUNT) PROVE FALSE
    OBVIOUS
  <2>1. load # {} /\ Len(queue) = 3
    BY <1>1 DEF Follows
  <2>2. PICK d \in load : TRUE
    BY <2>1
  <2>3. d \in Members(queue)
    BY <2>2 DEF A_Run
  <2>4. PICK m \in 1..3 : queue[m] = d
    BY <2>1, <2>3 DEF Members
  <2>5. queue[1] = "L_Task_SA" /\ queue[2] = "H_Task_SA" /\ queue[3] = "I_Task"
    BY <1>1, <1>2, <2>1
  <2>6. d \notin MainTasks
    BY <2>2, ThreadFacts DEF ChangeType
  <2> QED
    BY <2>4, <2>5, <2>6 DEF MainTasks
<1> QED
  BY <1>4, <1>5, <1>6, <1>7

LEMMA LowSA_YieldKeeps == ASSUME ChangeInv, LowSA_Yield PROVE ChangeInv'
<1>1. ChangeType /\ Runs("L_Task_SA") /\ pc["L_Task_SA"] = "yield" /\ "L_Task_SA" \notin Dummies
  BY ThreadFacts DEF ChangeInv, LowSA_Yield, Step, MainTasks
<1>2. A_Run /\ samples["scenario_b"] = 0 /\ pc["Task_SB"] = "yield"
  <2>1. ~A_Setup
    BY <1>1 DEF A_Setup, A_Gather, Runs, Fresh, ChangeType
  <2>2. ~A_Clear /\ ~ChangeB
    BY <1>1 DEF A_Clear, ChangeB, Runs
  <2>3. ~A_Over
    BY <1>1 DEF A_Over, Members, Runs
  <2> QED
    BY <2>1, <2>2, <2>3 DEF ChangeInv, ChangeA
<1>3. Yield /\ window' = "scenario_a" /\ samples' = samples /\ Step("L_Task_SA", "yield", "yield")
  BY DEF LowSA_Yield
<1>4. /\ queue' \in Seq(Task) /\ Len(queue') = Len(queue) /\ Len(queue) \in Nat /\ Len(queue) >= 3
      /\ queue'[Len(queue) - 1] = queue[1] /\ queue'[1] = queue[2]
      /\ waiting' = waiting /\ suspended' = suspended
  BY <1>1, <1>2, <1>3, RunYield
<1>5. /\ ChangeType' /\ pc'["L_Task_SA"] = "yield" /\ load' = load /\ queue[1] = "L_Task_SA"
      /\ \A u \in Task : u # "L_Task_SA" => pc'[u] = pc[u]
  BY <1>1, <1>3, <1>4, StepType, ThreadFacts, LabelFacts DEF ChangeType, ChangeSeries
<1>6. PICK p \in 1..(Len(queue) - 1) : Follows(p)
  BY <1>2 DEF A_Run
<1>7. p = 1 /\ queue[2] = "H_Task_SA" /\ samples["scenario_a"] < MEASUREMENT_COUNT
  BY <1>1, <1>2, <1>5, <1>6, RingPlaces
<1>8. Follows(Len(queue) - 1)'
  BY <1>3, <1>4, <1>5, <1>7 DEF Follows
<1>9. pc'["H_Task_SA"] \in {"yield", "stop"} /\ \A d \in load : pc'[d] = "close"
  BY <1>1, <1>2, <1>5, ThreadFacts DEF A_Run, ChangeType
<1>10. A_Run'
  BY <1>1, <1>2, <1>3, <1>4, <1>5, <1>8, <1>9, RunTurn
<1>11. samples'["scenario_b"] = 0 /\ pc'["Task_SB"] = "yield"
  BY <1>2, <1>3, <1>5, ThreadFacts
<1> QED
  BY <1>5, <1>10, <1>11 DEF ChangeInv, ChangeA

-----------------------------------------------------------------------------
\* H_Task_SA

LEMMA HighSA_WaitStartKeeps == ASSUME ChangeInv, HighSA_WaitStart PROVE ChangeInv'
<1>1. ChangeType /\ Runs("H_Task_SA") /\ pc["H_Task_SA"] = "wait_start" /\ "H_Task_SA" \notin Dummies
  BY ThreadFacts DEF ChangeInv, HighSA_WaitStart, Step, MainTasks
<1>2. /\ samples["scenario_b"] = 0 /\ pc["Task_SB"] = "yield"
      /\ window = "closed" /\ samples["scenario_a"] = 0 /\ suspended = {}
      /\ pc["I_Task"] = "post_start" /\ Fresh({"H_Task_SA"} \cup load)
      /\ queue = <<"H_Task_SA", "I_Task">> /\ waiting = <<"L_Task_SA">>
      /\ pc["L_Task_SA"] = "yield"
  <2>1. ~A_Gather
    BY <1>1 DEF A_Gather
  <2>2. ~A_Run /\ ~A_Clear /\ ~ChangeB
    BY <1>1 DEF A_Run, A_Clear, ChangeB, Runs
  <2>3. ~A_Over
    BY <1>1 DEF A_Over, Members, Runs, ChangeType
  <2> QED
    BY <1>1, <2>1, <2>2, <2>3 DEF ChangeInv, ChangeA, A_Setup, Runs
<1>3. queue' = <<"I_Task">> /\ waiting' = <<"L_Task_SA", "H_Task_SA">> /\ suspended' = {}
      /\ queue' \in Seq(Task) /\ waiting' \in Seq(Task)
  BY <1>1, <1>2, ThreadFacts, WaitStartIs DEF HighSA_WaitStart
<1>4. window' = window /\ samples' = samples
  BY DEF HighSA_WaitStart, NoSample
<1>5. /\ ChangeType' /\ pc'["H_Task_SA"] = "yield" /\ load' = load
      /\ \A u \in Task : u # "H_Task_SA" => pc'[u] = pc[u]
  BY <1>1, <1>3, <1>4, StepType, ThreadFacts, LabelFacts DEF HighSA_WaitStart, ChangeType
<1>6. /\ pc'["I_Task"] = pc["I_Task"] /\ pc'["Task_SB"] = pc["Task_SB"]
      /\ pc'["L_Task_SA"] = pc["L_Task_SA"]
  BY <1>5, ThreadFacts
<1>7. \A d \in load : pc'[d] = "wait_start"
  BY <1>1, <1>2, <1>5, ThreadFacts DEF Fresh, ChangeType, MainTasks
<1>8. A_Gather'
  <2>1. Len(waiting') = 2 /\ waiting'[1] = "L_Task_SA" /\ waiting'[2] = "H_Task_SA"
    BY <1>3
  <2>2. Distinct(waiting') /\ Members(waiting') = {"L_Task_SA", "H_Task_SA"}
    BY <2>1 DEF Distinct, Members
  <2>3. {d \in load : pc'[d] = "close"} = {}
    BY <1>7
  <2> QED
    BY <1>2, <1>3, <1>5, <1>6, <1>7, <2>1, <2>2, <2>3 DEF A_Gather, Distinct
<1> QED
  BY <1>2, <1>3, <1>4, <1>5, <1>6, <1>8 DEF ChangeInv, ChangeA, A_Setup

\* H_Task_SA runs in the ring: the window is open, L_Task_SA was the last.
LEMMA HighRuns ==
    ASSUME ChangeInv, Runs("H_Task_SA"), pc["H_Task_SA"] \in {"yield", "stop"}
    PROVE  /\ A_Run /\ samples["scenario_b"] = 0 /\ pc["Task_SB"] = "yield"
           /\ queue[Len(queue) - 1] = "L_Task_SA" /\ queue[1] = "H_Task_SA"
           /\ window = "scenario_a" /\ samples["scenario_a"] < MEASUREMENT_COUNT
<1>1. ChangeType /\ queue[1] = "H_Task_SA" /\ "H_Task_SA" \notin Dummies
  BY ThreadFacts DEF ChangeInv, Runs, MainTasks
<1>2. A_Run /\ samples["scenario_b"] = 0 /\ pc["Task_SB"] = "yield"
  <2>1. ~A_Setup
    BY <1>1 DEF A_Setup, A_Gather, Fresh, ChangeType
  <2>2. ~A_Clear /\ ~ChangeB
    BY <1>1 DEF A_Clear, ChangeB
  <2>3. ~A_Over
    BY <1>1 DEF A_Over, Members, ChangeType
  <2> QED
    BY <2>1, <2>2, <2>3 DEF ChangeInv, ChangeA
<1>3. PICK p \in 1..(Len(queue) - 1) : Follows(p)
  BY <1>2 DEF A_Run
<1>4. p = Len(queue) - 1
  BY <1>1, <1>2, <1>3, RingPlaces
<1>5. Len(queue) \in Nat
  BY <1>1 DEF ChangeType
<1> QED
  BY <1>1, <1>2, <1>3, <1>4, <1>5 DEF Follows

LEMMA HighSA_YieldKeeps == ASSUME ChangeInv, HighSA_Yield PROVE ChangeInv'
<1>1. ChangeType /\ Runs("H_Task_SA") /\ pc["H_Task_SA"] = "yield"
  BY DEF ChangeInv, HighSA_Yield, Step
<1>2. /\ A_Run /\ samples["scenario_b"] = 0 /\ pc["Task_SB"] = "yield"
      /\ queue[Len(queue) - 1] = "L_Task_SA" /\ queue[1] = "H_Task_SA"
      /\ window = "scenario_a" /\ samples["scenario_a"] < MEASUREMENT_COUNT
  BY <1>1, HighRuns
<1>3. Yield /\ window' = window /\ samples' = samples /\ Step("H_Task_SA", "yield", "stop")
  BY DEF HighSA_Yield, NoSample
<1>4. /\ queue' \in Seq(Task) /\ Len(queue') = Len(queue) /\ Len(queue) \in Nat /\ Len(queue) >= 3
      /\ queue'[Len(queue) - 1] = "H_Task_SA" /\ queue'[Len(queue) - 2] = "L_Task_SA"
      /\ waiting' = waiting /\ suspended' = suspended
  BY <1>1, <1>2, <1>3, RunYield
<1>5. /\ ChangeType' /\ pc'["H_Task_SA"] = "stop" /\ load' = load
      /\ \A u \in Task : u # "H_Task_SA" => pc'[u] = pc[u]
  BY <1>1, <1>3, <1>4, StepType, ThreadFacts, LabelFacts DEF ChangeType, ChangeSeries
<1>6. Follows(Len(queue) - 2)'
  BY <1>2, <1>3, <1>4, <1>5 DEF Follows
<1>7. pc'["L_Task_SA"] = "yield" /\ \A d \in load : pc'[d] = "close"
  BY <1>1, <1>2, <1>5, ThreadFacts DEF A_Run, ChangeType, MainTasks
<1>8. A_Run'
  <2>1. Len(queue) - 2 \in 1..(Len(queue) - 1)
    BY <1>4
  <2> QED
    BY <1>1, <1>2, <1>3, <1>4, <1>5, <1>6, <1>7, <2>1, RunTurn
<1>9. samples'["scenario_b"] = 0 /\ pc'["Task_SB"] = "yield"
  BY <1>2, <1>3, <1>5, ThreadFacts
<1> QED
  BY <1>5, <1>8, <1>9 DEF ChangeInv, ChangeA

\* The thread that is suspended is somewhere in the queue, behind the head.
LEMMA SuspendIs ==
    ASSUME ChangeType, Distinct(queue), NEW k \in 1..Len(queue), Suspend(queue[k])
    PROVE  /\ queue' \in Seq(Task) /\ Len(queue') = Len(queue) - 1 /\ Len(queue) \in Nat
           /\ \A m \in 1..(Len(queue) - 1) : queue'[m] = IF m < k THEN queue[m] ELSE queue[m + 1]
           /\ Distinct(queue') /\ Members(queue') = Members(queue) \ {queue[k]}
           /\ queue[k] \in Members(queue) /\ queue[k] \in Task
           /\ suspended' = suspended \cup {queue[k]} /\ suspended' \subseteq Task
           /\ waiting' = waiting
<1>1. queue \in Seq(Task) /\ Len(queue) \in Nat /\ queue[k] \in Task /\ queue[k] \in Members(queue)
  BY DEF ChangeType, Members
<1> DEFINE r == Without(queue, queue[k])
<1>2. /\ r \in Seq(Task) /\ Len(r) = Len(queue) - 1
      /\ \A m \in 1..(Len(queue) - 1) : r[m] = IF m < k THEN queue[m] ELSE queue[m + 1]
      /\ Distinct(r) /\ Members(r) = Members(queue) \ {queue[k]}
  BY <1>1, WithoutIs
<1> HIDE DEF r
<1>3. queue' = r /\ suspended' = suspended \cup {queue[k]} /\ waiting' = waiting
  BY DEF Suspend, r
<1> QED
  BY <1>1, <1>2, <1>3 DEF ChangeType

LEMMA SuspendNone ==
    ASSUME ChangeType, NEW t \in suspended, t \notin Members(queue), Suspend(t)
    PROVE  queue' = queue /\ suspended' = suspended /\ waiting' = waiting
BY WithoutAbsent DEF Suspend, ChangeType

LEMMA HighSA_StopKeeps == ASSUME ChangeInv, HighSA_Stop PROVE ChangeInv'
<1>1. ChangeType /\ Runs("H_Task_SA") /\ pc["H_Task_SA"] = "stop"
  BY DEF ChangeInv, HighSA_Stop, Step
<1>2. /\ A_Run /\ samples["scenario_b"] = 0 /\ pc["Task_SB"] = "yield"
      /\ queue[Len(queue) - 1] = "L_Task_SA" /\ queue[1] = "H_Task_SA"
      /\ window = "scenario_a" /\ samples["scenario_a"] < MEASUREMENT_COUNT
  BY <1>1, HighRuns
<1>3. /\ window' = IF load = {} THEN "closed" ELSE window
      /\ samples' \in [ChangeSeries -> Nat] /\ samples'["scenario_a"] = samples["scenario_a"] + 1
      /\ samples'["scenario_b"] = 0 /\ samples'["scenario_a"] <= MEASUREMENT_COUNT
  BY <1>1, <1>2, CountAssumption DEF HighSA_Stop, ChangeType, ChangeSeries
<1>4. /\ queue \in Seq(Task) /\ Len(queue) \in Nat /\ Len(queue) >= 3 /\ Distinct(queue)
      /\ queue[Len(queue)] = "I_Task"
  BY <1>1, <1>2, RunRing DEF A_Run
<1>5. CASE load = {} /\ samples'["scenario_a"] >= MEASUREMENT_COUNT
  <2>1. Step("H_Task_SA", "stop", "suspend") /\ Suspend("L_Task_SA")
    BY <1>5, <1>3, CountAssumption DEF HighSA_Stop, ChangeType
  <2>2. /\ queue' \in Seq(Task) /\ Len(queue') = Len(queue) - 1 /\ queue'[1] = "H_Task_SA"
        /\ queue'[Len(queue) - 1] = "I_Task"
        /\ Distinct(queue') /\ Members(queue') = Members(queue) \ {"L_Task_SA"}
        /\ suspended' = {"L_Task_SA"} /\ suspended' \subseteq Task /\ waiting' = <<>>
    BY <1>1, <1>2, <1>4, <2>1, SuspendIs DEF A_Run
  <2>3. waiting' \in Seq(Task) /\ window' = "closed"
    BY <1>5, <1>3, <2>2
  <2>4. /\ ChangeType' /\ pc'["H_Task_SA"] = "suspend" /\ load' = load
        /\ \A u \in Task : u # "H_Task_SA" => pc'[u] = pc[u]
    BY <1>1, <1>3, <2>1, <2>2, <2>3, StepType, ThreadFacts, LabelFacts
  <2>5. pc'["I_Task"] = "abort_high_sa" /\ pc'["Task_SB"] = "yield"
    BY <1>2, <2>4, ThreadFacts DEF A_Run
  <2>6. samples'["scenario_a"] = MEASUREMENT_COUNT
    BY <1>3, <1>5, CountAssumption DEF ChangeSeries
  <2>7. A_Over'
    BY <1>2, <1>4, <1>5, <2>2, <2>3, <2>4, <2>5, <2>6 DEF A_Over, A_Run, Distinct
  <2> QED
    BY <1>3, <2>4, <2>5, <2>7 DEF ChangeInv, ChangeA
<1>6. CASE load # {} \/ samples'["scenario_a"] < MEASUREMENT_COUNT
  <2>1. Step("H_Task_SA", "stop", "stop") /\ Yield
    BY <1>6, <1>3, CountAssumption DEF HighSA_Stop, ChangeType, ChangeSeries
  <2>2. /\ queue' \in Seq(Task) /\ Len(queue') = Len(queue)
        /\ queue'[Len(queue) - 1] = "H_Task_SA" /\ queue'[Len(queue) - 2] = "L_Task_SA"
        /\ waiting' = waiting /\ suspended' = suspended
    BY <1>1, <1>2, <1>4, <2>1, RunYield
  <2>3. window' \in {"closed", "scenario_a"}
    BY <1>2, <1>3
  <2>4. /\ ChangeType' /\ pc'["H_Task_SA"] = "stop" /\ load' = load
        /\ \A u \in Task : u # "H_Task_SA" => pc'[u] = pc[u]
    BY <1>1, <1>3, <2>1, <2>2, <2>3, StepType, ThreadFacts, LabelFacts DEF ChangeType, ChangeSeries
  <2>5. PICK p \in 1..(Len(queue) - 1) : p = Len(queue) - 2
    <3>1. Len(queue) - 2 \in 1..(Len(queue) - 1)
      BY <1>4
    <3> QED
      BY <3>1
  <2>6. pc'["L_Task_SA"] = "yield" /\ \A d \in load : pc'[d] = "close"
    BY <1>1, <1>2, <2>4, ThreadFacts DEF A_Run, ChangeType, MainTasks
  <2>7. Follows(p)'
    <3>1. \/ samples'["scenario_a"] < MEASUREMENT_COUNT
          \/ samples'["scenario_a"] = MEASUREMENT_COUNT /\ load # {}
      BY <1>3, <1>6, CountAssumption DEF ChangeSeries
    <3> QED
      BY <1>4, <2>2, <2>4, <2>5, <3>1 DEF Follows
  <2>8. A_Run'
    BY ONLY <1>1, <1>2, <2>1, <2>3, <2>4, <2>6, <2>7, RunTurn
  <2>9. pc'["Task_SB"] = "yield"
    BY <1>2, <2>4, ThreadFacts
  <2> QED
    BY <1>3, <2>4, <2>8, <2>9 DEF ChangeInv, ChangeA
<1>7. samples'["scenario_a"] \in Nat
  BY <1>3 DEF ChangeSeries
<1> QED
  BY <1>5, <1>6, <1>7, CountAssumption

\* When the series is over, what runs suspends itself last.
LEMMA HighSA_SuspendKeeps == ASSUME ChangeInv, HighSA_Suspend PROVE ChangeInv'
<1>1. ChangeType /\ queue[1] = "H_Task_SA" /\ pc["H_Task_SA"] = "suspend" /\ "H_Task_SA" \notin Dummies
      /\ Len(queue) >= 1
  BY ThreadFacts DEF ChangeInv, HighSA_Suspend, Step, Runs, MainTasks, ChangeType
<1>2. A_Over /\ samples["scenario_b"] = 0 /\ pc["Task_SB"] = "yield"
  <2>1. ~A_Setup
    BY <1>1 DEF A_Setup, A_Gather, Fresh, ChangeType
  <2>2. ~A_Clear /\ ~ChangeB /\ ~A_Run
    BY <1>1 DEF A_Clear, ChangeB, A_Run
  <2> QED
    BY <2>1, <2>2 DEF ChangeInv, ChangeA
<1>3. load = {}
  BY <1>1, <1>2 DEF A_Over, Members, ChangeType
<1>4. Suspend(queue[1]) /\ window' = window /\ samples' = samples /\ Step("H_Task_SA", "suspend", "yield")
  BY <1>1 DEF HighSA_Suspend, NoSample
<1>5. /\ queue' \in Seq(Task) /\ Len(queue') = Len(queue) - 1 /\ Len(queue) \in Nat
      /\ \A m \in 1..(Len(queue) - 1) : queue'[m] = queue[m + 1]
      /\ Distinct(queue') /\ Members(queue') = Members(queue) \ {"H_Task_SA"}
      /\ "H_Task_SA" \in Members(queue)
      /\ suspended' = suspended \cup {"H_Task_SA"} /\ suspended' \subseteq Task
      /\ waiting' = waiting
  <2>1. Distinct(queue) /\ 1 \in 1..Len(queue)
    BY <1>1, <1>2 DEF A_Over, ChangeType
  <2> QED
    BY <1>1, <1>4, <2>1, SuspendIs
<1>6. /\ ChangeType' /\ load' = load
      /\ \A u \in Task : u # "H_Task_SA" => pc'[u] = pc[u]
  BY <1>1, <1>4, <1>5, StepType, ThreadFacts, LabelFacts DEF ChangeType
<1>7. Len(queue') >= 1 /\ queue'[Len(queue')] = "I_Task"
  BY <1>1, <1>2, <1>5 DEF A_Over
<1>8. pc'["I_Task"] = "abort_high_sa" /\ pc'["Task_SB"] = "yield"
  BY <1>2, <1>6, ThreadFacts DEF A_Over
<1>9. A_Over'
  BY <1>2, <1>3, <1>4, <1>5, <1>6, <1>7, <1>8 DEF A_Over, Distinct
<1> QED
  BY <1>2, <1>4, <1>6, <1>8, <1>9 DEF ChangeInv, ChangeA

-----------------------------------------------------------------------------
\* The dummies

LEMMA Dummy_WaitStartKeeps ==
    ASSUME ChangeInv, NEW d \in Dummies, Dummy_WaitStart(d) PROVE ChangeInv'
<1>1. ChangeType /\ Runs(d) /\ pc[d] = "wait_start" /\ d \notin MainTasks /\ d \in Task
  BY ThreadFacts DEF ChangeInv, Dummy_WaitStart, Step
<1>2. /\ samples["scenario_b"] = 0 /\ pc["Task_SB"] = "yield"
      /\ window = "closed" /\ samples["scenario_a"] = 0 /\ suspended = {}
      /\ pc["I_Task"] = "post_start" /\ A_Gather
  <2>1. ~A_Run
    BY <1>1 DEF A_Run, Members, Runs, ChangeType, MainTasks
  <2>2. ~A_Clear /\ ~ChangeB
    BY <1>1 DEF A_Clear, ChangeB, Runs, MainTasks
  <2>3. ~A_Over
    BY <1>1 DEF A_Over, Members, Runs, ChangeType, MainTasks
  <2> QED
    BY <1>1, <2>1, <2>2, <2>3 DEF ChangeInv, ChangeA, A_Setup, Runs, MainTasks
<1>3. d \in load /\ queue = <<d, "I_Task">>
  BY <1>1, <1>2 DEF A_Gather, Runs, MainTasks
<1>4. queue' = <<"I_Task">> /\ waiting' = Append(waiting, d) /\ suspended' = {}
      /\ queue' \in Seq(Task) /\ waiting' \in Seq(Task)
  BY <1>1, <1>2, <1>3, WaitStartIs DEF Dummy_WaitStart
<1>5. window' = window /\ samples' = samples
  BY DEF Dummy_WaitStart, NoSample
<1>6. /\ ChangeType' /\ pc'[d] = "close" /\ load' = load
      /\ \A u \in Task : u # d => pc'[u] = pc[u]
  BY <1>1, <1>4, <1>5, StepType, ThreadFacts, LabelFacts DEF Dummy_WaitStart, ChangeType
<1>7. /\ pc'["I_Task"] = "post_start" /\ pc'["Task_SB"] = "yield"
      /\ pc'["L_Task_SA"] = "yield" /\ pc'["H_Task_SA"] = "yield"
  BY <1>1, <1>2, <1>6, ThreadFacts DEF A_Gather, MainTasks
<1>8. d \notin Members(waiting)
  BY <1>1, <1>2 DEF A_Gather, MainTasks
<1>9. /\ waiting \in Seq(Task) /\ Len(waiting) \in Nat /\ Len(waiting') = Len(waiting) + 1
      /\ \A m \in 1..Len(waiting) : waiting'[m] = waiting[m]
      /\ waiting'[Len(waiting) + 1] = d
  BY <1>1, <1>4 DEF ChangeType
<1>10. Distinct(waiting') /\ Members(waiting') = Members(waiting) \cup {d}
  <2>1. Distinct(waiting)
    BY <1>2 DEF A_Gather
  <2>2. \A m \in 1..Len(waiting) : waiting[m] # d
    BY <1>8 DEF Members
  <2>3. Distinct(waiting')
    BY ONLY <1>9, <2>1, <2>2 DEF Distinct
  <2>4. ASSUME NEW x PROVE x \in Members(waiting') <=> x \in Members(waiting) \cup {d}
    BY ONLY <1>9 DEF Members
  <2> QED
    BY <2>3, <2>4
<1>11. A_Gather'
  <2>1. {e \in load : pc'[e] = "close"} = {e \in load : pc[e] = "close"} \cup {d}
    BY <1>1, <1>3, <1>6, ThreadFacts DEF ChangeType
  <2>2. Members(waiting') = {"L_Task_SA", "H_Task_SA"} \cup {e \in load' : pc'[e] = "close"}
    BY <1>2, <1>6, <1>10, <2>1 DEF A_Gather
  <2>3. \A e \in load' : pc'[e] \in {"wait_start", "close"}
    BY <1>1, <1>2, <1>6, ThreadFacts DEF A_Gather, ChangeType
  <2>4. Len(waiting') >= 2 /\ waiting'[1] = "L_Task_SA" /\ waiting'[2] = "H_Task_SA"
    BY <1>2, <1>9 DEF A_Gather
  <2> QED
    BY <1>4, <1>7, <1>10, <2>2, <2>3, <2>4 DEF A_Gather, Distinct
<1> QED
  BY <1>2, <1>4, <1>5, <1>6, <1>7, <1>11 DEF ChangeInv, ChangeA, A_Setup

\* A dummy runs in the ring, or when the series is complete.
LEMMA DummyRuns ==
    ASSUME ChangeInv, NEW d \in Dummies, Runs(d), pc[d] # "wait_start"
    PROVE  /\ d \in load /\ d \notin MainTasks /\ d \in Task /\ queue[1] = d /\ Len(queue) >= 1
           /\ A_Run \/ A_Over
           /\ ChangeType /\ Distinct(queue)
           /\ samples["scenario_b"] = 0 /\ pc["Task_SB"] = "yield" /\ pc["I_Task"] = "abort_high_sa"
<1>1. ChangeType /\ queue[1] = d /\ d \notin MainTasks /\ d \in Task /\ Len(queue) >= 1
  BY ThreadFacts DEF ChangeInv, Runs, ChangeType
<1>2. ~A_Setup
  BY <1>1 DEF A_Setup, A_Gather, MainTasks
<1>3. ~A_Clear /\ ~ChangeB
  BY <1>1 DEF A_Clear, ChangeB, MainTasks
<1>4. /\ A_Run \/ A_Over
      /\ samples["scenario_b"] = 0 /\ pc["Task_SB"] = "yield" /\ pc["I_Task"] = "abort_high_sa"
  BY <1>2, <1>3 DEF ChangeInv, ChangeA, A_Run, A_Over
<1>5. d \in Members(queue) /\ Distinct(queue)
  BY <1>1, <1>4 DEF Members, A_Run, A_Over, ChangeType
<1>6. d \in load
  BY <1>1, <1>4, <1>5 DEF A_Run, A_Over, MainTasks
<1> QED
  BY <1>1, <1>4, <1>5, <1>6

LEMMA Dummy_CloseKeeps == ASSUME ChangeInv, NEW d \in Dummies, Dummy_Close(d) PROVE ChangeInv'
<1>1. Runs(d) /\ pc[d] = "close"
  BY DEF Dummy_Close, Step
<1>2. /\ d \in load /\ d \notin MainTasks /\ d \in Task /\ queue[1] = d /\ Len(queue) >= 1
      /\ A_Run \/ A_Over
      /\ ChangeType /\ Distinct(queue)
      /\ samples["scenario_b"] = 0 /\ pc["Task_SB"] = "yield" /\ pc["I_Task"] = "abort_high_sa"
  BY <1>1, DummyRuns
<1>3. samples' = samples /\ window' = IF window = "scenario_a" THEN "closed" ELSE window
  BY DEF Dummy_Close
<1>4. window \in {"closed", "scenario_a"} /\ window' = "closed"
  BY <1>2, <1>3 DEF A_Run, A_Over
<1>5. samples["scenario_a"] \in Nat /\ MEASUREMENT_COUNT \in Nat
  BY <1>2, CountAssumption DEF ChangeType, ChangeSeries
<1>6. CASE samples["scenario_a"] < MEASUREMENT_COUNT
  <2>1. Step(d, "close", "close") /\ Yield /\ A_Run
    BY <1>2, <1>5, <1>6 DEF Dummy_Close, A_Over
  <2>2. PICK k \in 1..(Len(queue) - 1) : Follows(k)
    BY <2>1 DEF A_Run
  <2>3. k \in 2..(Len(queue) - 2) /\ queue[k + 1] = "H_Task_SA" /\ queue[k] = "L_Task_SA"
    BY <1>2, <2>1, <2>2, RingPlaces DEF Follows
  <2>4. /\ queue' \in Seq(Task) /\ Len(queue') = Len(queue) /\ Len(queue) \in Nat /\ Len(queue) >= 3
        /\ \A m \in 1..(Len(queue) - 2) : queue'[m] = queue[m + 1]
        /\ waiting' = waiting /\ suspended' = suspended
    BY <1>2, <2>1, RunYield
  <2>5. /\ ChangeType' /\ pc'[d] = "close" /\ load' = load
        /\ \A u \in Task : u # d => pc'[u] = pc[u]
    <3>1. /\ waiting' \in Seq(Task) /\ suspended' \subseteq Task
          /\ window' \in ChangeSeries \cup {"closed"} /\ samples' \in [ChangeSeries -> Nat]
      BY <1>2, <1>3, <1>4, <2>4 DEF ChangeType
    <3>2. ChangeType /\ d \in Task /\ "close" \in Labels /\ queue' \in Seq(Task)
      BY <1>2, <2>4, LabelFacts
    <3> QED
      BY ONLY <2>1, <3>1, <3>2, StepType
  <2>6. PICK p \in 1..(Len(queue) - 1) : p = k - 1
    <3>1. k - 1 \in 1..(Len(queue) - 1)
      BY <2>3, <2>4
    <3> QED
      BY <3>1
  <2>7. Follows(p)'
    <3>1. queue'[p] = "L_Task_SA" /\ queue'[p + 1] = "H_Task_SA" /\ p # Len(queue') - 1
      BY <2>3, <2>4, <2>6
    <3> QED
      BY <1>3, <1>6, <3>1 DEF Follows
  <2>8. /\ pc'["L_Task_SA"] = "yield" /\ pc'["H_Task_SA"] \in {"yield", "stop"}
        /\ \A e \in load : pc'[e] = "close"
    BY <1>2, <2>1, <2>5, ThreadFacts DEF A_Run, ChangeType, MainTasks
  <2>9. A_Run'
    BY ONLY <1>2, <1>4, <2>1, <2>5, <2>7, <2>8, RunTurn
  <2>10. pc'["Task_SB"] = "yield"
    BY <1>2, <2>5, ThreadFacts DEF MainTasks
  <2> QED
    BY <1>2, <1>3, <2>5, <2>9, <2>10 DEF ChangeInv, ChangeA
<1>7. CASE samples["scenario_a"] >= MEASUREMENT_COUNT
  <2>1. Step(d, "close", "suspend_high") /\ Suspend("L_Task_SA")
    BY <1>5, <1>7 DEF Dummy_Close
  <2>2. /\ samples["scenario_a"] = MEASUREMENT_COUNT
        /\ Len(queue) \in Nat /\ queue[Len(queue)] = "I_Task" /\ waiting = <<>>
    BY <1>2, <1>5, <1>7 DEF A_Over, A_Run, Follows, ChangeType
  <2>3. /\ queue' \in Seq(Task) /\ Len(queue') >= 1 /\ Len(queue') \in Nat /\ queue'[1] = d
        /\ queue'[Len(queue')] = "I_Task" /\ Distinct(queue')
        /\ Members(queue') \cap suspended' = {}
        /\ Members(queue') \cup suspended' = {"L_Task_SA", "H_Task_SA", "I_Task"} \cup load
        /\ "L_Task_SA" \in suspended' /\ suspended' \subseteq Task /\ waiting' = <<>>
    <3>1. CASE A_Over
      <4>1. "L_Task_SA" \in suspended /\ "L_Task_SA" \notin Members(queue)
        BY <3>1 DEF A_Over
      <4>2. queue' = queue /\ suspended' = suspended /\ waiting' = waiting
        BY <1>2, <2>1, <4>1, SuspendNone
      <4> QED
        BY <1>2, <2>2, <3>1, <4>2 DEF A_Over, ChangeType
    <3>2. CASE A_Run
      <4>1. PICK k \in 1..(Len(queue) - 1) : Follows(k)
        BY <3>2 DEF A_Run
      <4>2. k \in 2..(Len(queue) - 2) /\ queue[k] = "L_Task_SA" /\ k \in 1..Len(queue)
        BY <1>2, <2>2, <3>2, <4>1, RingPlaces DEF Follows
      <4>3. Suspend(queue[k])
        BY <2>1, <4>2
      <4>4. /\ queue' \in Seq(Task) /\ Len(queue') = Len(queue) - 1
            /\ \A m \in 1..(Len(queue) - 1) : queue'[m] = IF m < k THEN queue[m] ELSE queue[m + 1]
            /\ Distinct(queue') /\ Members(queue') = Members(queue) \ {"L_Task_SA"}
            /\ "L_Task_SA" \in Members(queue) /\ suspended' = suspended \cup {"L_Task_SA"}
            /\ suspended' \subseteq Task /\ waiting' = waiting
        BY <1>2, <4>2, <4>3, SuspendIs
      <4>5. Len(queue') >= 1 /\ queue'[1] = d /\ queue'[Len(queue')] = "I_Task"
        BY <1>2, <2>2, <4>2, <4>4
      <4> QED
        BY <2>2, <3>2, <4>4, <4>5 DEF A_Run
    <3> QED
      BY <1>2, <3>1, <3>2
  <2>4. waiting' \in Seq(Task)
    BY <2>3
  <2>5. /\ ChangeType' /\ pc'[d] = "suspend_high" /\ load' = load
        /\ \A u \in Task : u # d => pc'[u] = pc[u]
    <3>1. /\ queue' \in Seq(Task) /\ waiting' \in Seq(Task) /\ suspended' \subseteq Task
          /\ window' \in ChangeSeries \cup {"closed"} /\ samples' \in [ChangeSeries -> Nat]
      BY <1>2, <1>3, <1>4, <2>3, <2>4 DEF ChangeType
    <3>2. ChangeType /\ d \in Task /\ {"close", "suspend_high"} \subseteq Labels
      BY <1>2, LabelFacts
    <3> QED
      BY ONLY <2>1, <3>1, <3>2, StepType
  <2>6. pc'["I_Task"] = "abort_high_sa" /\ pc'["Task_SB"] = "yield"
    BY <1>2, <2>5, ThreadFacts DEF MainTasks
  <2>7. \A e \in load : pc'[e] \in {"close", "suspend_high", "suspend", "yield"}
    BY <1>2, <2>5, ThreadFacts DEF A_Run, A_Over, ChangeType
  <2>8. A_Over'
    BY <1>2, <1>3, <1>4, <2>2, <2>3, <2>5, <2>6, <2>7 DEF A_Over, Distinct
  <2> QED
    BY <1>2, <1>3, <2>5, <2>6, <2>8 DEF ChangeInv, ChangeA
<1> QED
  BY <1>5, <1>6, <1>7

\* The thread that runs when the series is complete suspends a thread.
LEMMA OverSuspend ==
    ASSUME ChangeType, A_Over, NEW t \in {"H_Task_SA"} \cup load, Suspend(t)
    PROVE  /\ queue' \in Seq(Task) /\ Len(queue') \in Nat /\ Len(queue') >= 1
           /\ queue'[Len(queue')] = "I_Task" /\ Distinct(queue')
           /\ queue[1] # t => queue'[1] = queue[1]
           /\ Members(queue') \cap suspended' = {}
           /\ Members(queue') \cup suspended' = {"L_Task_SA", "H_Task_SA", "I_Task"} \cup load
           /\ "L_Task_SA" \in suspended' /\ t \in suspended' /\ suspended \subseteq suspended'
           /\ suspended' \subseteq Task /\ waiting' = <<>> /\ waiting' \in Seq(Task)
<1>1. Len(queue) \in Nat /\ queue[Len(queue)] = "I_Task" /\ Len(queue) >= 1 /\ waiting = <<>>
      /\ queue \in Seq(Task) /\ t # "I_Task" /\ Distinct(queue)
  BY ThreadFacts DEF A_Over, ChangeType, MainTasks
<1>2. CASE t \in Members(queue)
  <2>1. PICK k \in 1..Len(queue) : queue[k] = t
    BY <1>2 DEF Members
  <2>2. k < Len(queue)
    BY <1>1, <2>1
  <2>3. Suspend(queue[k])
    BY <2>1
  <2>4. /\ queue' \in Seq(Task) /\ Len(queue') = Len(queue) - 1
        /\ \A m \in 1..(Len(queue) - 1) : queue'[m] = IF m < k THEN queue[m] ELSE queue[m + 1]
        /\ Distinct(queue') /\ Members(queue') = Members(queue) \ {t}
        /\ t \in Members(queue) /\ suspended' = suspended \cup {t}
        /\ suspended' \subseteq Task /\ waiting' = waiting
    BY <1>1, <2>1, <2>3, SuspendIs
  <2>5. Len(queue') >= 1 /\ queue'[Len(queue')] = "I_Task" /\ (queue[1] # t => queue'[1] = queue[1])
    BY <1>1, <2>1, <2>2, <2>4
  <2> QED
    BY <1>1, <2>4, <2>5 DEF A_Over
<1>3. CASE t \notin Members(queue)
  <2>1. t \in suspended
    BY <1>3 DEF A_Over
  <2>2. queue' = queue /\ suspended' = suspended /\ waiting' = waiting
    BY <1>3, <2>1, SuspendNone
  <2> QED
    BY <1>1, <2>1, <2>2 DEF A_Over, ChangeType
<1> QED
  BY <1>2, <1>3

LEMMA Dummy_SuspendHighKeeps ==
    ASSUME ChangeInv, NEW d \in Dummies, Dummy_SuspendHigh(d) PROVE ChangeInv'
<1>1. Runs(d) /\ pc[d] = "suspend_high" /\ Suspend("H_Task_SA") /\ Step(d, "suspend_high", "suspend")
      /\ window' = window /\ samples' = samples
  BY DEF Dummy_SuspendHigh, Step, NoSample
<1>2. /\ d \in load /\ d \notin MainTasks /\ d \in Task /\ queue[1] = d
      /\ A_Run \/ A_Over
      /\ ChangeType
      /\ samples["scenario_b"] = 0 /\ pc["Task_SB"] = "yield" /\ pc["I_Task"] = "abort_high_sa"
  BY <1>1, DummyRuns
<1>3. A_Over
  BY <1>1, <1>2 DEF A_Run
<1>4. /\ queue' \in Seq(Task) /\ Len(queue') \in Nat /\ Len(queue') >= 1
      /\ queue'[Len(queue')] = "I_Task" /\ Distinct(queue')
      /\ Members(queue') \cap suspended' = {}
      /\ Members(queue') \cup suspended' = {"L_Task_SA", "H_Task_SA", "I_Task"} \cup load
      /\ "L_Task_SA" \in suspended' /\ "H_Task_SA" \in suspended'
      /\ suspended' \subseteq Task /\ waiting' = <<>> /\ waiting' \in Seq(Task)
  BY <1>1, <1>2, <1>3, OverSuspend
<1>5. /\ ChangeType' /\ pc'[d] = "suspend" /\ load' = load
      /\ \A u \in Task : u # d => pc'[u] = pc[u]
  <2>1. /\ queue' \in Seq(Task) /\ waiting' \in Seq(Task) /\ suspended' \subseteq Task
        /\ window' \in ChangeSeries \cup {"closed"} /\ samples' \in [ChangeSeries -> Nat]
    BY <1>1, <1>2, <1>4 DEF ChangeType
  <2>2. ChangeType /\ d \in Task /\ {"suspend_high", "suspend"} \subseteq Labels
    BY <1>2, LabelFacts
  <2> QED
    BY ONLY <1>1, <2>1, <2>2, StepType
<1>6. pc'["I_Task"] = "abort_high_sa" /\ pc'["Task_SB"] = "yield"
  BY <1>2, <1>5, ThreadFacts DEF MainTasks
<1>7. \A e \in load : pc'[e] \in {"close", "suspend_high", "suspend", "yield"}
  BY <1>2, <1>3, <1>5, ThreadFacts DEF A_Over, ChangeType
<1>8. A_Over'
  BY <1>1, <1>3, <1>4, <1>5, <1>6, <1>7 DEF A_Over, Distinct
<1> QED
  BY <1>1, <1>2, <1>5, <1>6, <1>8 DEF ChangeInv, ChangeA

LEMMA Dummy_SuspendKeeps ==
    ASSUME ChangeInv, NEW d \in Dummies, Dummy_Suspend(d) PROVE ChangeInv'
<1>1. Runs(d) /\ pc[d] = "suspend" /\ Suspend(d) /\ Step(d, "suspend", "yield")
      /\ window' = window /\ samples' = samples
  BY DEF Dummy_Suspend, Step, NoSample
<1>2. /\ d \in load /\ d \notin MainTasks /\ d \in Task /\ queue[1] = d
      /\ A_Run \/ A_Over
      /\ ChangeType
      /\ samples["scenario_b"] = 0 /\ pc["Task_SB"] = "yield" /\ pc["I_Task"] = "abort_high_sa"
  BY <1>1, DummyRuns
<1>3. A_Over /\ "H_Task_SA" \in suspended
  BY <1>1, <1>2 DEF A_Run, A_Over, MainTasks
<1>4. /\ queue' \in Seq(Task) /\ Len(queue') \in Nat /\ Len(queue') >= 1
      /\ queue'[Len(queue')] = "I_Task" /\ Distinct(queue')
      /\ Members(queue') \cap suspended' = {}
      /\ Members(queue') \cup suspended' = {"L_Task_SA", "H_Task_SA", "I_Task"} \cup load
      /\ "L_Task_SA" \in suspended' /\ "H_Task_SA" \in suspended'
      /\ suspended' \subseteq Task /\ waiting' = <<>> /\ waiting' \in Seq(Task)
  BY <1>1, <1>2, <1>3, OverSuspend
<1>5. /\ ChangeType' /\ pc'[d] = "yield" /\ load' = load
      /\ \A u \in Task : u # d => pc'[u] = pc[u]
  <2>1. /\ queue' \in Seq(Task) /\ waiting' \in Seq(Task) /\ suspended' \subseteq Task
        /\ window' \in ChangeSeries \cup {"closed"} /\ samples' \in [ChangeSeries -> Nat]
    BY <1>1, <1>2, <1>4 DEF ChangeType
  <2>2. ChangeType /\ d \in Task /\ {"suspend", "yield"} \subseteq Labels
    BY <1>2, LabelFacts
  <2> QED
    BY ONLY <1>1, <2>1, <2>2, StepType
<1>6. pc'["I_Task"] = "abort_high_sa" /\ pc'["Task_SB"] = "yield"
  BY <1>2, <1>5, ThreadFacts DEF MainTasks
<1>7. \A e \in load : pc'[e] \in {"close", "suspend_high", "suspend", "yield"}
  BY <1>2, <1>3, <1>5, ThreadFacts DEF A_Over, ChangeType
<1>8. A_Over'
  BY <1>1, <1>3, <1>4, <1>5, <1>6, <1>7 DEF A_Over, Distinct
<1> QED
  BY <1>1, <1>2, <1>5, <1>6, <1>8 DEF ChangeInv, ChangeA

-----------------------------------------------------------------------------
\* Task_SB

LEMMA SBRuns ==
    ASSUME ChangeInv, Runs("Task_SB")
    PROVE  /\ ChangeType /\ pc["I_Task"] = "signalize" /\ waiting = <<>>
           /\ samples["scenario_a"] = MEASUREMENT_COUNT
           /\ queue = <<"Task_SB", "I_Task">> /\ suspended = {}
           /\ samples["scenario_b"] < MEASUREMENT_COUNT
           /\ \/ pc["Task_SB"] = "yield" /\ window = "closed"
              \/ pc["Task_SB"] = "stop" /\ window = "scenario_b"
<1>1. ChangeType /\ queue[1] = "Task_SB" /\ Len(queue) >= 1 /\ "Task_SB" \notin Dummies
  BY ThreadFacts DEF ChangeInv, Runs, ChangeType, MainTasks
<1>2. ~A_Setup
  BY <1>1 DEF A_Setup, A_Gather, ChangeType
<1>3. ~A_Run /\ ~A_Over /\ ~A_Clear
  <2>1. "Task_SB" \in Members(queue) /\ "Task_SB" \notin {"L_Task_SA", "H_Task_SA", "I_Task"} \cup load
    BY <1>1 DEF Members, ChangeType
  <2> QED
    BY <1>1, <2>1 DEF A_Run, A_Over, A_Clear
<1>4. ChangeB
  BY <1>2, <1>3 DEF ChangeInv, ChangeA
<1> QED
  BY <1>1, <1>4 DEF ChangeB

LEMMA SB_StepIs ==
    ASSUME ChangeType, NEW l \in {"yield", "stop"}, NEW m \in {"yield", "stop"},
           Step("Task_SB", l, m), queue' \in Seq(Task), waiting' \in Seq(Task), suspended' \subseteq Task,
           window' \in ChangeSeries \cup {"closed"}, samples' \in [ChangeSeries -> Nat]
    PROVE  ChangeType' /\ pc'["Task_SB"] = m /\ pc'["I_Task"] = pc["I_Task"]
<1>1. "Task_SB" \in Task /\ "I_Task" \in Task /\ "I_Task" # "Task_SB" /\ l \in Labels /\ m \in Labels
  BY ThreadFacts, LabelFacts
<1>2. ChangeType' /\ pc'["Task_SB"] = m /\ \A u \in Task : u # "Task_SB" => pc'[u] = pc[u]
  BY <1>1, StepType
<1> QED
  BY <1>1, <1>2

LEMMA SB_YieldKeeps == ASSUME ChangeInv, SB_Yield PROVE ChangeInv'
<1>1. /\ ChangeType /\ pc["I_Task"] = "signalize" /\ waiting = <<>>
      /\ samples["scenario_a"] = MEASUREMENT_COUNT
      /\ queue = <<"Task_SB", "I_Task">> /\ suspended = {}
      /\ samples["scenario_b"] < MEASUREMENT_COUNT
  BY SBRuns DEF SB_Yield, Step
<1>2. Step("Task_SB", "yield", "stop") /\ window' = "scenario_b" /\ samples' = samples
  BY DEF SB_Yield
<1>3. queue' = <<"Task_SB", "I_Task">> /\ waiting' = <<>> /\ suspended' = {} /\ queue' \in Seq(Task)
  <2>1. Head(queue) = "Task_SB" /\ Tail(queue) = <<"I_Task">>
    BY <1>1
  <2>2. queue' = Insert(<<"I_Task">>, "Task_SB") /\ waiting' = waiting /\ suspended' = suspended
    BY <2>1 DEF SB_Yield, Yield
  <2>3. Insert(<<"I_Task">>, "Task_SB") = <<"Task_SB", "I_Task">>
    BY ONLY CreateBeforeI, ThreadFacts
  <2>4. <<"Task_SB", "I_Task">> \in Seq(Task)
    BY ThreadFacts
  <2> QED
    BY <1>1, <2>2, <2>3, <2>4
<1>4. /\ ChangeType' /\ pc'["Task_SB"] = "stop" /\ pc'["I_Task"] = "signalize"
  <2>1. /\ waiting' \in Seq(Task) /\ suspended' \subseteq Task
        /\ window' \in ChangeSeries \cup {"closed"} /\ samples' \in [ChangeSeries -> Nat]
    BY <1>1, <1>2, <1>3 DEF ChangeType, ChangeSeries
  <2> QED
    BY ONLY <1>1, <1>2, <1>3, <2>1, SB_StepIs
<1> QED
  BY <1>1, <1>2, <1>3, <1>4 DEF ChangeInv, ChangeB

LEMMA SB_StopKeeps == ASSUME ChangeInv, SB_Stop PROVE ChangeInv'
<1>1. /\ ChangeType /\ pc["I_Task"] = "signalize" /\ waiting = <<>>
      /\ samples["scenario_a"] = MEASUREMENT_COUNT
      /\ queue = <<"Task_SB", "I_Task">> /\ suspended = {}
      /\ samples["scenario_b"] < MEASUREMENT_COUNT
  BY SBRuns DEF SB_Stop, Step
<1>2. Step("Task_SB", "stop", "yield") /\ window' = "closed"
  BY DEF SB_Stop
<1>3. /\ samples' \in [ChangeSeries -> Nat] /\ samples'["scenario_a"] = MEASUREMENT_COUNT
      /\ samples'["scenario_b"] = samples["scenario_b"] + 1
      /\ samples["scenario_b"] + 1 <= MEASUREMENT_COUNT
  BY <1>1, CountAssumption DEF SB_Stop, ChangeType, ChangeSeries
<1>4. CASE samples'["scenario_b"] >= MEASUREMENT_COUNT
  <2>1. Suspend("Task_SB")
    BY <1>4 DEF SB_Stop
  <2>2. queue' = <<"I_Task">> /\ waiting' = <<>> /\ suspended' = {"Task_SB"}
        /\ queue' \in Seq(Task) /\ suspended' \subseteq Task
    <3>1. queue \in Seq(Task) /\ Len(queue) = 2 /\ queue[1] = "Task_SB" /\ queue[2] = "I_Task"
      BY <1>1 DEF ChangeType
    <3>2. Distinct(queue) /\ 1 \in 1..Len(queue)
      BY <3>1 DEF Distinct
    <3>3. /\ queue' \in Seq(Task) /\ Len(queue') = Len(queue) - 1
          /\ \A m \in 1..(Len(queue) - 1) : queue'[m] = IF m < 1 THEN queue[m] ELSE queue[m + 1]
          /\ suspended' = suspended \cup {"Task_SB"} /\ waiting' = waiting
      <4>1. Suspend(queue[1])
        BY <2>1, <3>1
      <4> QED
        BY <1>1, <3>1, <3>2, <4>1, SuspendIs
    <3>4. Len(queue') = 1 /\ queue'[1] = "I_Task"
      BY <3>1, <3>3
    <3>5. queue' = <<"I_Task">>
      BY <3>3, <3>4
    <3> QED
      BY <1>1, <3>3, <3>5, ThreadFacts
  <2>3. ChangeType' /\ pc'["I_Task"] = "signalize"
    <3>1. waiting' \in Seq(Task) /\ window' \in ChangeSeries \cup {"closed"}
      BY <1>2, <2>2
    <3> QED
      BY ONLY <1>1, <1>2, <1>3, <2>2, <3>1, SB_StepIs
  <2>4. samples'["scenario_b"] = MEASUREMENT_COUNT
    BY <1>1, <1>3, <1>4, CountAssumption DEF ChangeType, ChangeSeries
  <2> QED
    BY <1>2, <1>3, <2>2, <2>3, <2>4 DEF ChangeInv, ChangeB
<1>5. CASE ~(samples'["scenario_b"] >= MEASUREMENT_COUNT)
  <2>1. queue' = queue /\ waiting' = waiting /\ suspended' = suspended
    BY <1>5 DEF SB_Stop, NoCall
  <2>2. ChangeType' /\ pc'["I_Task"] = "signalize" /\ pc'["Task_SB"] = "yield"
    <3>1. /\ queue' \in Seq(Task) /\ waiting' \in Seq(Task) /\ suspended' \subseteq Task
          /\ window' \in ChangeSeries \cup {"closed"}
      BY <1>1, <1>2, <2>1 DEF ChangeType
    <3> QED
      BY ONLY <1>1, <1>2, <1>3, <3>1, SB_StepIs
  <2>3. samples'["scenario_b"] < MEASUREMENT_COUNT
    BY <1>1, <1>3, <1>5, CountAssumption DEF ChangeType, ChangeSeries
  <2> QED
    BY <1>1, <1>2, <1>3, <2>1, <2>2, <2>3 DEF ChangeInv, ChangeB
<1> QED
  BY <1>4, <1>5

-----------------------------------------------------------------------------
\* I_Task

LEMMA I_StepIs ==
    ASSUME ChangeType, NEW l \in Labels, NEW m \in Labels, I_Step(l, m),
           queue' \in Seq(Task), waiting' \in Seq(Task), suspended' \subseteq Task
    PROVE  /\ ChangeType' /\ pc'["I_Task"] = m /\ load' = load
           /\ \A u \in Task : u # "I_Task" => pc'[u] = pc[u]
           /\ pc'["Task_SB"] = pc["Task_SB"] /\ pc'["L_Task_SA"] = pc["L_Task_SA"]
           /\ pc'["H_Task_SA"] = pc["H_Task_SA"] /\ \A d \in load : pc'[d] = pc[d]
           /\ window' = window /\ samples' = samples
<1>1. Step("I_Task", l, m) /\ window' = window /\ samples' = samples
  BY DEF I_Step, NoSample
<1>2. /\ ChangeType' /\ pc'["I_Task"] = m /\ load' = load
      /\ \A u \in Task : u # "I_Task" => pc'[u] = pc[u]
  BY <1>1, StepType, ThreadFacts DEF ChangeType
<1> QED
  BY <1>1, <1>2, ThreadFacts DEF ChangeType, MainTasks

\* I_Task runs and is at label l.
LEMMA I_Runs ==
    ASSUME ChangeInv, NEW l \in Labels, NEW m \in Labels, I_Step(l, m)
    PROVE  ChangeType /\ pc["I_Task"] = l /\ queue[1] = "I_Task" /\ Len(queue) >= 1 /\ ~A_Run
<1>1. ChangeType /\ pc["I_Task"] = l /\ queue[1] = "I_Task" /\ Len(queue) >= 1
  BY DEF ChangeInv, I_Step, Step, Runs, ChangeType
<1>2. ~A_Run
  <2> SUFFICES ASSUME A_Run PROVE FALSE
    OBVIOUS
  <2>1. 1 \in 1..(Len(queue) - 1)
    BY <1>1, RunRing
  <2>2. queue[1] # "I_Task"
    BY <1>1, <2>1, RunRing
  <2> QED
    BY <1>1, <2>2
<1> QED
  BY <1>1, <1>2

LEMMA I_CreateLowSAKeeps == ASSUME ChangeInv, I_CreateLowSA PROVE ChangeInv'
<1>1. I_Step("create_low_sa", "create_high_sa") /\ Create("L_Task_SA")
  BY DEF I_CreateLowSA
<1>2. ChangeType /\ pc["I_Task"] = "create_low_sa" /\ queue[1] = "I_Task" /\ ~A_Run
  BY <1>1, I_Runs, LabelFacts
<1>3. /\ samples["scenario_b"] = 0 /\ pc["Task_SB"] = "yield"
      /\ window = "closed" /\ samples["scenario_a"] = 0 /\ suspended = {}
      /\ queue = <<"I_Task">> /\ waiting = <<>>
      /\ Fresh({"L_Task_SA", "H_Task_SA"} \cup load)
  BY <1>2 DEF ChangeInv, ChangeA, ChangeB, A_Setup, A_Over, A_Clear
<1>4. queue' = <<"L_Task_SA", "I_Task">> /\ queue' \in Seq(Task) /\ waiting' = waiting /\ suspended' = suspended
  BY <1>1, <1>3, CreateIs, ThreadFacts
<1>5. waiting' \in Seq(Task) /\ suspended' \subseteq Task
  BY <1>2, <1>4 DEF ChangeType
<1>6. /\ ChangeType' /\ pc'["I_Task"] = "create_high_sa" /\ load' = load
      /\ pc'["Task_SB"] = pc["Task_SB"] /\ pc'["L_Task_SA"] = pc["L_Task_SA"]
      /\ pc'["H_Task_SA"] = pc["H_Task_SA"] /\ \A d \in load : pc'[d] = pc[d]
      /\ window' = window /\ samples' = samples
  BY <1>1, <1>2, <1>4, <1>5, I_StepIs, LabelFacts
<1>7. Fresh({"H_Task_SA"} \cup load)' /\ pc'["L_Task_SA"] = "wait_start"
  BY <1>3, <1>6 DEF Fresh
<1>8. A_Setup'
  BY <1>3, <1>4, <1>6, <1>7 DEF A_Setup
<1> QED
  BY <1>3, <1>6, <1>8 DEF ChangeInv, ChangeA

LEMMA I_CreateHighSAKeeps == ASSUME ChangeInv, I_CreateHighSA PROVE ChangeInv'
<1>1. I_Step("create_high_sa", "post_start") /\ Create("H_Task_SA")
  BY DEF I_CreateHighSA
<1>2. ChangeType /\ pc["I_Task"] = "create_high_sa" /\ queue[1] = "I_Task" /\ ~A_Run
  BY <1>1, I_Runs, LabelFacts
<1>3. /\ samples["scenario_b"] = 0 /\ pc["Task_SB"] = "yield"
      /\ window = "closed" /\ samples["scenario_a"] = 0 /\ suspended = {}
      /\ queue = <<"I_Task">> /\ waiting = <<"L_Task_SA">> /\ pc["L_Task_SA"] = "yield"
      /\ Fresh({"H_Task_SA"} \cup load)
  BY <1>2 DEF ChangeInv, ChangeA, ChangeB, A_Setup, A_Over, A_Clear
<1>4. queue' = <<"H_Task_SA", "I_Task">> /\ queue' \in Seq(Task) /\ waiting' = waiting /\ suspended' = suspended
  BY <1>1, <1>3, CreateIs, ThreadFacts
<1>5. waiting' \in Seq(Task) /\ suspended' \subseteq Task
  BY <1>2, <1>4 DEF ChangeType
<1>6. /\ ChangeType' /\ pc'["I_Task"] = "post_start" /\ load' = load
      /\ pc'["Task_SB"] = pc["Task_SB"] /\ pc'["L_Task_SA"] = pc["L_Task_SA"]
      /\ pc'["H_Task_SA"] = pc["H_Task_SA"] /\ \A d \in load : pc'[d] = pc[d]
      /\ window' = window /\ samples' = samples
  BY <1>1, <1>2, <1>4, <1>5, I_StepIs, LabelFacts
<1>7. Fresh({"H_Task_SA"} \cup load)'
  BY <1>3, <1>6 DEF Fresh
<1>8. A_Setup'
  BY <1>3, <1>4, <1>6, <1>7 DEF A_Setup
<1> QED
  BY <1>3, <1>6, <1>8 DEF ChangeInv, ChangeA

\* I_Task runs while the threads of scenario A wait for START.
LEMMA GatherRuns ==
    ASSUME ChangeInv, pc["I_Task"] = "post_start", queue[1] = "I_Task"
    PROVE  /\ samples["scenario_b"] = 0 /\ pc["Task_SB"] = "yield"
           /\ window = "closed" /\ samples["scenario_a"] = 0 /\ suspended = {}
           /\ A_Gather /\ queue = <<"I_Task">>
<1>1. "I_Task" \notin Dummies /\ load \subseteq Dummies
  BY ThreadFacts DEF ChangeInv, ChangeType, MainTasks
<1>2. /\ samples["scenario_b"] = 0 /\ pc["Task_SB"] = "yield"
      /\ window = "closed" /\ samples["scenario_a"] = 0 /\ suspended = {}
      /\ A_Gather
  BY DEF ChangeInv, ChangeA, ChangeB, A_Setup, A_Over, A_Clear, A_Run
<1> QED
  BY <1>1, <1>2 DEF A_Gather

LEMMA I_CreateDummySAKeeps ==
    ASSUME ChangeInv, NEW d \in Dummies, I_CreateDummySA(d) PROVE ChangeInv'
<1>1. I_Step("post_start", "post_start") /\ Create(d) /\ d \in load /\ pc[d] = "wait_start"
      /\ d \in Task /\ d # "I_Task"
  BY ThreadFacts DEF I_CreateDummySA, MainTasks
<1>2. ChangeType /\ pc["I_Task"] = "post_start" /\ queue[1] = "I_Task"
  BY <1>1, I_Runs, LabelFacts
<1>3. /\ samples["scenario_b"] = 0 /\ pc["Task_SB"] = "yield"
      /\ window = "closed" /\ samples["scenario_a"] = 0 /\ suspended = {}
      /\ A_Gather /\ queue = <<"I_Task">>
  BY <1>2, GatherRuns
<1>4. queue' = <<d, "I_Task">> /\ queue' \in Seq(Task) /\ waiting' = waiting /\ suspended' = suspended
  BY <1>1, <1>3, CreateIs
<1>5. waiting' \in Seq(Task) /\ suspended' \subseteq Task
  BY <1>2, <1>4 DEF ChangeType
<1>6. /\ ChangeType' /\ pc'["I_Task"] = "post_start" /\ load' = load
      /\ pc'["Task_SB"] = pc["Task_SB"] /\ pc'["L_Task_SA"] = pc["L_Task_SA"]
      /\ pc'["H_Task_SA"] = pc["H_Task_SA"] /\ \A e \in load : pc'[e] = pc[e]
      /\ window' = window /\ samples' = samples
  BY <1>1, <1>2, <1>4, <1>5, I_StepIs, LabelFacts
<1>7. {e \in load' : pc'[e] = "close"} = {e \in load : pc[e] = "close"}
  BY <1>6
<1>8. A_Gather'
  BY <1>1, <1>3, <1>4, <1>6, <1>7 DEF A_Gather, Distinct, Members
<1> QED
  BY <1>3, <1>4, <1>6, <1>8 DEF ChangeInv, ChangeA, A_Setup

LEMMA I_PostStartKeeps == ASSUME ChangeInv, I_PostStart PROVE ChangeInv'
<1>1. I_Step("post_start", "abort_high_sa") /\ \A d \in load : pc[d] # "wait_start"
  BY DEF I_PostStart
<1>2. ChangeType /\ pc["I_Task"] = "post_start" /\ queue[1] = "I_Task"
  BY <1>1, I_Runs, LabelFacts
<1>3. /\ samples["scenario_b"] = 0 /\ pc["Task_SB"] = "yield"
      /\ window = "closed" /\ samples["scenario_a"] = 0 /\ suspended = {}
      /\ A_Gather /\ queue = <<"I_Task">>
  BY <1>2, GatherRuns
<1>4. /\ waiting \in Seq(Task) /\ Len(waiting) \in Nat /\ Len(waiting) >= 2
      /\ waiting[1] = "L_Task_SA" /\ waiting[2] = "H_Task_SA" /\ Distinct(waiting)
      /\ Members(waiting) = {"L_Task_SA", "H_Task_SA"} \cup load
  <2>1. {d \in load : pc[d] = "close"} = load
    BY <1>1, <1>3 DEF A_Gather
  <2> QED
    BY <1>2, <1>3, <2>1 DEF A_Gather, ChangeType
<1> DEFINE r == waiting \o <<"I_Task">>
<1>5. r \in Seq(Task) /\ Len(r) = Len(waiting) + 1 /\ r[Len(waiting) + 1] = "I_Task"
      /\ \A m \in 1..Len(waiting) : r[m] = waiting[m]
  <2>1. <<"I_Task">> \in Seq(Task) /\ Len(<<"I_Task">>) = 1 /\ <<"I_Task">>[1] = "I_Task"
    BY ThreadFacts
  <2> QED
    BY <1>4, <2>1, ConcatProperties
<1>6. queue' = r /\ waiting' = <<>> /\ suspended' = suspended
  BY <1>3 DEF I_PostStart
<1> HIDE DEF r
<1>7. "I_Task" \notin Members(waiting)
  BY <1>2, <1>4, ThreadFacts DEF ChangeType, MainTasks
<1>8. Distinct(r) /\ Members(r) = Members(waiting) \cup {"I_Task"}
  <2>1. \A m \in 1..Len(waiting) : waiting[m] # "I_Task"
    BY <1>7 DEF Members
  <2>2. Distinct(r)
    BY ONLY <1>4, <1>5, <2>1 DEF Distinct
  <2>3. ASSUME NEW x PROVE x \in Members(r) <=> x \in Members(waiting) \cup {"I_Task"}
    BY ONLY <1>4, <1>5 DEF Members
  <2> QED
    BY <2>2, <2>3
<1>9. queue' \in Seq(Task) /\ waiting' \in Seq(Task) /\ suspended' \subseteq Task
  BY <1>3, <1>5, <1>6
<1>10. /\ ChangeType' /\ pc'["I_Task"] = "abort_high_sa" /\ load' = load
       /\ pc'["Task_SB"] = pc["Task_SB"] /\ pc'["L_Task_SA"] = pc["L_Task_SA"]
       /\ pc'["H_Task_SA"] = pc["H_Task_SA"] /\ \A d \in load : pc'[d] = pc[d]
       /\ window' = window /\ samples' = samples
  BY <1>1, <1>2, <1>9, I_StepIs, LabelFacts
<1>11. \E p \in 1..(Len(queue') - 1) : Follows(p)'
  <2>1. PICK p \in 1..(Len(queue') - 1) : p = 1
    BY <1>4, <1>5, <1>6
  <2>2. Follows(p)'
    BY <1>3, <1>4, <1>5, <1>6, <1>10, <2>1, CountAssumption DEF Follows
  <2> QED
    BY <2>2
<1>12. A_Run'
  <2>1. \A d \in load : pc'[d] = "close"
    BY <1>1, <1>3, <1>10 DEF A_Gather
  <2>2. pc'["L_Task_SA"] = "yield" /\ pc'["H_Task_SA"] = "yield"
    BY <1>3, <1>10 DEF A_Gather
  <2>3. Members(queue') = {"L_Task_SA", "H_Task_SA", "I_Task"} \cup load'
    BY <1>4, <1>6, <1>8, <1>10
  <2>4. Len(queue') >= 3 /\ queue'[Len(queue')] = "I_Task" /\ Distinct(queue')
    BY <1>4, <1>5, <1>6, <1>8
  <2> QED
    BY <1>3, <1>6, <1>10, <1>11, <2>1, <2>2, <2>3, <2>4 DEF A_Run, Distinct
<1> QED
  BY <1>3, <1>10, <1>12 DEF ChangeInv, ChangeA

LEMMA I_AbortHighSAKeeps == ASSUME ChangeInv, I_AbortHighSA PROVE ChangeInv'
<1>1. I_Step("abort_high_sa", "abort_low_sa") /\ Abort("H_Task_SA")
  BY DEF I_AbortHighSA
<1>2. ChangeType /\ pc["I_Task"] = "abort_high_sa" /\ queue[1] = "I_Task" /\ ~A_Run /\ Len(queue) >= 1
  BY <1>1, I_Runs, LabelFacts
<1>3. /\ samples["scenario_b"] = 0 /\ pc["Task_SB"] = "yield" /\ A_Over
  BY <1>2 DEF ChangeInv, ChangeA, ChangeB, A_Setup, A_Clear
<1>4. queue \in Seq(Task) /\ Distinct(queue) /\ queue[Len(queue)] = "I_Task"
  BY <1>2, <1>3 DEF A_Over, ChangeType
<1>5. queue = <<"I_Task">> /\ Members(queue) = {"I_Task"}
  BY <1>2, <1>4, OnlyI
<1>6. suspended = {"L_Task_SA", "H_Task_SA"} \cup load /\ waiting = <<>>
      /\ window = "closed" /\ samples["scenario_a"] = MEASUREMENT_COUNT
  <2>1. "I_Task" \notin load
    BY <1>2, ThreadFacts DEF ChangeType, MainTasks
  <2> QED
    BY <1>3, <1>5, <2>1 DEF A_Over
<1>7. "H_Task_SA" \notin load
  BY <1>2, ThreadFacts DEF ChangeType, MainTasks
<1>8. queue' = <<"I_Task">> /\ waiting' = <<>> /\ suspended' = {"L_Task_SA"} \cup load
  <2>1. Without(queue, "H_Task_SA") = queue
    BY <1>4, <1>5, WithoutAbsent
  <2>2. Without(waiting, "H_Task_SA") = waiting
    BY <1>6 DEF Without
  <2> QED
    BY <1>1, <1>5, <1>6, <1>7, <2>1, <2>2 DEF Abort
<1>9. queue' \in Seq(Task) /\ waiting' \in Seq(Task) /\ suspended' \subseteq Task
  BY <1>2, <1>6, <1>8, ThreadFacts DEF ChangeType
<1>10. /\ ChangeType' /\ pc'["I_Task"] = "abort_low_sa" /\ load' = load
       /\ pc'["Task_SB"] = pc["Task_SB"] /\ window' = window /\ samples' = samples
  BY <1>1, <1>2, <1>9, I_StepIs, LabelFacts
<1> QED
  BY <1>3, <1>6, <1>8, <1>10 DEF ChangeInv, ChangeA, A_Clear

\* I_Task runs after the end of scenario A.
LEMMA ClearRuns ==
    ASSUME ChangeInv, pc["I_Task"] \in {"abort_low_sa", "create_sb"}
    PROVE  /\ ChangeType /\ A_Clear /\ samples["scenario_b"] = 0 /\ pc["Task_SB"] = "yield"
           /\ "I_Task" \notin load /\ "L_Task_SA" \notin load
BY ThreadFacts DEF ChangeInv, ChangeA, ChangeB, ChangeType, A_Setup, A_Over, A_Run, MainTasks

\* A thread that is in no queue is aborted.
LEMMA AbortIs ==
    ASSUME ChangeType, queue = <<"I_Task">>, waiting = <<>>, NEW t \in Task \ {"I_Task"}, Abort(t)
    PROVE  queue' = queue /\ waiting' = waiting /\ suspended' = suspended \ {t}
<1>1. queue \in Seq(Task) /\ Len(queue) = 1 /\ queue[1] = "I_Task"
  BY DEF ChangeType
<1>2. t \notin Members(queue)
  BY <1>1 DEF Members
<1>3. Without(queue, t) = queue
  BY <1>1, <1>2, WithoutAbsent
<1>4. Without(waiting, t) = waiting
  BY DEF Without
<1> QED
  BY <1>3, <1>4 DEF Abort

LEMMA I_AbortLowSAKeeps == ASSUME ChangeInv, I_AbortLowSA PROVE ChangeInv'
<1>1. I_Step("abort_low_sa", "create_sb") /\ Abort("L_Task_SA")
  BY DEF I_AbortLowSA
<1>2. ChangeType /\ pc["I_Task"] = "abort_low_sa"
  BY <1>1, I_Runs, LabelFacts
<1>3. /\ A_Clear /\ samples["scenario_b"] = 0 /\ pc["Task_SB"] = "yield"
      /\ "I_Task" \notin load /\ "L_Task_SA" \notin load
  BY <1>2, ClearRuns
<1>4. /\ queue = <<"I_Task">> /\ waiting = <<>> /\ window = "closed"
      /\ samples["scenario_a"] = MEASUREMENT_COUNT /\ suspended = {"L_Task_SA"} \cup load
  BY <1>2, <1>3 DEF A_Clear
<1>5. queue' = queue /\ waiting' = waiting /\ suspended' = suspended \ {"L_Task_SA"}
  BY <1>1, <1>2, <1>4, AbortIs, ThreadFacts
<1>6. queue' \in Seq(Task) /\ waiting' \in Seq(Task) /\ suspended' \subseteq Task
  BY <1>2, <1>5 DEF ChangeType
<1>7. /\ ChangeType' /\ pc'["I_Task"] = "create_sb" /\ load' = load
      /\ pc'["Task_SB"] = pc["Task_SB"] /\ window' = window /\ samples' = samples
  BY <1>1, <1>2, <1>6, I_StepIs, LabelFacts
<1> QED
  BY <1>3, <1>4, <1>5, <1>7 DEF ChangeInv, ChangeA, A_Clear

LEMMA I_AbortDummySAKeeps ==
    ASSUME ChangeInv, NEW d \in Dummies, I_AbortDummySA(d) PROVE ChangeInv'
<1>1. I_Step("create_sb", "create_sb") /\ Abort(d) /\ d \in Task \ {"I_Task"}
  BY ThreadFacts DEF I_AbortDummySA, MainTasks
<1>2. ChangeType /\ pc["I_Task"] = "create_sb"
  BY <1>1, I_Runs, LabelFacts
<1>3. A_Clear /\ samples["scenario_b"] = 0 /\ pc["Task_SB"] = "yield"
  BY <1>2, ClearRuns
<1>4. /\ queue = <<"I_Task">> /\ waiting = <<>> /\ window = "closed"
      /\ samples["scenario_a"] = MEASUREMENT_COUNT /\ suspended \subseteq load
  BY <1>2, <1>3 DEF A_Clear
<1>5. queue' = queue /\ waiting' = waiting /\ suspended' = suspended \ {d}
  BY <1>1, <1>2, <1>4, AbortIs
<1>6. queue' \in Seq(Task) /\ waiting' \in Seq(Task) /\ suspended' \subseteq Task
  BY <1>2, <1>5 DEF ChangeType
<1>7. /\ ChangeType' /\ pc'["I_Task"] = "create_sb" /\ load' = load
      /\ pc'["Task_SB"] = pc["Task_SB"] /\ window' = window /\ samples' = samples
  BY <1>1, <1>2, <1>6, I_StepIs, LabelFacts
<1> QED
  BY <1>3, <1>4, <1>5, <1>7 DEF ChangeInv, ChangeA, A_Clear

LEMMA I_CreateSBKeeps == ASSUME ChangeInv, I_CreateSB PROVE ChangeInv'
<1>1. I_Step("create_sb", "signalize") /\ Create("Task_SB") /\ load \cap suspended = {}
  BY DEF I_CreateSB
<1>2. ChangeType /\ pc["I_Task"] = "create_sb"
  BY <1>1, I_Runs, LabelFacts
<1>3. A_Clear /\ samples["scenario_b"] = 0 /\ pc["Task_SB"] = "yield"
  BY <1>2, ClearRuns
<1>4. /\ queue = <<"I_Task">> /\ waiting = <<>> /\ window = "closed"
      /\ samples["scenario_a"] = MEASUREMENT_COUNT /\ suspended = {}
  BY <1>1, <1>2, <1>3 DEF A_Clear
<1>5. queue' = <<"Task_SB", "I_Task">> /\ queue' \in Seq(Task) /\ waiting' = waiting /\ suspended' = suspended
  BY <1>1, <1>4, CreateIs, ThreadFacts
<1>6. waiting' \in Seq(Task) /\ suspended' \subseteq Task
  BY <1>2, <1>5 DEF ChangeType
<1>7. /\ ChangeType' /\ pc'["I_Task"] = "signalize" /\ load' = load
      /\ pc'["Task_SB"] = pc["Task_SB"] /\ window' = window /\ samples' = samples
  BY <1>1, <1>2, <1>5, <1>6, I_StepIs, LabelFacts
<1> QED
  BY <1>3, <1>4, <1>5, <1>7, CountAssumption DEF ChangeInv, ChangeB

LEMMA I_SignalizeKeeps == ASSUME ChangeInv, I_Signalize PROVE ChangeInv'
<1>1. I_Step("signalize", "signalize") /\ queue' = queue /\ waiting' = waiting /\ suspended' = suspended
  BY DEF I_Signalize, NoCall
<1>2. ChangeType /\ pc["I_Task"] = "signalize"
  BY <1>1, I_Runs, LabelFacts
<1>3. ChangeB
  BY <1>2 DEF ChangeInv, ChangeA, A_Setup, A_Over, A_Run, A_Clear
<1>4. queue' \in Seq(Task) /\ waiting' \in Seq(Task) /\ suspended' \subseteq Task
  BY <1>1, <1>2 DEF ChangeType
<1>5. /\ ChangeType' /\ pc'["I_Task"] = "signalize" /\ load' = load
      /\ pc'["Task_SB"] = pc["Task_SB"] /\ window' = window /\ samples' = samples
  BY <1>1, <1>2, <1>4, I_StepIs, LabelFacts
<1> QED
  BY <1>1, <1>3, <1>5 DEF ChangeInv, ChangeB

-----------------------------------------------------------------------------
LEMMA ChangeStep == ChangeInv /\ [Next]_vars => ChangeInv'
<1> SUFFICES ASSUME ChangeInv, [Next]_vars PROVE ChangeInv'
  OBVIOUS
<1>1. CASE LowSA_WaitStart \/ LowSA_Yield
  BY <1>1, LowSA_WaitStartKeeps, LowSA_YieldKeeps
<1>2. CASE HighSA_WaitStart \/ HighSA_Yield \/ HighSA_Stop \/ HighSA_Suspend
  BY <1>2, HighSA_WaitStartKeeps, HighSA_YieldKeeps, HighSA_StopKeeps, HighSA_SuspendKeeps
<1>3. CASE SB_Yield \/ SB_Stop
  BY <1>3, SB_YieldKeeps, SB_StopKeeps
<1>4. CASE I_CreateLowSA \/ I_CreateHighSA \/ I_PostStart
  BY <1>4, I_CreateLowSAKeeps, I_CreateHighSAKeeps, I_PostStartKeeps
<1>5. CASE I_AbortHighSA \/ I_AbortLowSA \/ I_CreateSB \/ I_Signalize
  BY <1>5, I_AbortHighSAKeeps, I_AbortLowSAKeeps, I_CreateSBKeeps, I_SignalizeKeeps
<1>6. ASSUME NEW d \in Dummies,
             Dummy_WaitStart(d) \/ Dummy_Close(d) \/ Dummy_SuspendHigh(d) \/ Dummy_Suspend(d)
      PROVE  ChangeInv'
  BY <1>6, Dummy_WaitStartKeeps, Dummy_CloseKeeps, Dummy_SuspendHighKeeps, Dummy_SuspendKeeps
<1>7. ASSUME NEW d \in Dummies, I_CreateDummySA(d) \/ I_AbortDummySA(d)
      PROVE  ChangeInv'
  BY <1>7, I_CreateDummySAKeeps, I_AbortDummySAKeeps
<1>8. CASE UNCHANGED vars
  <2>1. /\ queue' = queue /\ waiting' = waiting /\ suspended' = suspended /\ pc' = pc
        /\ window' = window /\ samples' = samples /\ load' = load
    BY <1>8 DEF vars
  <2>2. ChangeType' <=> ChangeType
    BY <2>1 DEF ChangeType
  <2>3. A_Setup' <=> A_Setup
    BY <2>1 DEF A_Setup, A_Gather, Fresh, Distinct, Members
  <2>4. A_Run' <=> A_Run
    BY <2>1 DEF A_Run, Follows, Distinct, Members
  <2>5. A_Over' <=> A_Over
    BY <2>1 DEF A_Over, Distinct, Members
  <2>6. (A_Clear' <=> A_Clear) /\ (ChangeB' <=> ChangeB)
    BY <2>1 DEF A_Clear, ChangeB, Distinct, Members
  <2> QED
    BY <2>1, <2>2, <2>3, <2>4, <2>5, <2>6 DEF ChangeInv, ChangeA
<1> QED
  BY <1>1, <1>2, <1>3, <1>4, <1>5, <1>6, <1>7, <1>8 DEF Next

\* The invariant of time_task_switch.c is one.
THEOREM ChangeInvariance == Spec => []ChangeInv
BY ChangeInit, ChangeStep, PTL DEF Spec

\* Whatever runs, the ready queue is a list of peers in front of I_Task, or
\* Task_SB and I_Task.
LEMMA QueueSorted ==
    ASSUME ChangeInv
    PROVE  /\ Distinct(queue)
           /\ \A m, k \in 1..Len(queue) : m < k => prio[queue[m]] <= prio[queue[k]]
<1>1. queue \in Seq(Task) /\ Len(queue) \in Nat /\ load \subseteq Dummies /\ Dummies \subseteq Task
  BY ThreadFacts DEF ChangeInv, ChangeType
<1>2. ASSUME NEW t \in Task \ {"I_Task"}, queue = <<"I_Task">> \/ queue = <<t, "I_Task">>
      PROVE  /\ Distinct(queue)
             /\ \A m, k \in 1..Len(queue) : m < k => prio[queue[m]] <= prio[queue[k]]
  <2>1. prio[t] <= prio["I_Task"]
    BY <1>2, ThreadFacts
  <2>2. \/ Len(queue) = 1
        \/ Len(queue) = 2 /\ queue[1] = t /\ queue[2] = "I_Task"
    BY <1>2
  <2> QED
    BY <1>2, <2>1, <2>2 DEF Distinct
<1>3. ASSUME queue[Len(queue)] = "I_Task", Len(queue) >= 1, Distinct(queue),
             Members(queue) \subseteq {"L_Task_SA", "H_Task_SA", "I_Task"} \cup load
      PROVE  \A m, k \in 1..Len(queue) : m < k => prio[queue[m]] <= prio[queue[k]]
  <2> SUFFICES ASSUME NEW m \in 1..Len(queue), NEW k \in 1..Len(queue), m < k
               PROVE  prio[queue[m]] <= prio[queue[k]]
    OBVIOUS
  <2>1. queue[m] \in Members(queue) /\ queue[k] \in Members(queue)
    BY DEF Members
  <2>2. queue[m] # "I_Task"
    BY <1>1, <1>3 DEF Distinct
  <2>3. queue[m] \in {"L_Task_SA", "H_Task_SA"} \cup Dummies
    BY <1>1, <1>3, <2>1, <2>2
  <2>4. prio[queue[m]] = prio["L_Task_SA"]
    BY <2>3, ThreadFacts
  <2>5. queue[k] = "I_Task" \/ prio[queue[k]] = prio["L_Task_SA"]
    BY <1>1, <1>3, <2>1, ThreadFacts
  <2> QED
    BY <2>4, <2>5, ThreadFacts
<1>4. CASE A_Setup \/ A_Clear \/ ChangeB
  <2>1. \/ queue = <<"I_Task">>
        \/ \E t \in {"L_Task_SA", "H_Task_SA", "Task_SB"} \cup load : queue = <<t, "I_Task">>
    BY <1>4 DEF A_Setup, A_Gather, A_Clear, ChangeB
  <2>2. \A t \in {"L_Task_SA", "H_Task_SA", "Task_SB"} \cup load : t \in Task \ {"I_Task"}
    BY <1>1, ThreadFacts DEF MainTasks
  <2>3. \E t \in Task \ {"I_Task"} : queue = <<"I_Task">> \/ queue = <<t, "I_Task">>
    BY <2>1, <2>2
  <2> QED
    BY <1>2, <2>3
<1>5. CASE A_Run \/ A_Over
  BY <1>1, <1>3, <1>5 DEF A_Run, A_Over
<1> QED
  BY <1>4, <1>5 DEF ChangeInv, ChangeA

\* No thread is counted twice.
LEMMA QueuesDisjoint ==
    ASSUME ChangeInv
    PROVE  /\ Distinct(waiting)
           /\ Members(queue) \cap Members(waiting) = {}
           /\ suspended \cap (Members(queue) \cup Members(waiting)) = {}
<1>1. queue \in Seq(Task) /\ load \subseteq Dummies /\ Dummies \cap MainTasks = {}
  BY ThreadFacts DEF ChangeInv, ChangeType
<1>2. CASE A_Setup /\ ~A_Gather
  <2>1. suspended = {} /\ (waiting = <<>> \/ (waiting = <<"L_Task_SA">> /\ \A m \in 1..Len(queue) : queue[m] # "L_Task_SA"))
    BY <1>2 DEF A_Setup
  <2>2. Distinct(waiting) /\ Members(waiting) \subseteq {"L_Task_SA"}
    BY <2>1 DEF Distinct, Members
  <2> QED
    BY <2>1, <2>2 DEF Members
<1>3. CASE A_Setup /\ A_Gather
  <2>1. suspended = {} /\ Distinct(waiting)
        /\ Members(waiting) = {"L_Task_SA", "H_Task_SA"} \cup {d \in load : pc[d] = "close"}
        /\ \/ queue = <<"I_Task">>
           \/ \E d \in load : queue = <<d, "I_Task">> /\ pc[d] = "wait_start"
    BY <1>3 DEF A_Setup, A_Gather
  <2>2. \A m \in 1..Len(queue) : queue[m] = "I_Task" \/ (queue[m] \in load /\ pc[queue[m]] = "wait_start")
    BY <2>1
  <2>3. \A m \in 1..Len(queue) : queue[m] \notin {"L_Task_SA", "H_Task_SA"} \cup {d \in load : pc[d] = "close"}
    BY <1>1, <2>2 DEF MainTasks
  <2>4. Members(queue) \cap Members(waiting) = {}
    BY <2>1, <2>3 DEF Members
  <2> QED
    BY <2>1, <2>4
<1>4. CASE A_Run \/ A_Over
  <2>1. waiting = <<>> /\ suspended \cap Members(queue) = {}
    BY <1>4 DEF A_Run, A_Over
  <2> QED
    BY <2>1 DEF Distinct, Members
<1>5. CASE A_Clear \/ ChangeB
  <2>1. waiting = <<>> /\ \A m \in 1..Len(queue) : queue[m] \notin suspended
    BY <1>1, <1>5 DEF A_Clear, ChangeB, MainTasks
  <2> QED
    BY <2>1 DEF Distinct, Members
<1> QED
  BY <1>2, <1>3, <1>4, <1>5 DEF ChangeInv, ChangeA

\* The ready queue is sorted by priority, and no thread of the test is in two
\* queues, or twice in one, or suspended and in a queue.
THEOREM ChangeTypeOK == Spec => []TypeOK
<1>1. ASSUME ChangeInv PROVE TypeOK
  <2>1. \A s \in ChangeSeries : samples[s] <= MEASUREMENT_COUNT
    BY <1>1, CountAssumption DEF ChangeInv, ChangeA, ChangeB, A_Setup, A_Gather, A_Run, A_Over, A_Clear,
                Follows, ChangeType, ChangeSeries
  <2>2. samples \in [{"scenario_a", "scenario_b"} -> 0..MEASUREMENT_COUNT]
    BY <1>1, <2>1, CountAssumption DEF ChangeInv, ChangeType, ChangeSeries
  <2>3. /\ queue \in Seq(Task) /\ waiting \in Seq(Task) /\ pc \in [Task -> Labels]
        /\ window \in {"scenario_a", "scenario_b", "closed"} /\ load \subseteq Dummies
    BY <1>1 DEF ChangeInv, ChangeType, ChangeSeries
  <2>4. \A m, k \in 1..Len(queue) : m < k => prio[queue[m]] <= prio[queue[k]] /\ queue[m] # queue[k]
    BY <1>1, <2>3, QueueSorted DEF Distinct
  <2>5. \A m, k \in 1..Len(waiting) : m < k => waiting[m] # waiting[k]
    BY <1>1, <2>3, QueuesDisjoint DEF Distinct
  <2> QED
    BY <1>1, <2>2, <2>3, <2>4, <2>5, QueuesDisjoint DEF TypeOK
<1> QED
  BY <1>1, ChangeInvariance, PTL

\* DirectlyBehind, for every load and every number of iterations: when
\* L_Task_SA is about to yield, H_Task_SA is the next in the ready queue.
THEOREM ChangeDirectlyBehind == Spec => []DirectlyBehind
<1>1. ASSUME ChangeInv PROVE DirectlyBehind
  <2> SUFFICES ASSUME Runs("L_Task_SA"), pc["L_Task_SA"] = "yield"
               PROVE  /\ Members(queue) = {"L_Task_SA", "H_Task_SA", "I_Task"} \cup load
                      /\ queue[2] = "H_Task_SA"
    BY DEF DirectlyBehind
  <2>1. ChangeType /\ queue[1] = "L_Task_SA" /\ "L_Task_SA" \notin Dummies /\ Len(queue) >= 1
    BY <1>1, ThreadFacts DEF ChangeInv, Runs, MainTasks, ChangeType
  <2>2. A_Run
    <3>1. ~A_Setup
      BY <2>1 DEF A_Setup, A_Gather, Fresh, ChangeType
    <3>2. ~A_Clear /\ ~ChangeB
      BY <2>1 DEF A_Clear, ChangeB
    <3>3. ~A_Over
      BY <2>1 DEF A_Over, Members, ChangeType
    <3> QED
      BY <1>1, <3>1, <3>2, <3>3 DEF ChangeInv, ChangeA
  <2>3. PICK p \in 1..(Len(queue) - 1) : Follows(p)
    BY <2>2 DEF A_Run
  <2> QED
    BY <2>1, <2>2, <2>3, RingPlaces DEF A_Run
<1> QED
  BY <1>1, ChangeInvariance, PTL

\* WindowIsolation, for every load: no dummy runs between the yield of
\* L_Task_SA and the stop marker of H_Task_SA, and only Task_SB in its window.
THEOREM ChangeWindowIsolation == Spec => []WindowIsolation
<1>1. ASSUME ChangeInv PROVE WindowIsolation
  <2>1. ASSUME Runs("H_Task_SA"), pc["H_Task_SA"] = "stop"
        PROVE  window = "scenario_a" /\ queue[Len(queue) - 1] = "L_Task_SA"
    BY <1>1, <2>1, HighRuns
  <2>2. ASSUME window = "scenario_b" PROVE Runs("Task_SB") /\ pc["Task_SB"] = "stop"
    BY <1>1, <2>2 DEF ChangeInv, ChangeA, ChangeB, A_Setup, A_Run, A_Over, A_Clear, Runs
  <2> QED
    BY <2>1, <2>2 DEF WindowIsolation
<1> QED
  BY <1>1, ChangeInvariance, PTL

\* ControlWaits, for every load: I_Task removes the threads of scenario A only
\* when they are all suspended and their series is complete.
THEOREM ChangeControlWaits == Spec => []ControlWaits
<1>1. ASSUME ChangeInv PROVE ControlWaits
  <2>1. ASSUME Runs("I_Task"), pc["I_Task"] = "abort_high_sa"
        PROVE  /\ samples["scenario_a"] = MEASUREMENT_COUNT
               /\ suspended = {"L_Task_SA", "H_Task_SA"} \cup load
    <3>1. ChangeType /\ queue[1] = "I_Task" /\ Len(queue) >= 1 /\ "I_Task" \notin load
      BY <1>1, <2>1, ThreadFacts DEF ChangeInv, ChangeType, Runs, MainTasks
    <3>2. A_Over
      <4>1. ~A_Run
        <5> SUFFICES ASSUME A_Run PROVE FALSE
          OBVIOUS
        <5>1. 1 \in 1..(Len(queue) - 1)
          BY <3>1, RunRing
        <5> QED
          BY <3>1, <5>1, RunRing
      <4> QED
        BY <1>1, <2>1, <4>1 DEF ChangeInv, ChangeA, ChangeB, A_Setup, A_Clear
    <3>3. queue \in Seq(Task) /\ Distinct(queue) /\ queue[Len(queue)] = "I_Task"
      BY <3>1, <3>2 DEF A_Over, ChangeType
    <3>4. Members(queue) = {"I_Task"}
      BY <3>1, <3>3, OnlyI
    <3> QED
      BY <3>1, <3>2, <3>4 DEF A_Over
  <2>2. ASSUME Runs("I_Task"), pc["I_Task"] = "signalize"
        PROVE  samples["scenario_b"] = MEASUREMENT_COUNT /\ suspended = {"Task_SB"}
    BY <1>1, <2>2 DEF ChangeInv, ChangeA, ChangeB, A_Setup, A_Run, A_Over, A_Clear, Runs
  <2> QED
    BY <2>1, <2>2 DEF ControlWaits
<1> QED
  BY <1>1, ChangeInvariance, PTL
-----------------------------------------------------------------------------
(***************************************************************************)
(* Sim                                                                     *)
(***************************************************************************)

Build == {"sem_preempt", "event_preempt", "sem_block", "event_block", "task_preempt"}

Gives == {"give_has_waiter", "give_no_waiter"}

\* The calls whose replay stores -EAGAIN.
Prologues == {"z_swap_prologue", "wait_prologue"}

Semaphore == [count : Nat, waiter : BOOLEAN, ticks : {"K_NO_WAIT", "K_FOREVER"}]

InType ==
    /\ build \in Build
    /\ plan \in [1..3 -> UNION {Exported[b] : b \in Build}]
    /\ \A k \in 1..3 : plan[k] \in Exported[build]
    /\ n \in 1..4 /\ i \in Nat
    /\ stage \in {"enter", "window", "iterate", "created"}
    /\ stage \in {"window", "iterate"} => n \in 1..3
    /\ masked \in BOOLEAN
    /\ tail_sem \in Semaphore
    /\ tail_event \in {{}, guard}

\* What a build never changes.
Untouched ==
    /\ build \in {"sem_block", "event_block"} => cache = "NULL"
    /\ build # "sem_preempt" => tail_sem.ticks = "K_NO_WAIT"

\* What the entry of a probe leaves to its windows.
Entered(c) ==
    /\ c \in Gives => cache = "current" /\ tail_sem.waiter = (c = "give_has_waiter")
    /\ c \in {"take_tail", "take_no_wait"} => tail_sem.count = 0
    /\ c = "take_tail" => tail_sem.ticks = "K_FOREVER"
    /\ c \notin Prologues => swap_return_value = "0"
    /\ read_window = ReadWindow(build, c)

\* Call k has masked the interrupts, and no later call has unmasked them.
MaskedBy(k) ==
    /\ k <= n /\ plan[k] = "take_tail"
    /\ \A m \in (k + 1)..(n - 1) : plan[m] # "z_swap_prologue"

Masks ==
    /\ masked => \E k \in 1..3 : MaskedBy(k)
    /\ stage = "iterate" /\ call = "z_swap_prologue" => ~masked

IInv ==
    /\ InType
    /\ Untouched
    /\ stage \in {"window", "iterate"} => Entered(call)
    /\ Masks
    /\ ReplaysItsArm

-----------------------------------------------------------------------------
\* The tests that export the calls whose arm depends on what the other calls of
\* the test do.
LEMMA Exports ==
    ASSUME NEW b \in Build, NEW c \in Exported[b]
    PROVE  /\ c \in {"give_tail", "take_no_wait"} => b = "sem_block"
           /\ c = "post_tail" => b = "event_block"
           /\ c \in Gives \cup {"take_tail"} => b = "sem_preempt"
BY DEF Build, Exported, Gives

\* What a window of call c does: it captures both markers and the value of the
\* arm, and leaves to the next window what the entry established.
Outcome(c) ==
    /\ start' = Here(Arm[c][1]) /\ stop' = Here(Arm[c][2]) /\ rv' = Arm[c][3]
    /\ tail_sem' \in Semaphore
    /\ tail_sem'.waiter = tail_sem.waiter /\ tail_sem'.ticks = tail_sem.ticks
    /\ c \in {"take_tail", "take_no_wait"} => tail_sem'.count = tail_sem.count
    /\ tail_event' \in {{}, guard}
    /\ masked' \in BOOLEAN
    /\ masked' => masked \/ c = "take_tail"
    /\ c = "z_swap_prologue" => ~masked'
    /\ c \notin Prologues => swap_return_value' = "0"

\* IInv is carried over a window with that outcome.
LEMMA WindowKeeps ==
    ASSUME IInv, NEW c, Window(c), Outcome(c)
    PROVE  IInv'
<1> USE DEF call
<1>1. /\ c = plan[n] /\ n \in 1..3 /\ call' = c /\ call = c
      /\ UNCHANGED <<build, plan, n, i, read_window, cache>>
      /\ stage = "window" /\ stage' = "iterate"
  BY DEF IInv, InType, Window, Calls
<1>2. InType'
  BY <1>1 DEF IInv, InType, Outcome, Semaphore, guard
<1>3. Untouched'
  BY <1>1 DEF IInv, Untouched, Outcome
<1>4. Entered(c)'
  <2>1. Entered(c)
    BY <1>1 DEF IInv
  <2> QED
    BY <1>1, <2>1 DEF Entered, Outcome, ReadWindow
<1>5. Masks'
  <2>1. ASSUME masked' PROVE \E k \in 1..3 : MaskedBy(k)'
    <3>1. CASE c = "take_tail"
      <4>1. MaskedBy(n)'
        BY <3>1, <1>1 DEF MaskedBy
      <4> QED
        BY <4>1, <1>1
    <3>2. CASE masked
      BY <3>2, <1>1 DEF IInv, Masks, MaskedBy
    <3> QED
      BY <2>1, <3>1, <3>2 DEF Outcome
  <2> QED
    BY <2>1, <1>1 DEF Masks, Outcome
<1>6. ReplaysItsArm'
  BY <1>1 DEF ReplaysItsArm, Outcome, Here
<1> QED
  BY <1>1, <1>2, <1>3, <1>4, <1>5, <1>6 DEF IInv

-----------------------------------------------------------------------------
\* One lemma for each replay: under IInv it takes the arm of its call.

\* What IInv says at the beginning of a window of call c.
LEMMA AtWindow ==
    ASSUME IInv, NEW c, Window(c)
    PROVE  /\ c \in Exported[build] /\ build \in Build
           /\ Untouched /\ Entered(c)
           /\ tail_sem \in Semaphore /\ tail_event \in {{}, guard} /\ masked \in BOOLEAN
BY DEF IInv, InType, Window, Calls, call

LEMMA SwapPrologueOutcome ==
    ASSUME IInv, SwapPrologue PROVE Outcome("z_swap_prologue")
BY AtWindow DEF SwapPrologue, sim_arch_swap_prologue, StopInSwap, Outcome, Arm, Prologues

LEMMA SwapTailOutcome ==
    ASSUME IInv, SwapTail PROVE Outcome("z_swap_tail")
BY AtWindow DEF SwapTail, sim_arch_swap_tail, StopInProbe, Outcome, Arm, Prologues, Entered

LEMMA TakeTailOutcome ==
    ASSUME IInv, TakeTail PROVE Outcome("take_tail")
<1>1. tail_sem.count = 0 /\ tail_sem.ticks = "K_FOREVER" /\ swap_return_value = "0"
  BY AtWindow DEF TakeTail, Entered, Prologues
<1>2. tail_sem \in Semaphore /\ tail_event \in {{}, guard}
  BY AtWindow DEF TakeTail
<1> QED
  BY <1>1, <1>2 DEF TakeTail, sim_arch_swap_tail, StopInProbe, Outcome, Arm

LEMMA GiveNoSwapOutcome ==
    ASSUME IInv, GiveNoSwap
    PROVE  \E c \in Gives : Window(c) /\ Outcome(c)
<1>1. PICK c \in Gives : Window(c)
  BY DEF GiveNoSwap, Gives
<1>2. /\ tail_sem \in Semaphore /\ tail_event \in {{}, guard} /\ masked \in BOOLEAN
      /\ cache = "current" /\ swap_return_value = "0"
  BY <1>1, AtWindow DEF Entered, Gives, Prologues
<1>3. StartAndUnlock(masked)
  BY <1>2 DEF GiveNoSwap
<1>4. /\ tail_sem' \in Semaphore
      /\ tail_sem'.waiter = tail_sem.waiter /\ tail_sem'.ticks = tail_sem.ticks
  <2>1. CASE tail_sem.waiter
    BY <2>1, <1>2 DEF GiveNoSwap
  <2>2. CASE ~tail_sem.waiter
    BY <2>2, <1>2, LoopAssumption DEF GiveNoSwap, Semaphore
  <2> QED
    BY <2>1, <2>2
<1>5. Arm[c] = <<"unlock", "probe", "none">>
  BY DEF Arm, Gives
<1> QED
  BY <1>1, <1>2, <1>3, <1>4, <1>5 DEF GiveNoSwap, StartAndUnlock, StopInProbe, Outcome, Gives

LEMMA TakeNoWaitOutcome ==
    ASSUME IInv, TakeNoWait PROVE Outcome("take_no_wait")
<1>1. /\ tail_sem.count = 0 /\ swap_return_value = "0"
      /\ tail_sem \in Semaphore /\ tail_event \in {{}, guard} /\ masked \in BOOLEAN
  BY AtWindow DEF TakeNoWait, Entered, Prologues
<1>2. tail_sem.ticks = "K_NO_WAIT"
  BY AtWindow, Exports DEF TakeNoWait, Untouched
<1> QED
  BY <1>1, <1>2 DEF TakeNoWait, StartAndUnlock, StopInProbe, Outcome, Arm

LEMMA GiveSwapOutcome ==
    ASSUME IInv, GiveSwap PROVE Outcome("give_tail")
<1>1. cache = "NULL"
  BY AtWindow, Exports DEF GiveSwap, Untouched
<1>2. /\ tail_sem \in Semaphore /\ tail_event \in {{}, guard} /\ masked \in BOOLEAN
      /\ swap_return_value = "0"
  BY AtWindow DEF GiveSwap, Entered, Prologues
<1> QED
  BY <1>1, <1>2 DEF GiveSwap, RescheduleSwapTail, sim_arch_swap_tail, StopInProbe, Outcome, Arm

LEMMA PostSwapOutcome ==
    ASSUME IInv, PostSwap PROVE Outcome("post_tail")
<1>1. cache = "NULL"
  BY AtWindow, Exports DEF PostSwap, Untouched
<1>2. tail_sem \in Semaphore /\ masked \in BOOLEAN /\ swap_return_value = "0"
  BY AtWindow DEF PostSwap, Entered, Prologues
<1> QED
  BY <1>1, <1>2 DEF PostSwap, RescheduleSwapTail, sim_arch_swap_tail, StopInProbe, Outcome, Arm

LEMMA EventTailOutcome ==
    ASSUME IInv, EventTail PROVE Outcome("event_tail")
BY AtWindow DEF EventTail, StartAndUnlock, StopInProbe, Outcome, Arm, Entered, Prologues

\* sim_guard and sim_wait_request do not overlap: both waits find nothing.
LEMMA NoBitFound == \A e \in {{}, guard} : e \cap sim_wait_request = {}
BY DEF guard, sim_wait_request

LEMMA WaitTailForeverOutcome ==
    ASSUME IInv, WaitTailForever PROVE Outcome("wait_tail")
<1>1. /\ tail_sem \in Semaphore /\ tail_event \in {{}, guard} /\ masked \in BOOLEAN
      /\ swap_return_value = "0"
  BY AtWindow DEF WaitTailForever, WaitTail, Entered, Prologues
<1> QED
  BY <1>1, NoBitFound DEF WaitTailForever, WaitTail, sim_arch_swap_tail, StopInProbe, Outcome, Arm

LEMMA WaitTailNoWaitOutcome ==
    ASSUME IInv, WaitTailNoWait PROVE Outcome("wait_no_wait")
<1>1. /\ tail_sem \in Semaphore /\ tail_event \in {{}, guard} /\ masked \in BOOLEAN
      /\ swap_return_value = "0"
  BY AtWindow DEF WaitTailNoWait, WaitTail, Entered, Prologues
<1> QED
  BY <1>1, NoBitFound DEF WaitTailNoWait, WaitTail, StartAndUnlock, StopInProbe, Outcome, Arm

LEMMA WaitPrologueOutcome ==
    ASSUME IInv, WaitPrologue PROVE Outcome("wait_prologue")
<1>1. tail_sem \in Semaphore /\ tail_event \in {{}, guard}
  BY AtWindow DEF WaitPrologue
<1> QED
  BY <1>1, NoBitFound DEF WaitPrologue, sim_z_pend_curr_prologue, sim_arch_swap_prologue,
                          StopInSwap, Outcome, Arm, Prologues

LEMMA ResumeTailOutcome ==
    ASSUME IInv, ResumeTail PROVE Outcome("resume_tail")
BY AtWindow DEF ResumeTail, StartAndUnlock, StopInProbe, Outcome, Arm, Entered, Prologues

LEMMA SuspendTailOutcome ==
    ASSUME IInv, SuspendTail PROVE Outcome("suspend_tail")
BY AtWindow DEF SuspendTail, sim_arch_swap_tail, StopInProbe, Outcome, Arm, Entered, Prologues

\* Every replay preserves IInv.
LEMMA ReplayStep == ASSUME IInv, Replay PROVE IInv'
<1>1. CASE SwapPrologue
  BY <1>1, SwapPrologueOutcome, WindowKeeps DEF SwapPrologue
<1>2. CASE SwapTail
  BY <1>2, SwapTailOutcome, WindowKeeps DEF SwapTail
<1>3. CASE TakeTail
  BY <1>3, TakeTailOutcome, WindowKeeps DEF TakeTail
<1>4. CASE GiveNoSwap
  BY <1>4, GiveNoSwapOutcome, WindowKeeps
<1>5. CASE TakeNoWait
  BY <1>5, TakeNoWaitOutcome, WindowKeeps DEF TakeNoWait
<1>6. CASE GiveSwap
  BY <1>6, GiveSwapOutcome, WindowKeeps DEF GiveSwap
<1>7. CASE PostSwap
  BY <1>7, PostSwapOutcome, WindowKeeps DEF PostSwap
<1>8. CASE EventTail
  BY <1>8, EventTailOutcome, WindowKeeps DEF EventTail
<1>9. CASE WaitTailForever
  BY <1>9, WaitTailForeverOutcome, WindowKeeps DEF WaitTailForever, WaitTail
<1>10. CASE WaitTailNoWait
  BY <1>10, WaitTailNoWaitOutcome, WindowKeeps DEF WaitTailNoWait, WaitTail
<1>11. CASE WaitPrologue
  BY <1>11, WaitPrologueOutcome, WindowKeeps DEF WaitPrologue
<1>12. CASE ResumeTail
  BY <1>12, ResumeTailOutcome, WindowKeeps DEF ResumeTail
<1>13. CASE SuspendTail
  BY <1>13, SuspendTailOutcome, WindowKeeps DEF SuspendTail
<1> QED
  BY <1>1, <1>2, <1>3, <1>4, <1>5, <1>6, <1>7, <1>8, <1>9, <1>10, <1>11, <1>12, <1>13
  DEF Replay

-----------------------------------------------------------------------------
\* The other steps

\* The entry of a probe establishes what its windows rest on.
LEMMA EnterStep == ASSUME IInv, Enter PROVE IInv'
<1> USE DEF call
<1>1. /\ n \in 1..3 /\ stage = "enter" /\ stage' = "window" /\ call' = call
      /\ UNCHANGED <<build, plan, n, masked, tail_event, start, stop, rv>>
  BY DEF Enter, IInv, InType
<1>2. call \in Exported[build] /\ build \in Build
  BY <1>1 DEF IInv, InType
<1>3. /\ tail_sem \in Semaphore
      /\ call \in Gives =>
            InitSem(call = "give_has_waiter", tail_sem.ticks) /\ cache' = "current"
      /\ call = "take_tail" => InitSem(FALSE, "K_FOREVER") /\ UNCHANGED cache
      /\ call = "take_no_wait" => InitSem(FALSE, tail_sem.ticks) /\ UNCHANGED cache
      /\ call \notin Gives \cup {"take_tail", "take_no_wait"} => UNCHANGED <<tail_sem, cache>>
  BY DEF Enter, IInv, InType, Gives
<1>4. tail_sem' \in Semaphore
  <2>1. CASE call = "give_has_waiter"
    <3>1. InitSem(TRUE, tail_sem.ticks)
      BY <2>1, <1>3 DEF Gives, InitSem
    <3> QED
      BY <1>3, <3>1 DEF InitSem, Semaphore
  <2>2. CASE call = "give_no_waiter"
    <3>1. InitSem(FALSE, tail_sem.ticks)
      BY <2>2, <1>3 DEF Gives, InitSem
    <3> QED
      BY <1>3, <3>1 DEF InitSem, Semaphore
  <2>3. CASE call = "take_tail"
    <3>1. InitSem(FALSE, "K_FOREVER")
      BY <2>3, <1>3
    <3> QED
      BY <3>1 DEF InitSem, Semaphore
  <2>4. CASE call = "take_no_wait"
    <3>1. tail_sem \in Semaphore /\ InitSem(FALSE, tail_sem.ticks)
      BY <2>4, <1>3
    <3> QED
      BY <3>1 DEF InitSem, Semaphore
  <2>5. CASE call \notin Gives \cup {"take_tail", "take_no_wait"}
    BY <2>5, <1>3
  <2> QED
    BY <2>1, <2>2, <2>3, <2>4, <2>5 DEF Gives
<1>5. InType'
  BY <1>1, <1>4 DEF IInv, InType, Enter, guard
<1>6. Untouched'
  BY <1>1, <1>2, <1>3, Exports DEF Untouched, InitSem, IInv
<1>7. Entered(call)'
  <2>1. swap_return_value' = "0" /\ read_window' = ReadWindow(build, call)
    BY DEF Enter, sim_kernel_init
  <2> QED
    BY <1>1, <1>3, <2>1 DEF Entered, InitSem, Gives, ReadWindow
<1>8. Masks'
  BY <1>1 DEF Masks, MaskedBy, IInv
<1>9. ReplaysItsArm'
  BY <1>1 DEF ReplaysItsArm
<1> QED
  BY <1>1, <1>5, <1>6, <1>7, <1>8, <1>9 DEF IInv

\* A call that has not unmasked the interrupts does not end what masked them.
LEMMA IterateStep == ASSUME IInv, Iterate PROVE IInv'
<1> USE DEF call
<1>1. /\ stage = "iterate" /\ n \in 1..3
      /\ UNCHANGED <<build, plan, masked, swap_return_value, static, start, stop, rv, read_window>>
      /\ \/ stage' = "window" /\ i' = i + 1 /\ n' = n
         \/ stage' = "enter" /\ i' = 0 /\ n' = n + 1
  BY DEF Iterate, IInv, InType
<1>2. InType'
  BY <1>1 DEF IInv, InType, static
<1>3. Untouched'
  BY <1>1 DEF IInv, Untouched, static
<1>4. stage' = "window" => Entered(call)'
  BY <1>1 DEF IInv, Entered, static, ReadWindow
<1>5. Masks'
  <2>1. ASSUME masked PROVE \E k \in 1..3 : MaskedBy(k)'
    <3>1. PICK k \in 1..3 : MaskedBy(k)
      BY <2>1 DEF IInv, Masks
    <3>2. plan[n] # "z_swap_prologue"
      BY <2>1, <1>1 DEF IInv, Masks
    <3>3. MaskedBy(k)'
      BY <3>1, <3>2, <1>1 DEF MaskedBy
    <3> QED
      BY <3>3
  <2> QED
    BY <2>1, <1>1 DEF Masks
<1>6. ReplaysItsArm'
  BY <1>1 DEF ReplaysItsArm
<1> QED
  BY <1>1, <1>2, <1>3, <1>4, <1>5, <1>6 DEF IInv

LEMMA CreateStep == ASSUME IInv, CreateITask PROVE IInv'
BY DEF CreateITask, IInv, InType, Untouched, Masks, MaskedBy, ReplaysItsArm, static

LEMMA StutterStep == ASSUME IInv, UNCHANGED simvars PROVE IInv'
BY DEF simvars, static, call, IInv, InType, Untouched, Entered, ReadWindow, Masks, MaskedBy,
       ReplaysItsArm, Here

LEMMA InitInvariant == SimInit => IInv
<1> SUFFICES ASSUME SimInit PROVE IInv
  OBVIOUS
<1>1. build \in Build /\ plan \in [1..3 -> Exported[build]]
  BY DEF SimInit, Build, Exported
<1>2. /\ plan \in [1..3 -> UNION {Exported[b] : b \in Build}]
      /\ \A k \in 1..3 : plan[k] \in Exported[build]
  BY <1>1
<1>3. tail_sem \in Semaphore
  BY DEF SimInit, Semaphore
<1>4. InType
  <2>1. n \in 1..4 /\ i \in Nat
    <3>1. n = 1 /\ i = 0
      BY DEF SimInit
    <3> QED
      BY <3>1
  <2>2. masked \in BOOLEAN
    BY Zenon DEF SimInit
  <2>3. stage \in {"enter", "window", "iterate", "created"} /\ stage \notin {"window", "iterate"}
    BY DEF SimInit
  <2>4. tail_event \in {{}, guard}
    BY DEF SimInit
  <2> QED
    BY <1>1, <1>2, <1>3, <2>1, <2>2, <2>3, <2>4 DEF InType
<1>5. Untouched /\ Masks /\ ReplaysItsArm
  BY DEF SimInit, Untouched, Masks, ReplaysItsArm
<1> QED
  BY <1>4, <1>5 DEF SimInit, IInv

\* The inductive invariant: what each probe's entry leaves to its windows, and
\* which call has masked the interrupts.
THEOREM Invariance == SimSpec => []IInv
<1>1. IInv /\ [SimNext]_simvars => IInv'
  BY EnterStep, ReplayStep, IterateStep, CreateStep, StutterStep DEF SimNext
<1> QED
  BY <1>1, InitInvariant, PTL DEF SimSpec

-----------------------------------------------------------------------------
\* Every series is fed with two markers of its own window, taken on the arm that
\* the probe is about, whatever probes ran before.
THEOREM Arms == SimSpec => []ReplaysItsArm
<1>1. IInv => ReplaysItsArm
  BY DEF IInv
<1> QED
  BY <1>1, Invariance, PTL

\* What the three calls of a main() have in common.
LEMMA MainCalls ==
    ASSUME NEW b \in Build, NEW p, IsMain(b, p), NEW k \in 1..3
    PROVE  /\ p[k] \notin {"z_swap_tail", "wait_prologue"}
           /\ p[k] = "take_tail" => k = 2 /\ p[3] = "z_swap_prologue"
<1>1. CASE b = "sem_preempt"
  <2>1. p[1] \in Gives /\ p[2] = "take_tail" /\ p[3] = "z_swap_prologue"
    BY <1>1 DEF IsMain, Gives
  <2> QED
    BY <2>1 DEF Gives
<1>2. CASE b = "event_preempt"
  <2>1. p = <<"event_tail", "wait_tail", "z_swap_prologue">>
    BY <1>2 DEF IsMain
  <2> QED
    BY <2>1
<1>3. CASE b = "sem_block"
  <2>1. p = <<"z_swap_prologue", "give_tail", "take_no_wait">>
    BY <1>3 DEF IsMain
  <2> QED
    BY <2>1
<1>4. CASE b = "event_block"
  <2>1. p = <<"z_swap_prologue", "post_tail", "wait_no_wait">>
    BY <1>4 DEF IsMain
  <2> QED
    BY <2>1
<1>5. CASE b = "task_preempt"
  <2>1. p = <<"resume_tail", "suspend_tail", "z_swap_prologue">>
    BY <1>5 DEF IsMain
  <2> QED
    BY <2>1
<1> QED
  BY <1>1, <1>2, <1>3, <1>4, <1>5 DEF Build

\* The series subtracts the cross-function read if and only if its stop marker
\* is taken inside the replay.
THEOREM Overheads == SimSpec => []ReadOverhead
<1>1. IInv => ReadOverhead
  <2> SUFFICES ASSUME IInv, stage = "iterate", build = "event_preempt" \/ IsMain(build, plan)
               PROVE  read_window = "CROSS_FUNCTIONS" <=> stop.at = "swap"
    BY DEF ReadOverhead
  <2>1. /\ n \in 1..3 /\ build \in Build /\ call = plan[n] /\ call \in Exported[build]
        /\ read_window = ReadWindow(build, call)
        /\ stop.at = Arm[call][2]
    BY DEF IInv, InType, Entered, ReplaysItsArm, Here, call
  <2>2. stop.at = "swap" <=> call \in Prologues
    BY <2>1 DEF Arm, Prologues, Build, Exported
  <2>3. CASE build = "event_preempt"
    BY <2>1, <2>2, <2>3 DEF ReadWindow, Prologues
  <2>4. CASE build # "event_preempt" /\ IsMain(build, plan)
    <3>1. call \notin {"z_swap_tail", "wait_prologue"}
      BY <2>1, <2>4, MainCalls
    <3> QED
      BY <2>1, <2>2, <3>1 DEF ReadWindow, Prologues
  <2> QED
    BY <2>3, <2>4
<1> QED
  BY <1>1, Invariance, PTL

\* Only the replay of a blocking take leaves the interrupts masked, and they are
\* on again when main() creates I_Task.
THEOREM Unmasked == SimSpec => []UnmaskedAtTheEnd
<1>1. IInv => UnmaskedAtTheEnd
  <2> SUFFICES ASSUME IInv PROVE UnmaskedAtTheEnd
    OBVIOUS
  <2>1. masked => \E k \in 1..3 : MaskedBy(k)
    BY DEF IInv, Masks
  <2>2. ASSUME n > 3, IsMain(build, plan), masked PROVE FALSE
    <3>1. PICK k \in 1..3 : MaskedBy(k)
      BY <2>1, <2>2
    <3>2. n = 4 /\ build \in Build
      BY <2>2 DEF IInv, InType
    <3>3. k = 2 /\ plan[3] = "z_swap_prologue"
      BY <2>2, <3>1, <3>2, MainCalls DEF MaskedBy
    <3> QED
      BY <3>1, <3>2, <3>3 DEF MaskedBy
  <2> QED
    BY <2>1, <2>2 DEF UnmaskedAtTheEnd, MaskedBy
<1> QED
  BY <1>1, Invariance, PTL

-----------------------------------------------------------------------------
(***************************************************************************)
(* MemAdapter                                                              *)
(***************************************************************************)

\* The harness holds piece k of an arena that is cut into pieces of one size.
PieceAt(k) == [base |-> k * granularity, bytes |-> granularity]
PiecesAt(K) == {PieceAt(k) : k \in K}
Indexes == 0..((MEM_ARENA_SIZE \div granularity) - 1)

MemType ==
    /\ adapter \in Heaps \cup FixedSize
    /\ granularity \in {0} \cup Granularity
    /\ slab \in [free : SUBSET Nat, num_used : Nat, num_blocks : Nat]
    /\ bitmap \in [0..(MEM_S_MAX - MEM_S_MIN) -> SUBSET Nat]
    /\ test_live \in 0..(MEM_S_MAX - MEM_S_MIN)

\* Before the first create nothing is held and nothing counts as used.
MemIdle ==
    granularity = 0 =>
        live = {} /\ slab.num_used = 0 /\ slab.num_blocks = 0 /\ bitmap[test_live] = {}

\* The free list and the pieces of the harness are the whole arena.
SlabInv ==
    adapter = "mem_slab" /\ granularity # 0 =>
        /\ slab.num_blocks = MEM_ARENA_SIZE \div granularity
        /\ slab.free \subseteq Indexes
        /\ live = PiecesAt(Indexes \ slab.free)
        /\ slab.num_used = Cardinality(Indexes \ slab.free)

\* The bits of the pool the arena is cut into are the pieces of the harness.
PoolInv ==
    adapter = "mem_blocks" /\ granularity # 0 =>
        /\ blk_size(test_live) = granularity
        /\ bitmap[test_live] \subseteq Indexes
        /\ live = PiecesAt(bitmap[test_live])

\* The chunks of heap h are a row from the header to the end of the arena.
Tiled(h) ==
    /\ h = [c \in DOMAIN h |-> h[c]]
    /\ DOMAIN h \subseteq 0..(MEM_ARENA_SIZE - 1)
    /\ 0 \in DOMAIN h /\ h[0].used
    /\ \A c \in DOMAIN h :
          /\ h[c] \in [size : Nat \ {0}, used : BOOLEAN]
          /\ c + h[c].size \in DOMAIN h \cup {MEM_ARENA_SIZE}
    /\ \A c, d \in DOMAIN h : c < d => c + h[c].size <= d

\* Piece p is what the harness has of a used chunk of heap h.
Held(h, p) ==
    /\ p \in [base : Nat, bytes : Nat]
    /\ p.base - CHUNK_HEADER \in DOMAIN h \ {0}
    /\ h[p.base - CHUNK_HEADER].used
    /\ h[p.base - CHUNK_HEADER].size = p.bytes + CHUNK_HEADER

\* The used chunks but the header are the pieces of the harness.
AllHeld(h, P) ==
    /\ \A p \in P : Held(h, p)
    /\ \A c \in DOMAIN h \ {0} : h[c].used => \E p \in P : p.base - CHUNK_HEADER = c

HeapInv ==
    adapter \in Heaps =>
        \/ heap = <<>> /\ granularity = 0
        \/ Tiled(heap) /\ AllHeld(heap, live)

MemInv == MemType /\ MemIdle /\ SlabInv /\ PoolInv /\ HeapInv

\* Pieces of one size do not overlap.
LEMMA Apart ==
    ASSUME NEW g \in Nat, NEW k \in Nat, NEW m \in Nat, k < m
    PROVE  k * g + g <= m * g
<1>1. PICK j \in Nat : m = k + 1 + j
  <2>1. m - k - 1 \in Nat /\ m = k + 1 + (m - k - 1)
    OBVIOUS
  <2> QED
    BY <2>1
<1>2. m * g = k * g + g + j * g /\ j * g >= 0
  BY <1>1
<1> QED
  BY <1>2

LEMMA IndexOf ==
    ASSUME NEW g \in Nat \ {0}, NEW k \in Nat
    PROVE  (k * g) \div g = k
OBVIOUS

LEMMA Whole ==
    ASSUME NEW g \in Nat \ {0}, MEM_ARENA_SIZE % g = 0
    PROVE  /\ MEM_ARENA_SIZE \div g \in Nat
           /\ (MEM_ARENA_SIZE \div g) * g = MEM_ARENA_SIZE
BY SizeAssumption

LEMMA ctzIs ==
    ASSUME NEW g \in Granularity
    PROVE  /\ ctz(g) \in S /\ 2^ctz(g) = g
           /\ MS_PIECES(g) = MEM_ARENA_SIZE \div g
           /\ MB_STEP_OF(g) \in 0..(MEM_S_MAX - MEM_S_MIN)
           /\ blk_size(MB_STEP_OF(g)) = g
<1>1. ctz(g) \in S /\ 2^ctz(g) = g
  BY DEF ctz, Granularity
<1>2. MB_STEP_OF(g) \in 0..(MEM_S_MAX - MEM_S_MIN) /\ MEM_S_MIN + MB_STEP_OF(g) = ctz(g)
  BY <1>1, SizeAssumption DEF MB_STEP_OF, S
<1> QED
  BY <1>1, <1>2 DEF MS_PIECES, blk_size

LEMMA GranularityIs ==
    ASSUME MemInv, granularity # 0
    PROVE  /\ granularity \in Granularity /\ granularity \in Nat \ {0}
           /\ MEM_ARENA_SIZE \div granularity \in Nat
           /\ (MEM_ARENA_SIZE \div granularity) * granularity = MEM_ARENA_SIZE
<1>1. granularity \in Granularity /\ granularity \in Nat \ {0} /\ MEM_ARENA_SIZE % granularity = 0
  BY SizeAssumption DEF MemInv, MemType
<1> QED
  BY <1>1, Whole

\* The pieces of the harness are as many as their indexes.
LEMMA PieceIs ==
    ASSUME granularity \in Nat \ {0}, NEW k \in Nat
    PROVE  /\ PieceAt(k).base = k * granularity /\ PieceAt(k).bytes = granularity
           /\ PieceAt(k).base \div granularity = k
BY IndexOf DEF PieceAt

LEMMA PiecesCount ==
    ASSUME granularity \in Nat \ {0}, NEW K \in SUBSET Nat, IsFiniteSet(K)
    PROVE  IsFiniteSet(PiecesAt(K)) /\ Cardinality(PiecesAt(K)) = Cardinality(K)
<1> DEFINE f == [k \in K |-> PieceAt(k)]
<1>1. f \in [K -> PiecesAt(K)]
  BY DEF PiecesAt
<1>2. \A x, y \in K : f[x] = f[y] => x = y
  <2> SUFFICES ASSUME NEW x \in K, NEW y \in K, f[x] = f[y] PROVE x = y
    OBVIOUS
  <2>1. PieceAt(x) = PieceAt(y)
    OBVIOUS
  <2> QED
    BY <2>1, PieceIs
<1>3. \A p \in PiecesAt(K) : \E k \in K : f[k] = p
  BY DEF PiecesAt
<1>4. f \in Bijection(K, PiecesAt(K))
  <2>1. IsInjective(f)
    BY <1>1, <1>2 DEF IsInjective
  <2> QED
    BY <1>1, <1>3, <2>1 DEF Bijection, Injection, Surjection
<1>5. ExistsBijection(K, PiecesAt(K))
  BY <1>4 DEF ExistsBijection
<1> QED
  BY <1>5, FS_Bijection

LEMMA IndexesFinite ==
    ASSUME MEM_ARENA_SIZE \div granularity \in Nat, NEW K \in SUBSET Indexes
    PROVE  /\ K \in SUBSET Nat /\ IsFiniteSet(K) /\ Cardinality(K) \in Nat
           /\ IsFiniteSet(Indexes \ K)
           /\ Cardinality(Indexes \ K) = (MEM_ARENA_SIZE \div granularity) - Cardinality(K)
<1>1. IsFiniteSet(Indexes) /\ Cardinality(Indexes) = MEM_ARENA_SIZE \div granularity
  <2>1. PICK w \in Nat : w = MEM_ARENA_SIZE \div granularity
    OBVIOUS
  <2>2. IsFiniteSet(0..(w - 1)) /\ Cardinality(0..(w - 1)) = IF 0 > w - 1 THEN 0 ELSE (w - 1) - 0 + 1
    BY FS_Interval
  <2> QED
    BY <2>1, <2>2 DEF Indexes
<1>2. IsFiniteSet(K) /\ IsFiniteSet(Indexes \ K)
  BY <1>1, FS_Subset
<1>3. Cardinality(K) \in Nat /\ Cardinality(Indexes \ K) \in Nat
  BY <1>2, FS_CardinalityType
<1>4. K \cup (Indexes \ K) = Indexes /\ K \cap (Indexes \ K) = {}
  OBVIOUS
<1>5. Cardinality(Indexes) = Cardinality(K) + Cardinality(Indexes \ K) - Cardinality({})
  BY ONLY <1>2, <1>4, FS_Union
<1>6. Cardinality({}) = 0
  BY FS_EmptySet
<1>7. K \in SUBSET Nat
  BY DEF Indexes
<1> QED
  BY <1>1, <1>2, <1>3, <1>5, <1>6, <1>7

-----------------------------------------------------------------------------
LEMMA EmptyHeapTiled == Tiled(EmptyHeap) /\ AllHeld(EmptyHeap, {})
<1> DEFINE h == EmptyHeap
<1>1. DOMAIN h = {0, HEAP_HEADER} /\ h = [c \in DOMAIN h |-> h[c]]
  BY DEF EmptyHeap
<1>2. HEAP_HEADER \in Nat /\ HEAP_HEADER # 0 /\ HEAP_HEADER < MEM_ARENA_SIZE /\ MEM_ARENA_SIZE \in Nat
  BY SizeAssumption
<1>3. h[0] = [size |-> HEAP_HEADER, used |-> TRUE]
      /\ h[HEAP_HEADER] = [size |-> MEM_ARENA_SIZE - HEAP_HEADER, used |-> FALSE]
  BY <1>2 DEF EmptyHeap
<1> HIDE DEF h
<1>4. Tiled(h)
  <2>1. \A c \in DOMAIN h : h[c] \in [size : Nat \ {0}, used : BOOLEAN]
                           /\ c + h[c].size \in DOMAIN h \cup {MEM_ARENA_SIZE}
    <3>1. h[0].size = HEAP_HEADER /\ h[HEAP_HEADER].size = MEM_ARENA_SIZE - HEAP_HEADER
      BY <1>3
    <3>2. 0 + h[0].size = HEAP_HEADER /\ HEAP_HEADER + h[HEAP_HEADER].size = MEM_ARENA_SIZE
      BY <3>1, <1>2
    <3>3. /\ h[0] \in [size : Nat \ {0}, used : BOOLEAN]
          /\ h[HEAP_HEADER] \in [size : Nat \ {0}, used : BOOLEAN]
      BY <1>2, <1>3
    <3> QED
      BY <1>1, <3>2, <3>3
  <2>2. \A c, d \in DOMAIN h : c < d => c = 0 /\ d = HEAP_HEADER
    BY <1>1, <1>2
  <2>3. \A c, d \in DOMAIN h : c < d => c + h[c].size <= d
    BY <1>2, <1>3, <2>2
  <2>4. h[0].used
    BY <1>3
  <2>5. DOMAIN h \subseteq 0..(MEM_ARENA_SIZE - 1)
    BY <1>1, <1>2
  <2> QED
    BY <1>1, <2>1, <2>3, <2>4, <2>5 DEF Tiled
<1>5. AllHeld(h, {})
  <2>1. \A c \in DOMAIN h \ {0} : ~h[c].used
    BY <1>1, <1>3
  <2> QED
    BY <2>1 DEF AllHeld
<1> QED
  BY <1>4, <1>5 DEF h

LEMMA MemInitInv == MemInit => MemInv
<1> SUFFICES ASSUME MemInit PROVE MemInv
  OBVIOUS
<1>1. 0 \in 0..(MEM_S_MAX - MEM_S_MIN)
  BY SizeAssumption
<1>2. MemType
  BY <1>1 DEF MemInit, MemType
<1>3. HeapInv
  BY EmptyHeapTiled DEF MemInit, HeapInv
<1> QED
  BY <1>1, <1>2, <1>3 DEF MemInit, MemInv, MemIdle, SlabInv, PoolInv

LEMMA CreateArenaKeeps ==
    ASSUME MemInv, NEW g \in Granularity, CreateArena(g) PROVE MemInv'
<1>1. granularity' = g /\ live' = {} /\ adapter' = adapter /\ g \in Nat \ {0} /\ MEM_ARENA_SIZE % g = 0
  BY SizeAssumption DEF CreateArena
<1>2. /\ MS_PIECES(g) = MEM_ARENA_SIZE \div g
      /\ MB_STEP_OF(g) \in 0..(MEM_S_MAX - MEM_S_MIN) /\ blk_size(MB_STEP_OF(g)) = g
      /\ MEM_ARENA_SIZE \div g \in Nat
  BY <1>1, ctzIs, Whole
<1>3. CASE CreateHeap(g)
  <2>1. heap' = EmptyHeap /\ adapter \in Heaps /\ slab' = slab /\ bitmap' = bitmap /\ test_live' = test_live
    BY <1>3 DEF CreateHeap
  <2>2. MemType'
    BY <1>1, <2>1 DEF MemInv, MemType
  <2>3. HeapInv'
    BY <1>1, <2>1, EmptyHeapTiled DEF HeapInv, Tiled, AllHeld, Held
  <2>4. adapter' \notin FixedSize
    BY <1>1, <2>1 DEF Heaps, FixedSize
  <2> QED
    BY <1>1, <2>2, <2>3, <2>4 DEF MemInv, MemIdle, SlabInv, PoolInv, FixedSize
<1>4. CASE CreateSlab(g)
  <2>1. /\ adapter = "mem_slab" /\ bitmap' = bitmap /\ test_live' = test_live
        /\ slab' = [free |-> 0..((MEM_ARENA_SIZE \div g) - 1), num_used |-> 0,
                    num_blocks |-> MEM_ARENA_SIZE \div g]
    BY <1>2, <1>4 DEF CreateSlab
  <2>2. MemType'
    BY <1>1, <1>2, <2>1 DEF MemInv, MemType
  <2>3. SlabInv'
    <3>1. Indexes' = 0..((MEM_ARENA_SIZE \div g) - 1) /\ Indexes' \ slab'.free = {}
      BY <1>1, <2>1 DEF Indexes
    <3> QED
      BY <1>1, <2>1, <3>1, FS_EmptySet DEF SlabInv, PiecesAt
  <2> QED
    BY <1>1, <2>1, <2>2, <2>3 DEF MemInv, MemIdle, HeapInv, PoolInv, Heaps
<1>5. CASE CreateBlocks(g)
  <2>1. /\ adapter = "mem_blocks" /\ slab' = slab /\ test_live' = MB_STEP_OF(g)
        /\ bitmap' = [bitmap EXCEPT ![MB_STEP_OF(g)] = {}]
    BY <1>5 DEF CreateBlocks
  <2>2. MemType' /\ bitmap'[test_live'] = {}
    BY <1>1, <1>2, <2>1 DEF MemInv, MemType
  <2>3. PoolInv'
    BY <1>1, <1>2, <2>1, <2>2 DEF PoolInv, PiecesAt, blk_size
  <2> QED
    BY <1>1, <2>1, <2>2, <2>3 DEF MemInv, MemIdle, HeapInv, SlabInv, Heaps
<1> QED
  BY <1>3, <1>4, <1>5 DEF CreateArena

LEMMA SameKeeps ==
    ASSUME MemInv, UNCHANGED <<adapter, granularity, heap, slab, bitmap, test_live, live>>
    PROVE  MemInv'
<1>1. MemType' /\ MemIdle'
  BY DEF MemInv, MemType, MemIdle
<1>2. SlabInv' /\ PoolInv'
  BY DEF MemInv, SlabInv, PoolInv, PiecesAt, PieceAt, Indexes, blk_size
<1>3. HeapInv'
  BY DEF MemInv, HeapInv, Tiled, AllHeld, Held
<1> QED
  BY <1>1, <1>2, <1>3 DEF MemInv

\* A refused call leaves everything as it was.
LEMMA RefuseKeeps == ASSUME MemInv, NEW count, Refuse(count) PROVE MemInv'
BY SameKeeps DEF Refuse

LEMMA AllocSlabKeeps == ASSUME MemInv, AllocSlab PROVE MemInv'
<1>1. adapter = "mem_slab" /\ granularity # 0
  BY DEF AllocSlab
<1>2. CASE Refuse(1)
  BY <1>2, RefuseKeeps
<1>3. ASSUME NEW k \in slab.free,
             slab' = [slab EXCEPT !.free = @ \ {k}, !.num_used = @ + 1],
             Hand(k * granularity, granularity), UNCHANGED <<heap, bitmap, test_live>>
      PROVE  MemInv'
  <2>1. /\ granularity' = granularity /\ adapter' = adapter
        /\ live' = live \cup {PieceAt(k)} /\ bitmap' = bitmap /\ test_live' = test_live
    BY <1>3 DEF Hand, PieceAt
  <2>2. /\ slab'.free = slab.free \ {k} /\ slab'.num_used = slab.num_used + 1
        /\ slab'.num_blocks = slab.num_blocks
        /\ slab' \in [free : SUBSET Nat, num_used : Nat, num_blocks : Nat]
    <3>1. slab \in [free : SUBSET Nat, num_used : Nat, num_blocks : Nat]
      BY DEF MemInv, MemType
    <3>2. slab' = [free |-> slab.free \ {k}, num_used |-> slab.num_used + 1, num_blocks |-> slab.num_blocks]
      BY <1>3, <3>1
    <3> QED
      BY <3>1, <3>2
  <2>3. /\ slab.num_blocks = MEM_ARENA_SIZE \div granularity
        /\ slab.free \subseteq Indexes
        /\ live = PiecesAt(Indexes \ slab.free)
        /\ slab.num_used = Cardinality(Indexes \ slab.free)
    BY <1>1 DEF MemInv, SlabInv
  <2>4. k \in Indexes /\ Indexes \ slab'.free = (Indexes \ slab.free) \cup {k} /\ k \notin Indexes \ slab.free
    BY <1>3, <2>2, <2>3
  <2>5. Cardinality(Indexes \ slab'.free) = slab.num_used + 1
    <3>1. IsFiniteSet(Indexes \ slab.free)
      BY <1>1, <2>3, GranularityIs, IndexesFinite
    <3> DEFINE U == Indexes \ slab.free
    <3>2. IsFiniteSet(U) /\ k \notin U
      BY <2>4, <3>1
    <3> HIDE DEF U
    <3>3. Cardinality(U \cup {k}) = Cardinality(U) + 1
      BY ONLY <3>2, FS_AddElement
    <3> QED
      BY <2>3, <2>4, <3>3 DEF U
  <2>6. live' = PiecesAt(Indexes \ slab'.free)
    BY <2>1, <2>3, <2>4 DEF PiecesAt
  <2>7. SlabInv'
    BY <2>1, <2>2, <2>3, <2>5, <2>6 DEF SlabInv, PiecesAt, PieceAt, Indexes
  <2>8. MemType'
    BY <2>1, <2>2 DEF MemInv, MemType
  <2> QED
    BY <1>1, <2>1, <2>7, <2>8 DEF MemInv, MemIdle, HeapInv, PoolInv, Heaps
<1> QED
  BY <1>2, <1>3 DEF AllocSlab

\* Setting bits of the live pool.
LEMMA TakeKeeps ==
    ASSUME MemInv, adapter = "mem_blocks", granularity # 0, NEW K \in SUBSET FreeBlocks,
           bitmap' = [bitmap EXCEPT ![test_live] = @ \cup K],
           live' = live \cup {[base |-> k * blk_size(test_live), bytes |-> granularity] : k \in K},
           UNCHANGED <<adapter, granularity, heap, slab, test_live>>
    PROVE  MemInv' /\ live' = PiecesAt(bitmap[test_live] \cup K)
<1>1. /\ blk_size(test_live) = granularity
      /\ bitmap[test_live] \subseteq Indexes
      /\ live = PiecesAt(bitmap[test_live])
  BY DEF MemInv, PoolInv
<1>2. K \subseteq Indexes
  BY <1>1 DEF FreeBlocks, num_blocks, Indexes
<1>3. live' = PiecesAt(bitmap[test_live] \cup K)
  BY <1>1 DEF PiecesAt, PieceAt
<1>4. K \subseteq Nat
  BY <1>2 DEF Indexes
<1>5. bitmap'[test_live] = bitmap[test_live] \cup K /\ MemType'
  BY <1>4 DEF MemInv, MemType
<1>6. PoolInv'
  BY <1>1, <1>2, <1>3, <1>5 DEF PoolInv, PiecesAt, PieceAt, Indexes, blk_size
<1> QED
  BY <1>3, <1>5, <1>6 DEF MemInv, MemIdle, HeapInv, SlabInv, Heaps

LEMMA AllocBlocksKeeps == ASSUME MemInv, AllocBlocks PROVE MemInv'
<1>1. adapter = "mem_blocks" /\ granularity # 0
  BY DEF AllocBlocks
<1>2. CASE Refuse(1)
  BY <1>2, RefuseKeeps
<1>3. ASSUME NEW k \in FreeBlocks,
             bitmap' = [bitmap EXCEPT ![test_live] = @ \cup {k}],
             Hand(k * blk_size(test_live), granularity), UNCHANGED <<heap, slab, test_live>>
      PROVE  MemInv'
  <2>1. /\ UNCHANGED <<adapter, granularity, heap, slab, test_live>>
        /\ live' = live \cup {[base |-> j * blk_size(test_live), bytes |-> granularity] : j \in {k}}
    BY <1>3 DEF Hand
  <2> QED
    BY <1>1, <1>3, <2>1, TakeKeeps
<1> QED
  BY <1>2, <1>3 DEF AllocBlocks

LEMMA AllocNKeeps == ASSUME MemInv, NEW count, AllocN(count) PROVE MemInv'
<1>1. adapter = "mem_blocks" /\ granularity # 0
  BY DEF AllocN
<1>2. CASE Refuse(count)
  BY <1>2, RefuseKeeps
<1>3. ASSUME NEW K \in kSubset(count, FreeBlocks), TakeBlocks(K)
      PROVE  MemInv'
  BY <1>1, <1>3, TakeKeeps DEF TakeBlocks, kSubset
<1> QED
  BY <1>2, <1>3 DEF AllocN

-----------------------------------------------------------------------------
\* The heap

\* Cutting a free chunk keeps the row of chunks, and every used one.
LEMMA CarveKeeps ==
    ASSUME Tiled(heap), NEW b \in Nat \ {0}, NEW c \in Fitting(b)
    PROVE  LET h == Carve(c, b)
           IN  /\ Tiled(h)
               /\ c \in DOMAIN h /\ c # 0 /\ h[c].used /\ h[c].size = b + CHUNK_HEADER
               /\ \A d \in DOMAIN heap : heap[d].used => d \in DOMAIN h /\ d # c /\ h[d] = heap[d]
               /\ \A d \in DOMAIN h : h[d].used /\ d # c => d \in DOMAIN heap /\ heap[d].used
<1> DEFINE need == b + CHUNK_HEADER
           right == right_chunk(c)
           h == Carve(c, b)
           D == DOMAIN heap
<1>1. /\ D \subseteq 0..(MEM_ARENA_SIZE - 1) /\ 0 \in D /\ heap[0].used
      /\ \A d \in D : heap[d] \in [size : Nat \ {0}, used : BOOLEAN]
      /\ \A d \in D : heap[d].size \in Nat \ {0} /\ d \in Nat /\ d < MEM_ARENA_SIZE
      /\ \A d \in D : d + heap[d].size \in D \cup {MEM_ARENA_SIZE}
      /\ \A d, e \in D : d < e => d + heap[d].size <= e
  BY SizeAssumption DEF Tiled
<1>2. c \in D /\ ~heap[c].used /\ heap[c].size >= need /\ c # 0 /\ need \in Nat \ {0}
      /\ right = c + heap[c].size /\ right \in D \cup {MEM_ARENA_SIZE}
      /\ c + need <= right /\ c < c + need
  BY <1>1, SizeAssumption DEF Fitting, right_chunk
<1>3. DOMAIN h = D \cup ({c + need} \ {right}) /\ h = [d \in DOMAIN h |-> h[d]]
  BY DEF Carve
<1>4. \A d \in D \cup ({c + need} \ {right}) :
         h[d] = IF d = c THEN [size |-> need, used |-> TRUE]
                ELSE IF d = c + need /\ need < heap[c].size
                     THEN [size |-> heap[c].size - need, used |-> FALSE]
                     ELSE heap[d]
  BY DEF Carve
<1>5. \A d \in D : d = c + need => ~(need < heap[c].size)
  BY <1>1, <1>2
<1>6. \A d \in D : d # c => h[d] = heap[d]
  BY <1>4, <1>5
<1>7. h[c] = [size |-> need, used |-> TRUE]
  BY <1>2, <1>4
<1>8. c + need # right => need < heap[c].size /\ c + need \notin D
      /\ h[c + need] = [size |-> heap[c].size - need, used |-> FALSE]
  <2> SUFFICES ASSUME c + need # right
               PROVE  need < heap[c].size /\ c + need \notin D
                      /\ h[c + need] = [size |-> heap[c].size - need, used |-> FALSE]
    OBVIOUS
  <2>1. heap[c].size \in Nat /\ c \in Nat
    BY <1>1, <1>2
  <2>2. need < heap[c].size
    BY <1>2, <2>1
  <2>3. c + need \notin D
    BY <1>5, <2>2
  <2>4. c + need # c /\ c + need \in D \cup ({c + need} \ {right})
    BY <1>2, <2>1
  <2> QED
    BY <1>4, <2>2, <2>3, <2>4
<1> HIDE DEF h, D, need, right
<1>9. CASE c + need = right
  <2>1. DOMAIN h = D /\ need = heap[c].size
    BY <1>1, <1>2, <1>3, <1>9
  <2>2. \A d \in D : h[d].size = heap[d].size
    BY <1>6, <1>7, <2>1
  <2>3. h[0].used
    BY <1>1, <1>2, <1>6
  <2>4. \A d \in D : h[d] \in [size : Nat \ {0}, used : BOOLEAN]
    <3>1. h[c] \in [size : Nat \ {0}, used : BOOLEAN]
      BY <1>2, <1>7
    <3>2. \A d \in D : d # c => h[d] \in [size : Nat \ {0}, used : BOOLEAN]
      BY <1>1, <1>6
    <3> QED
      BY <3>1, <3>2
  <2>5. Tiled(h)
    BY <1>1, <1>3, <2>1, <2>2, <2>3, <2>4 DEF Tiled
  <2>6. \A d \in DOMAIN h : h[d].used /\ d # c => d \in D /\ heap[d].used
    BY <1>6, <2>1
  <2> QED
    BY <1>2, <1>6, <1>7, <2>1, <2>5, <2>6 DEF D, h, need
<1>10. CASE c + need # right
  <2>1. PICK w : w = c + need
    OBVIOUS
  <2>2. /\ DOMAIN h = D \cup {w} /\ w \notin D /\ w \in Nat /\ c < w /\ w < right
        /\ h[w] = [size |-> right - w, used |-> FALSE] /\ right - w \in Nat \ {0}
    <3>1. heap[c].size \in Nat /\ c \in Nat /\ right = c + heap[c].size /\ need \in Nat \ {0}
      BY <1>1, <1>2
    <3>2. need < heap[c].size /\ w \notin D /\ h[w] = [size |-> heap[c].size - need, used |-> FALSE]
      BY <1>8, <1>10, <2>1
    <3>3. DOMAIN h = D \cup {w}
      BY <1>3, <1>10, <2>1
    <3>4. heap[c].size - need = right - w /\ c < w /\ w < right /\ w \in Nat /\ right - w \in Nat \ {0}
      BY <2>1, <3>1, <3>2
    <3> QED
      BY <3>2, <3>3, <3>4
  <2>3. h[w].size = right - w /\ h[c].size = w - c /\ \A d \in D : d # c => h[d].size = heap[d].size
    <3>1. need = w - c
      BY <1>1, <1>2, <2>1
    <3>2. h[c].size = need /\ h[w].size = right - w
      BY <1>7, <2>2
    <3> QED
      BY <1>6, <3>1, <3>2
  <2>4. \A d \in DOMAIN h : h[d] \in [size : Nat \ {0}, used : BOOLEAN]
    <3>1. h[c] \in [size : Nat \ {0}, used : BOOLEAN]
      BY <1>2, <1>7
    <3>2. \A d \in D : d # c => h[d] \in [size : Nat \ {0}, used : BOOLEAN]
      BY <1>1, <1>6
    <3>3. h[w] \in [size : Nat \ {0}, used : BOOLEAN]
      BY <2>2
    <3> QED
      BY <2>2, <3>1, <3>2, <3>3
  <2>5. \A d \in DOMAIN h : d + h[d].size \in DOMAIN h \cup {MEM_ARENA_SIZE}
    <3>1. w + h[w].size = right /\ c + h[c].size = w
      BY <1>1, <1>2, <2>2, <2>3
    <3>2. \A d \in D : d # c => d + h[d].size \in D \cup {MEM_ARENA_SIZE}
      BY <1>1, <2>3
    <3> QED
      BY <1>2, <2>2, <3>1, <3>2
  <2>6. \A d, e \in DOMAIN h : d < e => d + h[d].size <= e
    <3>1. \A e \in D : c < e => right <= e
      BY <1>1, <1>2
    <3>2. \A d \in D : d # c => (d < w => d < c)
      BY <1>1, <1>2, <2>2, <3>1
    <3> SUFFICES ASSUME NEW d \in DOMAIN h, NEW e \in DOMAIN h, d < e
                 PROVE  d + h[d].size <= e
      OBVIOUS
    <3>3. CASE d = w
      <4>1. e \in D /\ c < e /\ e \in Nat
        <5>1. w \in Nat /\ c \in Nat /\ c < w /\ w < e
          BY <1>1, <1>2, <2>2, <3>3
        <5>2. e \in D
          BY <2>2, <5>1
        <5>3. e \in Nat
          BY <1>1, <5>2
        <5> QED
          BY <5>1, <5>2, <5>3
      <4>2. right <= e /\ h[d].size = right - w
        BY <2>3, <3>1, <3>3, <4>1
      <4>3. right \in Nat /\ w \in Nat
        BY <1>1, <1>2, <2>2
      <4> QED
        BY <3>3, <4>1, <4>2, <4>3
    <3>4. CASE d = c
      BY <1>1, <1>2, <2>2, <2>3, <3>1, <3>4
    <3>5. CASE d \in D /\ d # c /\ e = w
      <4>1. d + heap[d].size <= c
        BY <1>1, <1>2, <3>2, <3>5
      <4> QED
        BY <1>1, <1>2, <2>2, <2>3, <3>5, <4>1
    <3>6. CASE d \in D /\ d # c /\ e \in D
      BY <1>1, <2>3, <3>6
    <3> QED
      BY <2>2, <3>3, <3>4, <3>5, <3>6
  <2>7. h[0].used /\ 0 \in DOMAIN h
    BY <1>1, <1>2, <1>6, <2>2
  <2>8. DOMAIN h \subseteq 0..(MEM_ARENA_SIZE - 1)
    <3>1. right <= MEM_ARENA_SIZE /\ right \in Nat
      BY <1>1, <1>2, SizeAssumption
    <3> QED
      BY <1>1, <2>2, <3>1, SizeAssumption
  <2>9. Tiled(h)
    BY <1>3, <2>4, <2>5, <2>6, <2>7, <2>8 DEF Tiled
  <2>10. \A d \in DOMAIN h : h[d].used /\ d # c => d \in D /\ heap[d].used
    BY <1>6, <2>2
  <2> QED
    BY <1>2, <1>6, <1>7, <2>2, <2>9, <2>10 DEF D, h, need
<1> QED
  BY <1>9, <1>10

LEMMA AllocHeapKeeps == ASSUME MemInv, NEW b \in Granularity, AllocHeap(b) PROVE MemInv'
<1>1. adapter \in Heaps /\ granularity # 0
  BY DEF AllocHeap
<1>2. CASE Refuse(1)
  BY <1>2, RefuseKeeps
<1>3. ASSUME NEW c \in Fitting(b), heap' = Carve(c, b), Hand(c + CHUNK_HEADER, b),
             UNCHANGED <<slab, bitmap, test_live>>
      PROVE  MemInv'
  <2>1. /\ granularity' = granularity /\ adapter' = adapter
        /\ live' = live \cup {[base |-> c + CHUNK_HEADER, bytes |-> b]}
    BY <1>3 DEF Hand
  <2>2. b \in Nat \ {0} /\ CHUNK_HEADER \in Nat
    BY SizeAssumption
  <2>3. /\ Tiled(heap) /\ \A p \in live : Held(heap, p)
        /\ \A d \in DOMAIN heap \ {0} : heap[d].used => \E p \in live : p.base - CHUNK_HEADER = d
    BY <1>1 DEF MemInv, HeapInv, AllHeld
  <2>4. /\ Tiled(heap')
        /\ c \in DOMAIN heap' /\ c # 0 /\ heap'[c].used /\ heap'[c].size = b + CHUNK_HEADER
        /\ \A d \in DOMAIN heap : heap[d].used => d \in DOMAIN heap' /\ d # c /\ heap'[d] = heap[d]
        /\ \A d \in DOMAIN heap' : heap'[d].used /\ d # c => d \in DOMAIN heap /\ heap[d].used
    BY <1>3, <2>2, <2>3, CarveKeeps
  <2>5. c \in Nat
    BY <2>4, SizeAssumption DEF Tiled
  <2>6. \A p \in live : Held(heap', p)
    BY <2>3, <2>4 DEF Held
  <2>7. PICK p : p = [base |-> c + CHUNK_HEADER, bytes |-> b]
    OBVIOUS
  <2>8. p \in [base : Nat, bytes : Nat] /\ p.bytes = b /\ p.base - CHUNK_HEADER = c
    BY <2>2, <2>5, <2>7
  <2>9. Held(heap', p)
    BY <2>4, <2>8 DEF Held
  <2>10. AllHeld(heap', live \cup {p})
    <3>1. \A q \in live \cup {p} : Held(heap', q)
      BY <2>6, <2>9
    <3>2. \A d \in DOMAIN heap' \ {0} :
             heap'[d].used => \E q \in live \cup {p} : q.base - CHUNK_HEADER = d
      BY <2>3, <2>4, <2>8
    <3> QED
      BY <3>1, <3>2 DEF AllHeld
  <2>11. HeapInv'
    BY <2>1, <2>4, <2>7, <2>10 DEF HeapInv, Tiled, AllHeld, Held
  <2>12. MemType'
    BY <1>3, <2>1 DEF MemInv, MemType
  <2> QED
    BY <1>1, <2>1, <2>11, <2>12 DEF MemInv, MemIdle, SlabInv, PoolInv, Heaps
<1> QED
  BY <1>2, <1>3 DEF AllocHeap

\* Chunks from a up to z become one free chunk.
LEMMA JoinKeeps ==
    ASSUME Tiled(heap), NEW a \in DOMAIN heap \ {0},
           NEW z \in DOMAIN heap \cup {MEM_ARENA_SIZE}, a < z,
           NEW h, h = [d \in DOMAIN heap \ (a + 1)..(z - 1) |->
                          IF d = a THEN [size |-> z - a, used |-> FALSE] ELSE heap[d]]
    PROVE  /\ Tiled(h)
           /\ \A e \in DOMAIN heap : ~(a <= e /\ e < z) => e \in DOMAIN h /\ h[e] = heap[e]
           /\ \A e \in DOMAIN h : h[e].used => e \in DOMAIN heap /\ heap[e].used /\ ~(a <= e /\ e < z)
<1> DEFINE D == DOMAIN heap
<1>1. /\ D \subseteq 0..(MEM_ARENA_SIZE - 1) /\ 0 \in D /\ heap[0].used
      /\ \A d \in D : heap[d] \in [size : Nat \ {0}, used : BOOLEAN]
      /\ \A d \in D : heap[d].size \in Nat \ {0} /\ d \in Nat /\ d < MEM_ARENA_SIZE
      /\ \A d \in D : d + heap[d].size \in D \cup {MEM_ARENA_SIZE}
      /\ \A d, e \in D : d < e => d + heap[d].size <= e
  BY SizeAssumption DEF Tiled
<1>2. /\ a \in D /\ a # 0 /\ a \in Nat /\ z \in Nat /\ a < z /\ z \in D \cup {MEM_ARENA_SIZE}
      /\ z - a \in Nat \ {0} /\ MEM_ARENA_SIZE \in Nat /\ z <= MEM_ARENA_SIZE
  BY <1>1, SizeAssumption
<1> HIDE DEF D
<1>3. DOMAIN h = D \ (a + 1)..(z - 1) /\ h = [d \in DOMAIN h |-> h[d]]
  BY DEF D
<1>4. \A d \in D : d \in DOMAIN h <=> (d <= a \/ z <= d)
  BY <1>1, <1>2, <1>3
<1>5. DOMAIN h \subseteq D
  BY <1>3
<1>6. h[a] = [size |-> z - a, used |-> FALSE] /\ a \in DOMAIN h
  <2>1. a \in DOMAIN h
    BY <1>2, <1>4
  <2> QED
    BY <2>1
<1>7. \A d \in DOMAIN h : d # a => h[d] = heap[d]
  OBVIOUS
<1>8. \A d \in DOMAIN h : h[d] \in [size : Nat \ {0}, used : BOOLEAN]
  <2>1. h[a] \in [size : Nat \ {0}, used : BOOLEAN]
    BY <1>2, <1>6
  <2>2. \A d \in DOMAIN h : d # a => h[d] \in [size : Nat \ {0}, used : BOOLEAN]
    BY <1>1, <1>5, <1>7
  <2> QED
    BY <2>1, <2>2
<1>9. h[a].size = z - a /\ \A d \in DOMAIN h : d # a => h[d].size = heap[d].size
  BY <1>6, <1>7
<1>10. \A d \in DOMAIN h : d + h[d].size \in DOMAIN h \cup {MEM_ARENA_SIZE}
  <2> SUFFICES ASSUME NEW d \in DOMAIN h
               PROVE  d + h[d].size \in DOMAIN h \cup {MEM_ARENA_SIZE}
    OBVIOUS
  <2>1. d \in D /\ d \in Nat /\ (d <= a \/ z <= d)
    BY <1>1, <1>4, <1>5
  <2>2. CASE d = a
    <3>1. a + h[a].size = z
      BY <1>2, <1>9
    <3>2. z \in D => z \in DOMAIN h
      BY <1>2, <1>4
    <3> QED
      BY <1>2, <2>2, <3>1, <3>2
  <2>3. CASE d # a
    <3>1. PICK r : r = d + h[d].size
      OBVIOUS
    <3>2. r = d + heap[d].size /\ heap[d].size \in Nat
      BY <1>1, <1>9, <2>1, <2>3, <3>1
    <3>3. r \in D \cup {MEM_ARENA_SIZE} /\ r \in Nat
      BY <1>1, <2>1, <3>2
    <3>4. d < a => r <= a
      BY <1>1, <1>2, <2>1, <3>2
    <3>5. r <= a \/ z <= r
      BY <1>2, <2>1, <2>3, <3>2, <3>4
    <3>6. r \in D => r \in DOMAIN h
      BY <1>4, <3>5
    <3> QED
      BY <3>1, <3>3, <3>6
  <2> QED
    BY <2>2, <2>3
<1>11. \A d, e \in DOMAIN h : d < e => d + h[d].size <= e
  <2> SUFFICES ASSUME NEW d \in DOMAIN h, NEW e \in DOMAIN h, d < e
               PROVE  d + h[d].size <= e
    OBVIOUS
  <2>1. d \in D /\ e \in D /\ d \in Nat /\ e \in Nat /\ (e <= a \/ z <= e)
    BY <1>1, <1>4, <1>5
  <2>2. CASE d = a
    BY <1>2, <1>9, <2>1, <2>2
  <2>3. CASE d # a
    BY <1>1, <1>9, <2>1, <2>3
  <2> QED
    BY <2>2, <2>3
<1>12. 0 \in DOMAIN h /\ h[0].used
  <2>1. 0 \in DOMAIN h
    BY <1>1, <1>2, <1>4
  <2> QED
    BY <1>1, <1>2, <1>7, <2>1
<1>13. Tiled(h)
  BY <1>1, <1>3, <1>5, <1>8, <1>10, <1>11, <1>12 DEF Tiled
<1>14. ASSUME NEW e \in D, ~(a <= e /\ e < z)
       PROVE  e \in DOMAIN h /\ h[e] = heap[e]
  <2>1. e \in Nat /\ e # a
    BY <1>1, <1>2, <1>14
  <2>2. e <= a \/ z <= e
    BY <1>2, <1>14, <2>1
  <2> QED
    BY <1>4, <1>7, <1>14, <2>1, <2>2
<1>15. ASSUME NEW e \in DOMAIN h, h[e].used
       PROVE  e \in D /\ heap[e].used /\ ~(a <= e /\ e < z)
  <2>1. e # a
    BY <1>6, <1>15
  <2>2. e \in D /\ heap[e].used
    BY <1>5, <1>7, <1>15, <2>1
  <2>3. e \in Nat /\ (e <= a \/ z <= e)
    BY <1>1, <1>4, <1>15, <2>2
  <2> QED
    BY <1>2, <2>1, <2>2, <2>3
<1> QED
  BY <1>13, <1>14, <1>15 DEF D

\* Freeing a used chunk keeps the row of chunks, and every other used one.
LEMMA MergedKeeps ==
    ASSUME Tiled(heap), NEW c \in DOMAIN heap \ {0}, heap[c].used
    PROVE  /\ Tiled(Merged(c))
           /\ \A e \in DOMAIN heap : heap[e].used /\ e # c =>
                 e \in DOMAIN Merged(c) /\ Merged(c)[e] = heap[e]
           /\ \A e \in DOMAIN Merged(c) : Merged(c)[e].used => e \in DOMAIN heap /\ heap[e].used /\ e # c
<1> DEFINE D == DOMAIN heap
           free(d) == d \in D /\ ~heap[d].used
           first == IF \E d \in D : free(d) /\ right_chunk(d) = c
                    THEN CHOOSE d \in D : free(d) /\ right_chunk(d) = c
                    ELSE c
           end == IF free(right_chunk(c)) THEN right_chunk(right_chunk(c)) ELSE right_chunk(c)
<1>1. /\ heap[0].used /\ MEM_ARENA_SIZE \in Nat
      /\ \A d \in D : heap[d].size \in Nat \ {0} /\ d \in Nat /\ d < MEM_ARENA_SIZE
      /\ \A d \in D : right_chunk(d) \in D \cup {MEM_ARENA_SIZE} /\ right_chunk(d) = d + heap[d].size
      /\ \A d, e \in D : d < e => right_chunk(d) <= e
  BY SizeAssumption DEF Tiled, right_chunk
<1>2. \A d \in D : right_chunk(d) \in Nat /\ d < right_chunk(d)
  BY <1>1
<1>3. PICK a : a = first
  OBVIOUS
<1>4. PICK z : z = end
  OBVIOUS
<1>5. Merged(c) = [d \in D \ (a + 1)..(z - 1) |->
                      IF d = a THEN [size |-> z - a, used |-> FALSE] ELSE heap[d]]
  BY <1>3, <1>4 DEF Merged
<1>6. a = c \/ (free(a) /\ right_chunk(a) = c)
  BY <1>3
<1>7. z = right_chunk(c) \/ (free(right_chunk(c)) /\ z = right_chunk(right_chunk(c)))
  BY <1>4
<1> HIDE DEF first, end
<1>8. a \in D \ {0} /\ a <= c /\ a \in Nat
  BY <1>1, <1>2, <1>6
<1>9. z \in D \cup {MEM_ARENA_SIZE} /\ z \in Nat /\ right_chunk(c) <= z /\ c < z
  <2>1. CASE z = right_chunk(c)
    BY <1>1, <1>2, <2>1
  <2>2. CASE free(right_chunk(c)) /\ z = right_chunk(right_chunk(c))
    <3>1. PICK r : r = right_chunk(c)
      OBVIOUS
    <3>2. r \in D /\ z = right_chunk(r)
      BY <2>2, <3>1
    <3>3. r < z /\ z \in Nat /\ r \in Nat /\ c < r /\ c \in Nat
      BY <1>1, <1>2, <3>1, <3>2
    <3> QED
      BY <1>1, <3>1, <3>2, <3>3
  <2> QED
    BY <1>7, <2>1, <2>2
<1>10. ASSUME NEW e \in D, heap[e].used, e # c
       PROVE  ~(a <= e /\ e < z)
  <2>1. e \in Nat /\ c \in Nat
    BY <1>1
  <2>2. CASE e < c
    <3>1. a # c => ~(a <= e)
      <4> SUFFICES ASSUME a # c, a <= e PROVE FALSE
        OBVIOUS
      <4>1. free(a) /\ right_chunk(a) = c /\ a # e
        BY <1>6, <1>10
      <4>2. a < e
        BY <1>8, <2>1, <4>1
      <4> QED
        BY <1>1, <2>1, <2>2, <4>1, <4>2
    <3> QED
      BY <2>1, <2>2, <3>1
  <2>3. CASE c < e
    <3>1. PICK r : r = right_chunk(c)
      OBVIOUS
    <3>2. r <= e /\ r \in Nat
      BY <1>1, <1>2, <2>3, <3>1
    <3>3. CASE z = r
      BY <1>9, <2>1, <3>2, <3>3
    <3>4. CASE free(r) /\ z = right_chunk(r)
      <4>1. r # e
        BY <1>10, <3>4
      <4>2. r < e
        BY <2>1, <3>2, <4>1
      <4>3. z <= e
        BY <1>1, <3>4, <4>2
      <4> QED
        BY <1>9, <2>1, <4>3
    <3> QED
      BY <1>7, <3>1, <3>3, <3>4
  <2> QED
    BY <1>10, <2>1, <2>2, <2>3
<1>11. PICK h : h = Merged(c)
  OBVIOUS
<1>12. /\ Tiled(h)
       /\ \A e \in DOMAIN heap : ~(a <= e /\ e < z) => e \in DOMAIN h /\ h[e] = heap[e]
       /\ \A e \in DOMAIN h : h[e].used => e \in DOMAIN heap /\ heap[e].used /\ ~(a <= e /\ e < z)
  <2>1. a < z
    BY <1>1, <1>8, <1>9
  <2> QED
    BY <1>5, <1>8, <1>9, <1>11, <2>1, JoinKeeps
<1>13. \A e \in DOMAIN h : h[e].used => e # c
  BY <1>8, <1>9, <1>12
<1> QED
  BY <1>10, <1>11, <1>12, <1>13

LEMMA FreeHeapKeeps ==
    ASSUME MemInv, adapter \in Heaps, granularity # 0, NEW p \in live, live' = live \ {p},
           heap' = Merged(p.base - CHUNK_HEADER),
           UNCHANGED <<adapter, granularity, slab, bitmap, test_live>>
    PROVE  MemInv'
<1>1. /\ Tiled(heap) /\ \A q \in live : Held(heap, q)
      /\ \A d \in DOMAIN heap \ {0} : heap[d].used => \E q \in live : q.base - CHUNK_HEADER = d
  BY DEF MemInv, HeapInv, AllHeld
<1>2. PICK c : c = p.base - CHUNK_HEADER
  OBVIOUS
<1>3. /\ p \in [base : Nat, bytes : Nat] /\ c \in DOMAIN heap \ {0} /\ heap[c].used
      /\ heap[c].size = p.bytes + CHUNK_HEADER
  BY <1>1, <1>2 DEF Held
<1>4. /\ Tiled(heap')
      /\ \A e \in DOMAIN heap : heap[e].used /\ e # c => e \in DOMAIN heap' /\ heap'[e] = heap[e]
      /\ \A e \in DOMAIN heap' : heap'[e].used => e \in DOMAIN heap /\ heap[e].used /\ e # c
  BY <1>1, <1>2, <1>3, MergedKeeps
<1>5. ASSUME NEW q \in live \ {p} PROVE Held(heap', q)
  <2>1. Held(heap, q)
    BY <1>1
  <2>2. q.base - CHUNK_HEADER # c
    <3> SUFFICES ASSUME q.base - CHUNK_HEADER = c PROVE FALSE
      OBVIOUS
    <3>1. q \in [base : Nat, bytes : Nat] /\ heap[c].size = q.bytes + CHUNK_HEADER
      BY <2>1 DEF Held
    <3>2. q.base = p.base /\ q.bytes = p.bytes
      BY <1>2, <1>3, <3>1, SizeAssumption
    <3>3. q = p
      BY <1>3, <3>1, <3>2
    <3> QED
      BY <3>3
  <2> QED
    BY <1>4, <2>1, <2>2 DEF Held
<1>6. AllHeld(heap', live \ {p})
  <2>1. \A d \in DOMAIN heap' \ {0} :
           heap'[d].used => \E q \in live \ {p} : q.base - CHUNK_HEADER = d
    BY <1>1, <1>2, <1>4
  <2> QED
    BY <1>5, <2>1 DEF AllHeld
<1>7. HeapInv'
  BY <1>4, <1>6 DEF HeapInv, Tiled, AllHeld, Held
<1>8. MemType'
  BY DEF MemInv, MemType
<1> QED
  BY <1>7, <1>8 DEF MemInv, MemIdle, SlabInv, PoolInv, Heaps

-----------------------------------------------------------------------------
LEMMA PiecesRemove ==
    ASSUME granularity \in Nat \ {0}, NEW K \in SUBSET Nat, NEW k \in K
    PROVE  PiecesAt(K \ {k}) = PiecesAt(K) \ {PieceAt(k)}
<1>1. \A j \in K : PieceAt(j) = PieceAt(k) => j = k
  <2> SUFFICES ASSUME NEW j \in K, PieceAt(j) = PieceAt(k) PROVE j = k
    OBVIOUS
  <2>1. PieceAt(j).base \div granularity = j /\ PieceAt(k).base \div granularity = k
    BY PieceIs
  <2> QED
    BY <2>1
<1> QED
  BY <1>1 DEF PiecesAt

LEMMA FreeSlabKeeps ==
    ASSUME MemInv, adapter = "mem_slab", granularity # 0, NEW p \in live, live' = live \ {p},
           NEW k, k = p.base \div granularity,
           slab' = [free |-> slab.free \cup {k}, num_used |-> slab.num_used - 1,
                    num_blocks |-> slab.num_blocks],
           UNCHANGED <<adapter, granularity, heap, bitmap, test_live>>
    PROVE  MemInv'
<1>1. granularity \in Nat \ {0} /\ MEM_ARENA_SIZE \div granularity \in Nat
  BY GranularityIs
<1>2. /\ slab.num_blocks = MEM_ARENA_SIZE \div granularity
      /\ slab.free \subseteq Indexes
      /\ live = PiecesAt(Indexes \ slab.free)
      /\ slab.num_used = Cardinality(Indexes \ slab.free)
  BY DEF MemInv, SlabInv
<1>3. k \in Indexes \ slab.free /\ p = PieceAt(k)
  <2>1. PICK j \in Indexes \ slab.free : p = PieceAt(j)
    BY <1>2 DEF PiecesAt
  <2>2. j \in Nat /\ p.base \div granularity = j
    BY <1>1, <2>1, PieceIs DEF Indexes
  <2> QED
    BY <2>1, <2>2
<1>4. k \in Nat
  BY <1>3 DEF Indexes
<1>5. PICK U : U = Indexes \ slab.free
  OBVIOUS
<1>6. U \in SUBSET Nat /\ k \in U /\ IsFiniteSet(U)
  BY <1>1, <1>2, <1>3, <1>5, IndexesFinite DEF Indexes
<1>7. IsFiniteSet(U \ {k}) /\ Cardinality(U \ {k}) = Cardinality(U) - 1
  BY ONLY <1>6, FS_RemoveElement
<1>8. Cardinality(U) - 1 \in Nat
  BY <1>7, FS_CardinalityType
<1>9. /\ slab'.free = slab.free \cup {k} /\ slab'.num_used = slab.num_used - 1
      /\ slab'.num_blocks = slab.num_blocks
      /\ slab' \in [free : SUBSET Nat, num_used : Nat, num_blocks : Nat]
  <2>1. slab \in [free : SUBSET Nat, num_used : Nat, num_blocks : Nat]
    BY DEF MemInv, MemType
  <2>2. slab.num_used - 1 \in Nat
    BY <1>2, <1>5, <1>8
  <2> QED
    BY <1>4, <2>1, <2>2
<1>10. slab'.free \subseteq Indexes /\ Indexes \ slab'.free = U \ {k}
  BY <1>2, <1>3, <1>5, <1>9
<1>11. live' = PiecesAt(U \ {k})
  BY <1>1, <1>2, <1>3, <1>5, <1>6, PiecesRemove
<1>12. SlabInv'
  <2>1. Indexes' = Indexes
    BY DEF Indexes
  <2>2. live' = PiecesAt(Indexes \ slab.free)'
    BY <1>10, <1>11, <2>1 DEF PiecesAt, PieceAt
  <2>3. slab'.num_used = Cardinality(U \ {k}) /\ slab'.num_blocks = MEM_ARENA_SIZE \div granularity
    BY <1>2, <1>5, <1>7, <1>9
  <2> QED
    BY <1>10, <2>1, <2>2, <2>3 DEF SlabInv
<1>13. MemType'
  BY <1>9 DEF MemInv, MemType
<1> QED
  BY <1>12, <1>13 DEF MemInv, MemIdle, PoolInv, HeapInv, Heaps

LEMMA FreeBlocksKeeps ==
    ASSUME MemInv, adapter = "mem_blocks", granularity # 0, NEW p \in live, live' = live \ {p},
           bitmap' = [bitmap EXCEPT ![test_live] = @ \ {p.base \div blk_size(test_live)}],
           UNCHANGED <<adapter, granularity, heap, slab, test_live>>
    PROVE  MemInv'
<1>1. granularity \in Nat \ {0} /\ MEM_ARENA_SIZE \div granularity \in Nat
  BY GranularityIs
<1>2. /\ blk_size(test_live) = granularity
      /\ bitmap[test_live] \subseteq Indexes
      /\ live = PiecesAt(bitmap[test_live])
  BY DEF MemInv, PoolInv
<1>3. PICK k \in bitmap[test_live] : p = PieceAt(k)
  BY <1>2 DEF PiecesAt
<1>4. k \in Nat /\ p.base \div granularity = k /\ bitmap[test_live] \in SUBSET Nat
  BY <1>1, <1>2, <1>3, PieceIs DEF Indexes
<1>5. bitmap'[test_live] = bitmap[test_live] \ {k} /\ MemType'
  BY <1>2, <1>4 DEF MemInv, MemType
<1>6. live' = PiecesAt(bitmap[test_live] \ {k})
  BY <1>1, <1>2, <1>3, <1>4, PiecesRemove
<1>7. PoolInv'
  BY <1>2, <1>5, <1>6 DEF PoolInv, PiecesAt, PieceAt, Indexes, blk_size
<1> QED
  BY <1>5, <1>7 DEF MemInv, MemIdle, SlabInv, HeapInv, Heaps

LEMMA FreeKeeps == ASSUME MemInv, NEW p \in live, Free(p) PROVE MemInv'
<1>1. granularity # 0
  BY DEF MemInv, MemIdle
<1>2. UNCHANGED <<adapter, granularity, test_live>> /\ live' = live \ {p}
  BY DEF Free
<1>3. CASE adapter \in Heaps
  <2>1. heap' = Merged(p.base - CHUNK_HEADER) /\ UNCHANGED <<slab, bitmap>>
    BY <1>3 DEF Free, Heaps
  <2> QED
    BY <1>1, <1>2, <1>3, <2>1, FreeHeapKeeps
<1>4. CASE adapter = "mem_slab"
  <2>1. PICK k : k = p.base \div granularity
    OBVIOUS
  <2>2. /\ slab' = [slab EXCEPT !.free = @ \cup {k}, !.num_used = @ - 1]
        /\ UNCHANGED <<heap, bitmap>>
    BY <1>4, <2>1 DEF Free, Heaps
  <2>3. slab' = [free |-> slab.free \cup {k}, num_used |-> slab.num_used - 1,
                 num_blocks |-> slab.num_blocks]
    BY <2>2 DEF MemInv, MemType
  <2> QED
    BY <1>1, <1>2, <1>4, <2>1, <2>2, <2>3, FreeSlabKeeps
<1>5. CASE adapter = "mem_blocks"
  <2>1. /\ bitmap' = [bitmap EXCEPT ![test_live] = @ \ {p.base \div blk_size(test_live)}]
        /\ UNCHANGED <<heap, slab>>
    BY <1>5 DEF Free, Heaps
  <2> QED
    BY <1>1, <1>2, <1>5, <2>1, FreeBlocksKeeps
<1> QED
  BY <1>3, <1>4, <1>5 DEF MemInv, MemType, FixedSize

LEMMA MemStep == ASSUME MemInv, [MemNext]_memvars PROVE MemInv'
<1>1. CASE MemNext
  <2>1. ASSUME NEW g \in Granularity, CreateArena(g) \/ AllocHeap(g) PROVE MemInv'
    BY <2>1, CreateArenaKeeps, AllocHeapKeeps
  <2>2. CASE AllocSlab \/ AllocBlocks
    BY <2>2, AllocSlabKeeps, AllocBlocksKeeps
  <2>3. ASSUME NEW count \in 1..MS_PIECES(2^MEM_S_MIN), AllocN(count) PROVE MemInv'
    BY <2>3, AllocNKeeps
  <2>4. CASE AllocN_Unsupported
    BY <2>4, RefuseKeeps DEF AllocN_Unsupported
  <2>5. ASSUME NEW p \in live, Free(p) PROVE MemInv'
    BY <2>5, FreeKeeps
  <2> QED
    BY <1>1, <2>1, <2>2, <2>3, <2>4, <2>5 DEF MemNext
<1>2. CASE UNCHANGED memvars
  BY <1>2, SameKeeps DEF memvars
<1> QED
  BY <1>1, <1>2

\* What the harness holds is what the structure of the allocator has given
\* out, whichever adapter the build has.
THEOREM MemInvariance == MemSpec => []MemInv
<1>1. MemInit => MemInv
  BY MemInitInv
<1>2. MemInv /\ [MemNext]_memvars => MemInv'
  BY MemStep
<1> QED
  BY <1>1, <1>2, PTL DEF MemSpec

-----------------------------------------------------------------------------
\* What the invariant says of the pieces.

LEMMA HeapPiecesDisjoint ==
    ASSUME MemInv, adapter \in Heaps, granularity # 0
    PROVE  /\ mem_allocator_arena_bytes = MEM_ARENA_SIZE
           /\ \A p \in live : p.base + p.bytes <= MEM_ARENA_SIZE
           /\ \A p, q \in live : p # q => p.base + p.bytes <= q.base \/ q.base + q.bytes <= p.base
<1>1. Tiled(heap) /\ \A p \in live : Held(heap, p)
  BY DEF MemInv, HeapInv, AllHeld
<1>2. mem_allocator_arena_bytes = MEM_ARENA_SIZE
  <2>1. 0 \in DOMAIN heap
    BY <1>1 DEF Tiled
  <2>2. heap # <<>>
    BY <2>1
  <2> QED
    BY <2>2 DEF mem_allocator_arena_bytes, Heaps
<1>3. /\ \A c \in DOMAIN heap : c \in Nat /\ heap[c].size \in Nat
      /\ \A c \in DOMAIN heap : c + heap[c].size <= MEM_ARENA_SIZE
      /\ \A c, d \in DOMAIN heap : c < d => c + heap[c].size <= d
  BY <1>1, SizeAssumption DEF Tiled
<1>4. ASSUME NEW p \in live
      PROVE  /\ p \in [base : Nat, bytes : Nat]
             /\ p.base - CHUNK_HEADER \in DOMAIN heap
             /\ heap[p.base - CHUNK_HEADER].size = p.bytes + CHUNK_HEADER
  BY <1>1 DEF Held
<1>5. ASSUME NEW p \in live PROVE p.base + p.bytes <= MEM_ARENA_SIZE
  <2>1. PICK c : c = p.base - CHUNK_HEADER
    OBVIOUS
  <2>2. c \in DOMAIN heap /\ c + heap[c].size = p.base + p.bytes
    BY <1>4, <2>1, SizeAssumption
  <2> QED
    BY <1>3, <2>2
<1>6. ASSUME NEW p \in live, NEW q \in live, p # q
      PROVE  p.base + p.bytes <= q.base \/ q.base + q.bytes <= p.base
  <2>1. PICK c : c = p.base - CHUNK_HEADER
    OBVIOUS
  <2>2. PICK d : d = q.base - CHUNK_HEADER
    OBVIOUS
  <2>3. /\ c \in DOMAIN heap /\ d \in DOMAIN heap /\ c \in Nat /\ d \in Nat
        /\ c + heap[c].size = p.base + p.bytes /\ d + heap[d].size = q.base + q.bytes
        /\ c <= p.base /\ d <= q.base
    BY <1>3, <1>4, <2>1, <2>2, SizeAssumption
  <2>4. p.base \in Nat /\ p.bytes \in Nat /\ q.base \in Nat /\ q.bytes \in Nat
    BY <1>4
  <2>5. c # d
    <3> SUFFICES ASSUME c = d PROVE FALSE
      OBVIOUS
    <3>1. CHUNK_HEADER \in Nat
      BY SizeAssumption
    <3>2. p.base = q.base
      <4>1. p.base = c + CHUNK_HEADER
        BY <2>1, <2>4, <3>1
      <4>2. q.base = d + CHUNK_HEADER
        BY <2>2, <2>4, <3>1
      <4> QED
        BY <4>1, <4>2
    <3>3. p.bytes = q.bytes
      BY <2>3, <2>4, <3>2
    <3>4. p = q
      BY <1>4, <3>2, <3>3
    <3> QED
      BY <1>6, <3>4
  <2>6. c < d => p.base + p.bytes <= q.base
    BY <1>3, <2>3, <2>4
  <2>7. d < c => q.base + q.bytes <= p.base
    BY <1>3, <2>3, <2>4
  <2> QED
    BY <2>3, <2>5, <2>6, <2>7
<1> QED
  BY <1>2, <1>5, <1>6

LEMMA FixedPiecesDisjoint ==
    ASSUME MemInv, granularity # 0, NEW K \in SUBSET Indexes, live = PiecesAt(K)
    PROVE  /\ \A p \in live : p.base + p.bytes <= MEM_ARENA_SIZE
           /\ \A p, q \in live : p # q => p.base + p.bytes <= q.base \/ q.base + q.bytes <= p.base
<1>1. PICK m \in Nat : m = MEM_ARENA_SIZE \div granularity
  BY GranularityIs
<1>2. granularity \in Nat \ {0} /\ m * granularity = MEM_ARENA_SIZE
  BY <1>1, GranularityIs
<1>3. \A k \in K : k \in Nat /\ k < m
  BY <1>1 DEF Indexes
<1>4. ASSUME NEW p \in live
      PROVE  p.base + p.bytes <= MEM_ARENA_SIZE
  <2>1. PICK k \in K : p = PieceAt(k)
    BY DEF PiecesAt
  <2>2. k * granularity + granularity <= m * granularity
    BY <1>2, <1>3, Apart
  <2> QED
    BY <1>2, <1>3, <2>1, <2>2, PieceIs
<1>5. ASSUME NEW p \in live, NEW q \in live, p # q
      PROVE  p.base + p.bytes <= q.base \/ q.base + q.bytes <= p.base
  <2>1. PICK k \in K : p = PieceAt(k)
    BY DEF PiecesAt
  <2>2. PICK j \in K : q = PieceAt(j)
    BY DEF PiecesAt
  <2>3. k \in Nat /\ j \in Nat /\ (k < j \/ j < k)
    BY <1>3, <1>5, <2>1, <2>2
  <2>4. k < j => k * granularity + granularity <= j * granularity
    BY <1>2, <2>3, Apart
  <2>5. j < k => j * granularity + granularity <= k * granularity
    BY <1>2, <2>3, Apart
  <2>6. /\ p.base = k * granularity /\ p.bytes = granularity
        /\ q.base = j * granularity /\ q.bytes = granularity
    BY <1>2, <2>1, <2>2, <2>3, PieceIs
  <2> QED
    BY <2>3, <2>4, <2>5, <2>6
<1> QED
  BY <1>4, <1>5

LEMMA MemInvImpliesDisjoint == MemInv => PiecesDisjoint
<1> SUFFICES ASSUME MemInv PROVE PiecesDisjoint
  OBVIOUS
<1>1. CASE granularity = 0
  BY <1>1 DEF MemInv, MemIdle, PiecesDisjoint
<1>2. CASE granularity # 0 /\ adapter \in Heaps
  BY <1>2, HeapPiecesDisjoint DEF PiecesDisjoint
<1>3. CASE granularity # 0 /\ adapter = "mem_slab"
  <2>1. slab.num_blocks = MEM_ARENA_SIZE \div granularity /\ live = PiecesAt(Indexes \ slab.free)
    BY <1>3 DEF MemInv, SlabInv
  <2>2. mem_allocator_arena_bytes = MEM_ARENA_SIZE
    BY <1>3, <2>1, GranularityIs DEF mem_allocator_arena_bytes, Heaps
  <2>3. (Indexes \ slab.free) \in SUBSET Indexes
    OBVIOUS
  <2> QED
    BY <1>3, <2>1, <2>2, <2>3, FixedPiecesDisjoint DEF PiecesDisjoint
<1>4. CASE granularity # 0 /\ adapter = "mem_blocks"
  <2>1. blk_size(test_live) = granularity /\ bitmap[test_live] \in SUBSET Indexes
        /\ live = PiecesAt(bitmap[test_live])
    BY <1>4 DEF MemInv, PoolInv
  <2>2. mem_allocator_arena_bytes = MEM_ARENA_SIZE
    BY <1>4, <2>1, GranularityIs DEF mem_allocator_arena_bytes, num_blocks, Heaps
  <2> QED
    BY <1>4, <2>1, <2>2, FixedPiecesDisjoint DEF PiecesDisjoint
<1> QED
  BY <1>1, <1>2, <1>3, <1>4 DEF MemInv, MemType, FixedSize

\* No two pieces an adapter has handed out overlap, and none reaches beyond
\* the arena.
THEOREM PiecesNeverOverlap == MemSpec => []PiecesDisjoint
BY MemInvariance, MemInvImpliesDisjoint, PTL

-----------------------------------------------------------------------------
\* Room for k pieces is room for their bytes.
LEMMA RoomIs ==
    ASSUME NEW g \in Nat \ {0}, NEW k \in Nat, NEW m \in Nat
    PROVE  k * g <= m * g <=> k <= m
<1>1. CASE k <= m
  <2>1. PICK j \in Nat : m = k + j
    <3>1. m - k \in Nat /\ m = k + (m - k)
      BY <1>1
    <3> QED
      BY <3>1
  <2>2. m * g = k * g + j * g /\ j * g >= 0
    BY <2>1
  <2> QED
    BY <1>1, <2>2
<1>2. CASE m < k
  <2>1. m * g + g <= k * g
    BY <1>2, Apart
  <2>2. m * g < k * g
    BY <2>1
  <2> QED
    BY <1>2, <2>2
<1> QED
  BY <1>1, <1>2

\* A call for count pieces is served when, and only when, they fit.
Served(count) ==
    IF (Cardinality(live) + count) * granularity <= MEM_ARENA_SIZE
    THEN live \subseteq live' /\ Cardinality(live') = Cardinality(live) + count
    ELSE live' = live /\ answer' = "NULL"

\* The harness holds the pieces of K: more of them fit as the rest has room for.
LEMMA ServedIs ==
    ASSUME MemInv, granularity # 0, NEW K \in SUBSET Indexes, live = PiecesAt(K),
           NEW count \in Nat,
           \/ /\ Cardinality(Indexes \ K) < count
              /\ live' = live /\ answer' = "NULL"
           \/ \E L \in SUBSET (Indexes \ K) :
                 Cardinality(L) = count /\ live' = PiecesAt(K \cup L)
    PROVE  Served(count)
<1>1. PICK m \in Nat : m = MEM_ARENA_SIZE \div granularity
  BY GranularityIs
<1>2. granularity \in Nat \ {0} /\ m * granularity = MEM_ARENA_SIZE
  BY <1>1, GranularityIs
<1>3. K \in SUBSET Nat /\ IsFiniteSet(K) /\ Cardinality(K) \in Nat /\ IsFiniteSet(Indexes \ K)
      /\ Cardinality(Indexes \ K) = m - Cardinality(K)
  BY <1>1, IndexesFinite
<1>4. Cardinality(live) = Cardinality(K)
  BY <1>2, <1>3, PiecesCount
<1>5. (Cardinality(live) + count) * granularity <= MEM_ARENA_SIZE <=> Cardinality(K) + count <= m
  <2>1. PICK t \in Nat : t = Cardinality(live) + count
    BY <1>3, <1>4
  <2>2. t * granularity <= m * granularity <=> t <= m
    BY <1>2, RoomIs
  <2> QED
    BY <1>2, <1>4, <2>1, <2>2
<1>6. CASE Cardinality(Indexes \ K) < count /\ live' = live /\ answer' = "NULL"
  BY <1>3, <1>5, <1>6 DEF Served
<1>7. ASSUME NEW L \in SUBSET (Indexes \ K), Cardinality(L) = count, live' = PiecesAt(K \cup L)
      PROVE  Served(count)
  <2>1. K \cup L \in SUBSET Indexes /\ K \cap L = {} /\ L \in SUBSET Indexes
    OBVIOUS
  <2>2. IsFiniteSet(K) /\ IsFiniteSet(L) /\ K \cup L \in SUBSET Nat /\ IsFiniteSet(K \cup L)
    BY <1>1, <1>3, <2>1, IndexesFinite
  <2>3. Cardinality(K \cup L) = Cardinality(K) + Cardinality(L) - Cardinality(K \cap L)
    BY ONLY <2>2, FS_Union
  <2>4. Cardinality(K \cap L) = 0
    BY <2>1, FS_EmptySet
  <2>5. Cardinality(live') = Cardinality(K \cup L)
    BY <1>2, <1>7, <2>2, PiecesCount
  <2>6. Cardinality(L) <= m - Cardinality(K)
    BY <1>3, FS_Subset
  <2>7. live \subseteq live'
    BY <1>7 DEF PiecesAt
  <2>8. Cardinality(live') = Cardinality(live) + count
    BY <1>3, <1>4, <1>7, <2>3, <2>4, <2>5
  <2>9. Cardinality(K) + count <= m
    BY <1>3, <1>7, <2>6
  <2> QED
    BY <1>5, <2>7, <2>8, <2>9 DEF Served
<1> QED
  BY <1>6, <1>7

LEMMA AllocSlabServes == ASSUME MemInv, AllocSlab PROVE asked' = 1 /\ Served(1)
<1>1. adapter = "mem_slab" /\ granularity # 0
  BY DEF AllocSlab
<1>2. slab.free \subseteq Indexes /\ live = PiecesAt(Indexes \ slab.free)
  BY <1>1 DEF MemInv, SlabInv
<1>3. PICK K : K = Indexes \ slab.free
  OBVIOUS
<1>4. K \in SUBSET Indexes /\ Indexes \ K = slab.free /\ live = PiecesAt(K)
  BY <1>2, <1>3
<1>5. CASE slab.free = {} /\ Refuse(1)
  <2>1. Cardinality(Indexes \ K) < 1
    BY <1>4, <1>5, FS_EmptySet
  <2>2. asked' = 1 /\ live' = live /\ answer' = "NULL"
    BY <1>5 DEF Refuse
  <2> QED
    BY <1>1, <1>4, <2>1, <2>2, ServedIs
<1>6. ASSUME NEW k \in slab.free, Hand(k * granularity, granularity)
      PROVE  asked' = 1 /\ Served(1)
  <2>1. asked' = 1 /\ live' = PiecesAt(K \cup {k})
    BY <1>4, <1>6 DEF Hand, PiecesAt, PieceAt
  <2>2. {k} \in SUBSET (Indexes \ K) /\ Cardinality({k}) = 1
    BY <1>4, <1>6, FS_Singleton
  <2> QED
    BY <1>1, <1>4, <2>1, <2>2, ServedIs
<1> QED
  BY <1>5, <1>6 DEF AllocSlab

LEMMA PoolIs ==
    ASSUME MemInv, adapter = "mem_blocks", granularity # 0
    PROVE  /\ bitmap[test_live] \in SUBSET Indexes /\ live = PiecesAt(bitmap[test_live])
           /\ FreeBlocks = Indexes \ bitmap[test_live]
           /\ \A k : [base |-> k * blk_size(test_live), bytes |-> granularity] = PieceAt(k)
BY DEF MemInv, PoolInv, FreeBlocks, num_blocks, Indexes, PieceAt

LEMMA AllocBlocksServes == ASSUME MemInv, AllocBlocks PROVE asked' = 1 /\ Served(1)
<1>1. adapter = "mem_blocks" /\ granularity # 0
  BY DEF AllocBlocks
<1>2. PICK K : K = bitmap[test_live]
  OBVIOUS
<1>3. /\ K \in SUBSET Indexes /\ live = PiecesAt(K) /\ FreeBlocks = Indexes \ K
      /\ \A k : [base |-> k * blk_size(test_live), bytes |-> granularity] = PieceAt(k)
  BY <1>1, <1>2, PoolIs
<1>4. CASE FreeBlocks = {} /\ Refuse(1)
  <2>1. Cardinality(Indexes \ K) < 1
    BY <1>3, <1>4, FS_EmptySet
  <2>2. asked' = 1 /\ live' = live /\ answer' = "NULL"
    BY <1>4 DEF Refuse
  <2> QED
    BY <1>1, <1>3, <2>1, <2>2, ServedIs
<1>5. ASSUME NEW k \in FreeBlocks, Hand(k * blk_size(test_live), granularity)
      PROVE  asked' = 1 /\ Served(1)
  <2>1. asked' = 1 /\ live' = PiecesAt(K \cup {k})
    BY <1>3, <1>5 DEF Hand, PiecesAt
  <2>2. {k} \in SUBSET (Indexes \ K) /\ Cardinality({k}) = 1
    BY <1>3, <1>5, FS_Singleton
  <2> QED
    BY <1>1, <1>3, <2>1, <2>2, ServedIs
<1> QED
  BY <1>4, <1>5 DEF AllocBlocks

LEMMA AllocNServes ==
    ASSUME MemInv, NEW count \in Nat, AllocN(count) PROVE asked' = count /\ Served(count)
<1>1. adapter = "mem_blocks" /\ granularity # 0
  BY DEF AllocN
<1>2. PICK K : K = bitmap[test_live]
  OBVIOUS
<1>3. /\ K \in SUBSET Indexes /\ live = PiecesAt(K) /\ FreeBlocks = Indexes \ K
      /\ \A k : [base |-> k * blk_size(test_live), bytes |-> granularity] = PieceAt(k)
  BY <1>1, <1>2, PoolIs
<1>4. CASE Cardinality(FreeBlocks) < count /\ Refuse(count)
  <2>1. asked' = count /\ live' = live /\ answer' = "NULL"
    BY <1>4 DEF Refuse
  <2> QED
    BY <1>1, <1>3, <1>4, <2>1, ServedIs
<1>5. ASSUME NEW L \in kSubset(count, FreeBlocks), TakeBlocks(L), asked' = count
      PROVE  asked' = count /\ Served(count)
  <2>1. L \in SUBSET (Indexes \ K) /\ Cardinality(L) = count
    BY <1>3, <1>5 DEF kSubset
  <2>2. live' = PiecesAt(K \cup L)
    BY <1>3, <1>5 DEF TakeBlocks, PiecesAt
  <2> QED
    BY <1>1, <1>3, <1>5, <2>1, <2>2, ServedIs
<1> QED
  BY <1>4, <1>5 DEF AllocN

LEMMA StepServes ==
    ASSUME MemInv, MemNext, adapter \in FixedSize, asked' > 0 PROVE Served(asked')
<1>1. adapter \notin Heaps
  BY DEF Heaps, FixedSize
<1>2. asked' # 0
  OBVIOUS
<1>3. ASSUME NEW g \in Granularity, CreateArena(g) \/ AllocHeap(g) PROVE FALSE
  BY <1>1, <1>2, <1>3 DEF CreateArena, AllocHeap
<1>4. CASE AllocSlab \/ AllocBlocks
  BY <1>4, AllocSlabServes, AllocBlocksServes DEF Served
<1>5. ASSUME NEW count \in 1..MS_PIECES(2^MEM_S_MIN), AllocN(count) PROVE Served(asked')
  <2>1. count \in Nat
    BY <1>5
  <2> QED
    BY <1>5, <2>1, AllocNServes DEF Served
<1>6. CASE AllocN_Unsupported
  BY <1>2, <1>6 DEF AllocN_Unsupported, Refuse
<1>7. ASSUME NEW p \in live, Free(p) PROVE FALSE
  BY <1>2, <1>7 DEF Free
<1> QED
  BY <1>3, <1>4, <1>5, <1>6, <1>7 DEF MemNext

\* A slab or a pool hands over as many pieces as a call asks for whenever they
\* fit beside the live ones, and none otherwise.
THEOREM ArenaFills == MemSpec => FillsTheArena
<1>1. MemInv /\ [MemNext]_memvars =>
         [(adapter \in FixedSize /\ asked' > 0) => Served(asked')]_memvars
  BY StepServes
<1> QED
  BY <1>1, MemInvariance, PTL DEF MemSpec, FillsTheArena, Served

-----------------------------------------------------------------------------
\* The space the harness holds, a sum over a set.  What a recursive definition
\* computes is proved by a smallest counterexample.

\* A non-empty set of finite sets has a minimal element: what the induction
\* over a finite set rests on here.
LEMMA SetMinimum ==
    ASSUME NEW T, NEW F, F \subseteq FiniteSubsetsOf(T), F # {}
    PROVE  \E s \in F : \A t \in F : ~(t \subseteq s /\ t # s)
<1>1. PICK s \in F : \A t \in F : ~(<<t, s>> \in StrictSubsetOrdering(T))
  BY FS_StrictSubsetOrderingWellFounded, WFMin
<1>2. \A t \in F : ~(t \subseteq s /\ t # s)
  BY <1>1 DEF StrictSubsetOrdering, FiniteSubsetsOf
<1> QED
  BY <1>2

\* The space of a set of pieces, and the function that sums it up.
SpaceOf(T) == MapThenSumSet(Space, T)

Picked(s) == CHOOSE p \in s : TRUE

SumsUp(T, f) ==
    f = [s \in SUBSET T |->
            IF s = {} THEN 0 ELSE Space(Picked(s)) + f[s \ {Picked(s)}]]

LEMMA SpaceOfFold == \A T : SpaceOf(T) = (CHOOSE f : SumsUp(T, f))[T]
BY DEF SpaceOf, MapThenSumSet, MapThenFoldSet, SumsUp, Picked

LEMMA PickedIs == ASSUME NEW s, s # {} PROVE Picked(s) \in s
BY DEF Picked

LEMMA SumsUpUnique ==
    ASSUME NEW T, NEW U, NEW f, NEW h, SumsUp(T, f), SumsUp(U, h),
           NEW u, u \subseteq T, u \subseteq U, IsFiniteSet(u)
    PROVE  f[u] = h[u]
<1> DEFINE F == {s \in FiniteSubsetsOf(u) : f[s] # h[s]}
<1> SUFFICES ASSUME F # {} PROVE FALSE
  BY DEF FiniteSubsetsOf
<1>1. PICK s \in F : \A t \in F : ~(t \subseteq s /\ t # s)
  <2>1. F \subseteq FiniteSubsetsOf(u)
    OBVIOUS
  <2> HIDE DEF F
  <2> QED
    BY <2>1, SetMinimum
<1>2. s \in SUBSET u /\ IsFiniteSet(s) /\ f[s] # h[s] /\ s \in SUBSET T /\ s \in SUBSET U
  BY DEF FiniteSubsetsOf
<1>3. f[s] = IF s = {} THEN 0 ELSE Space(Picked(s)) + f[s \ {Picked(s)}]
  BY <1>2 DEF SumsUp
<1>4. h[s] = IF s = {} THEN 0 ELSE Space(Picked(s)) + h[s \ {Picked(s)}]
  BY <1>2 DEF SumsUp
<1>5. s # {}
  BY <1>2, <1>3, <1>4
<1>6. PICK t : t = s \ {Picked(s)}
  OBVIOUS
<1>7. t \in FiniteSubsetsOf(u) /\ t \subseteq s /\ t # s
  BY <1>2, <1>5, <1>6, PickedIs, FS_Subset DEF FiniteSubsetsOf
<1>8. f[t] = h[t]
  BY <1>1, <1>7
<1> QED
  BY <1>2, <1>3, <1>4, <1>5, <1>6, <1>8

LEMMA SumsUpSub ==
    ASSUME NEW T, \E f : SumsUp(T, f), NEW u, IsFiniteSet(u), \E f : SumsUp(u, f), u \subseteq T
    PROVE  (CHOOSE f : SumsUp(T, f))[u] = SpaceOf(u)
<1>1. PICK f : f = CHOOSE e : SumsUp(T, e)
  OBVIOUS
<1>2. PICK h : h = CHOOSE e : SumsUp(u, e)
  OBVIOUS
<1>3. SumsUp(T, f) /\ SumsUp(u, h)
  BY <1>1, <1>2
<1>4. f[u] = h[u]
  BY <1>3, SumsUpUnique
<1> QED
  BY <1>1, <1>2, <1>4, SpaceOfFold

\* One step of the sum.
LEMMA SpaceOfStep ==
    ASSUME NEW T, IsFiniteSet(T), \A s \in SUBSET T : \E f : SumsUp(s, f)
    PROVE  SpaceOf(T) = IF T = {} THEN 0 ELSE Space(Picked(T)) + SpaceOf(T \ {Picked(T)})
<1>1. PICK f : f = CHOOSE e : SumsUp(T, e)
  OBVIOUS
<1>2. SumsUp(T, f) /\ f[T] = SpaceOf(T)
  BY <1>1, SpaceOfFold
<1>3. f[T] = IF T = {} THEN 0 ELSE Space(Picked(T)) + f[T \ {Picked(T)}]
  BY <1>2 DEF SumsUp
<1>4. f[T \ {Picked(T)}] = SpaceOf(T \ {Picked(T)})
  <2>1. PICK u : u = T \ {Picked(T)}
    OBVIOUS
  <2>2. u \in SUBSET T /\ IsFiniteSet(u)
    BY <2>1, FS_Subset
  <2> QED
    BY <1>1, <2>1, <2>2, SumsUpSub
<1> QED
  BY <1>2, <1>3, <1>4

LEMMA SumsUpExists ==
    ASSUME NEW U, IsFiniteSet(U) PROVE \E f : SumsUp(U, f)
<1> DEFINE F == {s \in FiniteSubsetsOf(U) : ~\E f : SumsUp(s, f)}
<1> SUFFICES ASSUME F # {} PROVE FALSE
  BY DEF FiniteSubsetsOf
<1>1. PICK T \in F : \A t \in F : ~(t \subseteq T /\ t # T)
  <2>1. F \subseteq FiniteSubsetsOf(U)
    OBVIOUS
  <2> HIDE DEF F
  <2> QED
    BY <2>1, SetMinimum
<1>2. T \in SUBSET U /\ IsFiniteSet(T) /\ ~\E f : SumsUp(T, f)
  BY DEF FiniteSubsetsOf
<1>3. \A t \in SUBSET T : t # T => IsFiniteSet(t) /\ \E f : SumsUp(t, f)
  <2> SUFFICES ASSUME NEW t \in SUBSET T, t # T PROVE IsFiniteSet(t) /\ \E f : SumsUp(t, f)
    OBVIOUS
  <2>1. IsFiniteSet(t)
    BY <1>2, FS_Subset
  <2>2. t \in FiniteSubsetsOf(U)
    BY <1>2, <2>1 DEF FiniteSubsetsOf
  <2> QED
    BY <1>1, <2>1, <2>2
<1> DEFINE f == [s \in SUBSET T |-> IF s = {} THEN 0 ELSE Space(Picked(s)) + SpaceOf(s \ {Picked(s)})]
<1>4. ASSUME NEW s \in SUBSET T, s # {} PROVE f[s \ {Picked(s)}] = SpaceOf(s \ {Picked(s)})
  <2>1. PICK u : u = s \ {Picked(s)}
    OBVIOUS
  <2>2. u \in SUBSET T /\ u # T
    BY <1>4, <2>1, PickedIs
  <2>3. \A t \in SUBSET u : t # T
    BY <2>2
  <2>4. \A t \in SUBSET u : \E g : SumsUp(t, g)
    BY <1>3, <2>2, <2>3
  <2>5. SpaceOf(u) = IF u = {} THEN 0 ELSE Space(Picked(u)) + SpaceOf(u \ {Picked(u)})
    BY <1>3, <2>2, <2>4, SpaceOfStep
  <2>6. f[u] = IF u = {} THEN 0 ELSE Space(Picked(u)) + SpaceOf(u \ {Picked(u)})
    BY <2>2
  <2> QED
    BY <2>1, <2>5, <2>6
<1>5. SumsUp(T, f)
  BY <1>4 DEF SumsUp
<1> QED
  BY <1>2, <1>5

LEMMA SpaceOfIs ==
    ASSUME NEW T, IsFiniteSet(T)
    PROVE  SpaceOf(T) = IF T = {} THEN 0 ELSE Space(Picked(T)) + SpaceOf(T \ {Picked(T)})
<1>1. \A s \in SUBSET T : \E f : SumsUp(s, f)
  BY FS_Subset, SumsUpExists
<1> QED
  BY <1>1, SpaceOfStep

LEMMA SpaceOfNat ==
    ASSUME NEW U, IsFiniteSet(U), \A p \in U : Space(p) \in Nat
    PROVE  SpaceOf(U) \in Nat
<1> DEFINE F == {s \in FiniteSubsetsOf(U) : SpaceOf(s) \notin Nat}
<1> SUFFICES ASSUME F # {} PROVE FALSE
  BY DEF FiniteSubsetsOf
<1>1. PICK T \in F : \A t \in F : ~(t \subseteq T /\ t # T)
  <2>1. F \subseteq FiniteSubsetsOf(U)
    OBVIOUS
  <2> HIDE DEF F
  <2> QED
    BY <2>1, SetMinimum
<1>2. T \in SUBSET U /\ IsFiniteSet(T) /\ SpaceOf(T) \notin Nat
  BY DEF FiniteSubsetsOf
<1>3. T # {} /\ SpaceOf(T) = Space(Picked(T)) + SpaceOf(T \ {Picked(T)})
  BY <1>2, SpaceOfIs
<1>4. PICK t : t = T \ {Picked(T)}
  OBVIOUS
<1>5. t \in FiniteSubsetsOf(U) /\ t \subseteq T /\ t # T
  BY <1>2, <1>3, <1>4, PickedIs, FS_Subset DEF FiniteSubsetsOf
<1>6. SpaceOf(t) \in Nat
  BY <1>1, <1>5
<1>7. Space(Picked(T)) \in Nat
  BY <1>2, <1>3, PickedIs
<1> QED
  BY <1>2, <1>3, <1>4, <1>6, <1>7

\* The sum does not depend on the order.
LEMMA SpaceOfAny ==
    ASSUME NEW U, IsFiniteSet(U), \A p \in U : Space(p) \in Nat, NEW q \in U
    PROVE  SpaceOf(U) = Space(q) + SpaceOf(U \ {q})
<1> DEFINE F == {s \in FiniteSubsetsOf(U) : \E p \in s : SpaceOf(s) # Space(p) + SpaceOf(s \ {p})}
<1> SUFFICES ASSUME F # {} PROVE FALSE
  BY DEF FiniteSubsetsOf
<1>1. PICK T \in F : \A t \in F : ~(t \subseteq T /\ t # T)
  <2>1. F \subseteq FiniteSubsetsOf(U)
    OBVIOUS
  <2> HIDE DEF F
  <2> QED
    BY <2>1, SetMinimum
<1>2. T \in SUBSET U /\ IsFiniteSet(T)
  BY DEF FiniteSubsetsOf
<1>3. PICK p \in T : SpaceOf(T) # Space(p) + SpaceOf(T \ {p})
  OBVIOUS
<1>4. \A t \in SUBSET T : t # T => \A r \in t : SpaceOf(t) = Space(r) + SpaceOf(t \ {r})
  <2> SUFFICES ASSUME NEW t \in SUBSET T, t # T, NEW r \in t
               PROVE  SpaceOf(t) = Space(r) + SpaceOf(t \ {r})
    OBVIOUS
  <2>1. t \in FiniteSubsetsOf(U)
    BY <1>2, FS_Subset DEF FiniteSubsetsOf
  <2> QED
    BY <1>1, <2>1
<1>5. PICK r : r = Picked(T)
  OBVIOUS
<1>6. r \in T /\ SpaceOf(T) = Space(r) + SpaceOf(T \ {r}) /\ r # p
  BY <1>2, <1>3, <1>5, PickedIs, SpaceOfIs
<1>7. SpaceOf(T \ {r}) = Space(p) + SpaceOf((T \ {r}) \ {p})
  BY <1>3, <1>4, <1>6
<1>8. SpaceOf(T \ {p}) = Space(r) + SpaceOf((T \ {p}) \ {r})
  BY <1>3, <1>4, <1>6
<1>9. (T \ {r}) \ {p} = (T \ {p}) \ {r}
  OBVIOUS
<1>10. PICK t : t = (T \ {p}) \ {r}
  OBVIOUS
<1>11. SpaceOf(t) \in Nat
  <2>1. t \in SUBSET T /\ IsFiniteSet(t) /\ \A o \in t : Space(o) \in Nat
    BY <1>2, <1>10, FS_Subset
  <2> QED
    BY <2>1, SpaceOfNat
<1>12. Space(p) \in Nat /\ Space(r) \in Nat
  BY <1>2, <1>6
<1>13. SpaceOf(T) = Space(r) + (Space(p) + SpaceOf(t))
  BY <1>6, <1>7, <1>9, <1>10
<1>14. Space(p) + SpaceOf(T \ {p}) = Space(p) + (Space(r) + SpaceOf(t))
  BY <1>8, <1>10
<1>15. Space(r) + (Space(p) + SpaceOf(t)) = Space(p) + (Space(r) + SpaceOf(t))
  BY <1>11, <1>12
<1> QED
  BY <1>3, <1>13, <1>14, <1>15

LEMMA SpaceOfEqual ==
    ASSUME NEW U, IsFiniteSet(U), NEW g \in Nat, \A p \in U : Space(p) = g
    PROVE  SpaceOf(U) = Cardinality(U) * g
<1> DEFINE F == {s \in FiniteSubsetsOf(U) : SpaceOf(s) # Cardinality(s) * g}
<1> SUFFICES ASSUME F # {} PROVE FALSE
  BY DEF FiniteSubsetsOf
<1>1. PICK T \in F : \A t \in F : ~(t \subseteq T /\ t # T)
  <2>1. F \subseteq FiniteSubsetsOf(U)
    OBVIOUS
  <2> HIDE DEF F
  <2> QED
    BY <2>1, SetMinimum
<1>2. T \in SUBSET U /\ IsFiniteSet(T) /\ SpaceOf(T) # Cardinality(T) * g
  BY DEF FiniteSubsetsOf
<1>3. T # {} /\ SpaceOf(T) = Space(Picked(T)) + SpaceOf(T \ {Picked(T)})
  <2>1. T = {} => Cardinality(T) = 0 /\ SpaceOf(T) = 0
    BY <1>2, FS_EmptySet, SpaceOfIs
  <2> QED
    BY <1>2, <2>1, SpaceOfIs
<1>4. PICK r : r = Picked(T)
  OBVIOUS
<1>5. PICK t : t = T \ {r}
  OBVIOUS
<1>6. r \in T /\ Space(r) = g /\ t \subseteq T /\ t # T
  BY <1>2, <1>3, <1>4, <1>5, PickedIs
<1>7. IsFiniteSet(t) /\ Cardinality(t) = Cardinality(T) - 1 /\ Cardinality(t) \in Nat /\ Cardinality(T) \in Nat
  BY <1>2, <1>5, <1>6, FS_RemoveElement, FS_CardinalityType
<1>8. SpaceOf(t) = Cardinality(t) * g
  BY <1>1, <1>2, <1>6, <1>7 DEF FiniteSubsetsOf
<1>9. PICK k \in Nat : k = Cardinality(t)
  BY <1>7
<1>10. SpaceOf(T) = g + k * g /\ Cardinality(T) = k + 1
  BY <1>3, <1>4, <1>5, <1>6, <1>7, <1>8, <1>9
<1>11. (k + 1) * g = g + k * g
  OBVIOUS
<1> QED
  BY <1>2, <1>10, <1>11

-----------------------------------------------------------------------------
\* The walk over the chunks of a heap.

LEMMA NatMinimum ==
    ASSUME NEW T \in SUBSET Nat, T # {}
    PROVE  \E x \in T : \A y \in T : x <= y
<1>1. PICK R : R = OpToRel(<, Nat)
  OBVIOUS
<1>2. IsWellFoundedOn(R, Nat) /\ R = {ss \in Nat \X Nat : ss[1] < ss[2]}
  BY <1>1, NatLessThanWellFounded DEF OpToRel
<1>3. PICK x \in T : \A y \in T : ~(<<y, x>> \in R)
  BY <1>2, WFMin
<1>4. \A y \in T : x <= y
  <2> SUFFICES ASSUME NEW y \in T PROVE x <= y
    OBVIOUS
  <2>1. x \in Nat /\ y \in Nat /\ ~(<<y, x>> \in R)
    BY <1>3
  <2>2. ~(y < x)
    BY <1>2, <2>1
  <2> QED
    BY <2>1, <2>2
<1> QED
  BY <1>4

\* The chunks from c on, and the end of the arena.
From(c) == {d \in DOMAIN heap \cup {MEM_ARENA_SIZE} : c <= d}

UsedAt(c) == IF heap[c].used THEN heap[c].size ELSE 0

Walks(T, f) ==
    f = [c \in T |-> IF c = MEM_ARENA_SIZE THEN 0 ELSE UsedAt(c) + f[right_chunk(c)]]

LEMMA RowFacts ==
    ASSUME Tiled(heap)
    PROVE  /\ MEM_ARENA_SIZE \in Nat /\ DOMAIN heap \subseteq 0..(MEM_ARENA_SIZE - 1)
           /\ 0 \in DOMAIN heap /\ heap[0].used
           /\ \A c \in DOMAIN heap :
                 /\ c \in Nat /\ c < MEM_ARENA_SIZE /\ heap[c].size \in Nat
                 /\ right_chunk(c) \in DOMAIN heap \cup {MEM_ARENA_SIZE}
                 /\ right_chunk(c) \in Nat /\ c < right_chunk(c)
           /\ \A c, d \in DOMAIN heap : c < d => right_chunk(c) <= d
BY SizeAssumption DEF Tiled, right_chunk

LEMMA WalkFrom ==
    ASSUME Tiled(heap), NEW c \in 0..MEM_ARENA_SIZE PROVE \E f : Walks(From(c), f)
<1> DEFINE T == {k \in Nat : k <= MEM_ARENA_SIZE /\ ~\E f : Walks(From(MEM_ARENA_SIZE - k), f)}
<1> USE RowFacts
<1>1. T = {} => \E f : Walks(From(c), f)
  <2>1. PICK k \in Nat : k = MEM_ARENA_SIZE - c /\ k <= MEM_ARENA_SIZE /\ c = MEM_ARENA_SIZE - k
    <3>1. MEM_ARENA_SIZE - c \in Nat /\ MEM_ARENA_SIZE - c <= MEM_ARENA_SIZE
          /\ c = MEM_ARENA_SIZE - (MEM_ARENA_SIZE - c)
      OBVIOUS
    <3> QED
      BY <3>1
  <2> QED
    BY <2>1
<1> SUFFICES ASSUME T # {} PROVE FALSE
  BY <1>1
<1>2. PICK k \in T : \A j \in T : k <= j
  <2>1. T \in SUBSET Nat
    OBVIOUS
  <2> HIDE DEF T
  <2> QED
    BY <2>1, NatMinimum
<1>3. PICK v \in Nat : v = MEM_ARENA_SIZE - k
  OBVIOUS
<1>4. k \in Nat /\ v <= MEM_ARENA_SIZE /\ ~\E f : Walks(From(v), f)
  BY <1>3
<1>5. v # MEM_ARENA_SIZE
  <2> SUFFICES ASSUME v = MEM_ARENA_SIZE PROVE \E f : Walks(From(v), f)
    BY <1>4
  <2>1. From(v) = {MEM_ARENA_SIZE}
    BY DEF From
  <2> DEFINE f == [d \in From(v) |-> 0]
  <2>2. Walks(From(v), f)
    BY <2>1 DEF Walks
  <2> QED
    BY <2>2
<1>6. PICK f : Walks(From(v + 1), f)
  <2>1. k - 1 \in Nat /\ k - 1 <= MEM_ARENA_SIZE /\ MEM_ARENA_SIZE - (k - 1) = v + 1 /\ ~(k <= k - 1)
    BY <1>3, <1>4, <1>5
  <2>2. k - 1 \notin T
    BY <1>2, <2>1
  <2> QED
    BY <2>1, <2>2
<1>7. CASE v \notin DOMAIN heap
  <2>1. From(v) = From(v + 1)
    BY <1>5, <1>7 DEF From
  <2> QED
    BY <1>4, <1>6, <2>1
<1>8. CASE v \in DOMAIN heap
  <2>1. From(v) = From(v + 1) \cup {v} /\ v \notin From(v + 1)
    BY <1>5, <1>8 DEF From
  <2>2. right_chunk(v) \in From(v + 1)
    BY <1>8 DEF From
  <2>3. \A d \in From(v + 1) : d # MEM_ARENA_SIZE => right_chunk(d) \in From(v + 1)
    BY DEF From
  <2> DEFINE h == [d \in From(v) |-> IF d = v THEN UsedAt(v) + f[right_chunk(v)] ELSE f[d]]
  <2>4. \A d \in From(v + 1) : h[d] = f[d]
    BY <2>1
  <2>5. \A d \in From(v + 1) :
           f[d] = IF d = MEM_ARENA_SIZE THEN 0 ELSE UsedAt(d) + f[right_chunk(d)]
    BY <1>6 DEF Walks
  <2>6. \A d \in From(v + 1) :
           h[d] = IF d = MEM_ARENA_SIZE THEN 0 ELSE UsedAt(d) + h[right_chunk(d)]
    BY <2>3, <2>4, <2>5
  <2>7. h[v] = UsedAt(v) + h[right_chunk(v)]
    BY <2>1, <2>2, <2>4
  <2>8. \A d \in From(v) :
           h[d] = IF d = MEM_ARENA_SIZE THEN 0 ELSE UsedAt(d) + h[right_chunk(d)]
    BY <1>5, <2>1, <2>6, <2>7
  <2>9. h = [d \in From(v) |-> h[d]]
    OBVIOUS
  <2> HIDE DEF h
  <2>10. Walks(From(v), h)
    BY <2>8, <2>9 DEF Walks
  <2> QED
    BY <1>4, <2>10
<1> QED
  BY <1>7, <1>8

\* The pieces in the chunks from c on.
Above(c) == {p \in live : c <= p.base - CHUNK_HEADER}

LEMMA HeldFacts ==
    ASSUME Tiled(heap), AllHeld(heap, live), adapter \in Heaps, NEW p \in live
    PROVE  /\ p \in [base : Nat, bytes : Nat]
           /\ p.base - CHUNK_HEADER \in DOMAIN heap \ {0} /\ heap[p.base - CHUNK_HEADER].used
           /\ heap[p.base - CHUNK_HEADER].size = Space(p)
           /\ Space(p) \in Nat
<1>1. /\ p \in [base : Nat, bytes : Nat]
      /\ p.base - CHUNK_HEADER \in DOMAIN heap \ {0} /\ heap[p.base - CHUNK_HEADER].used
      /\ heap[p.base - CHUNK_HEADER].size = p.bytes + CHUNK_HEADER
  BY DEF AllHeld, Held
<1>2. Space(p) = p.bytes + CHUNK_HEADER /\ Space(p) \in Nat
  BY <1>1, SizeAssumption DEF Space
<1> QED
  BY <1>1, <1>2

LEMMA HeldFinite ==
    ASSUME Tiled(heap), AllHeld(heap, live), adapter \in Heaps
    PROVE  IsFiniteSet(live)
<1> DEFINE P == {[base |-> c + CHUNK_HEADER, bytes |-> heap[c].size - CHUNK_HEADER] : c \in DOMAIN heap}
<1>1. IsFiniteSet(DOMAIN heap)
  <2>1. IsFiniteSet(0..(MEM_ARENA_SIZE - 1))
    BY RowFacts, FS_Interval
  <2> QED
    BY <2>1, RowFacts, FS_Subset
<1>2. IsFiniteSet(P)
  <2> DEFINE f == [c \in DOMAIN heap |-> [base |-> c + CHUNK_HEADER, bytes |-> heap[c].size - CHUNK_HEADER]]
  <2>1. f \in Surjection(DOMAIN heap, P)
    BY DEF Surjection
  <2> QED
    BY <1>1, <2>1, FS_Surjection
<1>3. live \subseteq P
  <2> SUFFICES ASSUME NEW p \in live PROVE p \in P
    OBVIOUS
  <2>1. PICK c : c = p.base - CHUNK_HEADER
    OBVIOUS
  <2>2. c \in DOMAIN heap /\ p \in [base : Nat, bytes : Nat] /\ heap[c].size = p.bytes + CHUNK_HEADER
    BY <2>1, HeldFacts DEF Space
  <2>3. p.base = c + CHUNK_HEADER /\ p.bytes = heap[c].size - CHUNK_HEADER
    BY <2>1, <2>2, SizeAssumption
  <2>4. p = [base |-> c + CHUNK_HEADER, bytes |-> heap[c].size - CHUNK_HEADER]
    BY <2>2, <2>3
  <2> QED
    BY <2>2, <2>4
<1> QED
  BY <1>2, <1>3, FS_Subset

\* One chunk of the walk is one piece, or none.
LEMMA AboveStep ==
    ASSUME Tiled(heap), AllHeld(heap, live), adapter \in Heaps, NEW c \in DOMAIN heap \ {0}
    PROVE  SpaceOf(Above(c)) = UsedAt(c) + SpaceOf(Above(right_chunk(c)))
           /\ SpaceOf(Above(right_chunk(c))) \in Nat
<1>1. IsFiniteSet(Above(c)) /\ \A p \in Above(c) : Space(p) \in Nat
  BY HeldFinite, HeldFacts, FS_Subset DEF Above
<1>2. IsFiniteSet(Above(right_chunk(c))) /\ \A p \in Above(right_chunk(c)) : Space(p) \in Nat
  BY HeldFinite, HeldFacts, FS_Subset DEF Above
<1>3. SpaceOf(Above(right_chunk(c))) \in Nat
  BY <1>2, SpaceOfNat
<1>4. ASSUME NEW p \in live
      PROVE  /\ c <= p.base - CHUNK_HEADER <=>
                    p.base - CHUNK_HEADER = c \/ right_chunk(c) <= p.base - CHUNK_HEADER
             /\ p.base - CHUNK_HEADER = c => ~(right_chunk(c) <= p.base - CHUNK_HEADER)
  <2>1. PICK d : d = p.base - CHUNK_HEADER
    OBVIOUS
  <2>2. d \in DOMAIN heap
    BY <2>1, HeldFacts
  <2>3. c <= d <=> d = c \/ right_chunk(c) <= d
    BY <2>2, RowFacts
  <2>4. d = c => ~(right_chunk(c) <= d)
    BY <2>2, RowFacts
  <2> QED
    BY <2>1, <2>3, <2>4
<1>5. CASE ~heap[c].used
  <2>1. \A p \in live : p.base - CHUNK_HEADER # c
    BY <1>5, HeldFacts
  <2>2. Above(c) = Above(right_chunk(c))
    BY <1>4, <2>1 DEF Above
  <2> QED
    BY <1>3, <1>5, <2>2 DEF UsedAt
<1>6. CASE heap[c].used
  <2>1. PICK p \in live : p.base - CHUNK_HEADER = c
    BY <1>6 DEF AllHeld
  <2>2. Space(p) = UsedAt(c)
    BY <1>6, <2>1, HeldFacts DEF UsedAt
  <2>3. \A q \in live : q.base - CHUNK_HEADER = c => q = p
    <3> SUFFICES ASSUME NEW q \in live, q.base - CHUNK_HEADER = c PROVE q = p
      OBVIOUS
    <3>1. /\ p \in [base : Nat, bytes : Nat] /\ heap[c].size = p.bytes + CHUNK_HEADER
          /\ q \in [base : Nat, bytes : Nat] /\ heap[c].size = q.bytes + CHUNK_HEADER
          /\ CHUNK_HEADER \in Nat
      BY <2>1, HeldFacts, SizeAssumption DEF Space
    <3>2. p.base \in Nat /\ p.bytes \in Nat /\ q.base \in Nat /\ q.bytes \in Nat
      BY <3>1
    <3>3. q.base = p.base
      BY <2>1, <3>1, <3>2
    <3>4. q.bytes = p.bytes
      BY <3>1, <3>2
    <3> QED
      BY <3>1, <3>3, <3>4
  <2>4. p \in Above(c) /\ Above(c) \ {p} = Above(right_chunk(c))
    BY <1>4, <2>1, <2>3 DEF Above
  <2>5. SpaceOf(Above(c)) = Space(p) + SpaceOf(Above(c) \ {p})
    BY <1>1, <2>4, SpaceOfAny
  <2> QED
    BY <1>3, <2>2, <2>4, <2>5
<1> QED
  BY <1>5, <1>6

LEMMA WalkIs ==
    ASSUME Tiled(heap), AllHeld(heap, live), adapter \in Heaps,
           NEW f, Walks(From(0), f), NEW c \in From(1)
    PROVE  f[c] = SpaceOf(Above(c))
<1> DEFINE T == {k \in Nat : \E d \in From(1) : d = MEM_ARENA_SIZE - k /\ f[d] # SpaceOf(Above(d))}
<1>1. \A d \in From(0) : f[d] = IF d = MEM_ARENA_SIZE THEN 0 ELSE UsedAt(d) + f[right_chunk(d)]
  BY DEF Walks
<1>2. \A d \in From(1) : d \in From(0) /\ d \in Nat /\ d # 0 /\ d <= MEM_ARENA_SIZE
                         /\ (d # MEM_ARENA_SIZE => d \in DOMAIN heap)
  BY RowFacts DEF From
<1>3. T = {} => f[c] = SpaceOf(Above(c))
  <2>1. PICK k \in Nat : c = MEM_ARENA_SIZE - k
    <3>1. MEM_ARENA_SIZE - c \in Nat /\ c = MEM_ARENA_SIZE - (MEM_ARENA_SIZE - c)
      BY <1>2, RowFacts
    <3> QED
      BY <3>1
  <2> QED
    BY <2>1
<1> SUFFICES ASSUME T # {} PROVE FALSE
  BY <1>3
<1>4. PICK k \in T : \A j \in T : k <= j
  <2>1. T \in SUBSET Nat
    OBVIOUS
  <2> HIDE DEF T
  <2> QED
    BY <2>1, NatMinimum
<1>5. PICK d \in From(1) : d = MEM_ARENA_SIZE - k /\ f[d] # SpaceOf(Above(d))
  OBVIOUS
<1>6. d # MEM_ARENA_SIZE
  <2> SUFFICES ASSUME d = MEM_ARENA_SIZE PROVE FALSE
    OBVIOUS
  <2>1. Above(d) = {}
    <3> SUFFICES ASSUME NEW p \in live, d <= p.base - CHUNK_HEADER PROVE FALSE
      BY DEF Above
    <3>1. PICK e : e = p.base - CHUNK_HEADER
      OBVIOUS
    <3>2. e \in DOMAIN heap
      BY <3>1, HeldFacts
    <3> QED
      BY <3>1, <3>2, RowFacts
  <2>2. SpaceOf(Above(d)) = 0
    BY <2>1, FS_EmptySet, SpaceOfIs
  <2> QED
    BY <1>1, <1>2, <1>5, <2>2
<1>7. PICK r : r = right_chunk(d)
  OBVIOUS
<1>8. d \in DOMAIN heap \ {0} /\ r \in From(1) /\ r \in Nat /\ d < r /\ r <= MEM_ARENA_SIZE
      /\ f[d] = UsedAt(d) + f[r]
  BY <1>1, <1>2, <1>5, <1>6, <1>7, RowFacts DEF From
<1>9. f[r] = SpaceOf(Above(r))
  <2> SUFFICES ASSUME f[r] # SpaceOf(Above(r)) PROVE FALSE
    OBVIOUS
  <2>1. MEM_ARENA_SIZE \in Nat /\ k \in Nat /\ d \in Nat
    BY <1>2, RowFacts
  <2>2. MEM_ARENA_SIZE - r \in Nat /\ r = MEM_ARENA_SIZE - (MEM_ARENA_SIZE - r) /\ ~(k <= MEM_ARENA_SIZE - r)
    BY <1>5, <1>8, <2>1
  <2>3. MEM_ARENA_SIZE - r \in T
    BY <1>8, <2>2
  <2> QED
    BY <1>4, <2>2, <2>3
<1>10. SpaceOf(Above(d)) = UsedAt(d) + SpaceOf(Above(r))
  BY <1>7, <1>8, AboveStep
<1> QED
  BY <1>5, <1>8, <1>9, <1>10

LEMMA HeapUsage ==
    ASSUME Tiled(heap), AllHeld(heap, live), adapter \in Heaps
    PROVE  /\ mem_zephyr_heap_used_bytes = heap[0].size + SpaceOf(live)
           /\ mem_allocator_fixed_bytes = heap[0].size
<1>1. heap # <<>>
  BY RowFacts
<1>2. adapter \notin FixedSize
  BY DEF Heaps, FixedSize
<1>3. mem_allocator_fixed_bytes = heap[0].size
  BY <1>1, <1>2 DEF mem_allocator_fixed_bytes
<1>4. From(0) = DOMAIN heap \cup {MEM_ARENA_SIZE}
  BY RowFacts DEF From
<1>5. PICK f : f = CHOOSE e : Walks(From(0), e)
  OBVIOUS
<1>6. mem_zephyr_heap_used_bytes = f[0]
  BY <1>1, <1>4, <1>5 DEF mem_zephyr_heap_used_bytes, Walks, UsedAt
<1>7. Walks(From(0), f)
  BY <1>5, WalkFrom, RowFacts
<1>8. PICK r : r = right_chunk(0)
  OBVIOUS
<1>9. f[0] = heap[0].size + f[r]
  BY <1>7, <1>8, RowFacts DEF Walks, UsedAt, From
<1>10. r \in From(1)
  BY <1>8, RowFacts DEF From
<1>11. Above(r) = live
  <2> SUFFICES ASSUME NEW p \in live PROVE r <= p.base - CHUNK_HEADER
    BY DEF Above
  <2>1. PICK c : c = p.base - CHUNK_HEADER
    OBVIOUS
  <2>2. c \in DOMAIN heap \ {0}
    BY <2>1, HeldFacts
  <2>3. r <= c
    BY <1>8, <2>2, RowFacts
  <2> QED
    BY <2>1, <2>3
<1>12. f[r] = SpaceOf(live)
  BY <1>7, <1>10, <1>11, WalkIs
<1> QED
  BY <1>3, <1>6, <1>9, <1>12

LEMMA FixedUsage ==
    ASSUME adapter \in FixedSize, granularity \in Nat \ {0}, NEW K \in SUBSET Nat, IsFiniteSet(K),
           live = PiecesAt(K)
    PROVE  SpaceOf(live) = Cardinality(K) * granularity
<1>1. adapter \notin Heaps
  BY DEF Heaps, FixedSize
<1>2. IsFiniteSet(live) /\ Cardinality(live) = Cardinality(K)
  BY PiecesCount
<1>3. ASSUME NEW p \in live PROVE Space(p) = granularity
  <2>1. PICK k \in K : p = PieceAt(k)
    BY DEF PiecesAt
  <2>2. p.bytes = granularity
    BY <2>1, PieceIs
  <2> QED
    BY <1>1, <2>2 DEF Space
<1> QED
  BY <1>2, <1>3, SpaceOfEqual

LEMMA MemInvImpliesUsage == MemInv => UsageExact
<1> SUFFICES ASSUME MemInv PROVE mem_allocator_used_bytes = mem_allocator_fixed_bytes + SpaceOf(live)
  BY DEF UsageExact, LiveSpace, SpaceOf
<1>1. OBJECT \in Nat
  BY SizeAssumption
<1>2. live = {} => SpaceOf(live) = 0
  BY FS_EmptySet, SpaceOfIs
<1>3. CASE adapter \in Heaps
  <2>1. mem_allocator_used_bytes = mem_zephyr_heap_used_bytes
    BY <1>3 DEF mem_allocator_used_bytes, Heaps
  <2>2. CASE heap = <<>> /\ granularity = 0
    <3>1. SpaceOf(live) = 0
      BY <1>2, <2>2 DEF MemInv, MemIdle
    <3>2. mem_zephyr_heap_used_bytes = 0 /\ mem_allocator_fixed_bytes = 0
      BY <1>3, <2>2 DEF mem_zephyr_heap_used_bytes, mem_allocator_fixed_bytes, Heaps, FixedSize
    <3> QED
      BY <2>1, <3>1, <3>2
  <2>3. CASE Tiled(heap) /\ AllHeld(heap, live)
    BY <1>3, <2>1, <2>3, HeapUsage
  <2> QED
    BY <1>3, <2>2, <2>3 DEF MemInv, HeapInv
<1>4. CASE adapter = "mem_slab"
  <2>1. mem_allocator_used_bytes = slab.num_used * granularity + OBJECT /\ mem_allocator_fixed_bytes = OBJECT
    BY <1>4 DEF mem_allocator_used_bytes, mem_allocator_fixed_bytes, Heaps, FixedSize
  <2>2. SpaceOf(live) = slab.num_used * granularity /\ slab.num_used * granularity \in Nat
    <3>1. CASE granularity = 0
      BY <1>2, <3>1 DEF MemInv, MemIdle
    <3>2. CASE granularity # 0
      <4>1. PICK K : K = Indexes \ slab.free
        OBVIOUS
      <4>2. live = PiecesAt(K) /\ slab.num_used = Cardinality(K) /\ K \in SUBSET Indexes
        BY <1>4, <3>2, <4>1 DEF MemInv, SlabInv
      <4>3. K \in SUBSET Nat /\ IsFiniteSet(K) /\ Cardinality(K) \in Nat /\ granularity \in Nat \ {0}
        BY <3>2, <4>2, GranularityIs, IndexesFinite
      <4>4. SpaceOf(live) = Cardinality(K) * granularity
        BY <1>4, <4>2, <4>3, FixedUsage DEF FixedSize
      <4> QED
        BY <4>2, <4>3, <4>4
    <3> QED
      BY <3>1, <3>2
  <2> QED
    BY <1>1, <2>1, <2>2
<1>5. CASE adapter = "mem_blocks"
  <2>1. mem_allocator_used_bytes = Cardinality(bitmap[test_live]) * blk_size(test_live) + OBJECT
        /\ mem_allocator_fixed_bytes = OBJECT
    BY <1>5 DEF mem_allocator_used_bytes, mem_allocator_fixed_bytes, Heaps, FixedSize
  <2>2. SpaceOf(live) = Cardinality(bitmap[test_live]) * blk_size(test_live) /\ SpaceOf(live) \in Nat
    <3>1. CASE granularity = 0
      <4>1. Cardinality(bitmap[test_live]) = 0 /\ SpaceOf(live) = 0
        BY <1>2, <3>1, FS_EmptySet DEF MemInv, MemIdle
      <4>2. blk_size(test_live) \in Nat
        <5>1. PICK s \in S : s = MEM_S_MIN + test_live
          BY SizeAssumption DEF MemInv, MemType, S
        <5>2. 2^s \in Granularity
          BY DEF Granularity
        <5> QED
          BY <5>1, <5>2, SizeAssumption DEF blk_size
      <4> QED
        BY <4>1, <4>2
    <3>2. CASE granularity # 0
      <4>1. PICK K : K = bitmap[test_live]
        OBVIOUS
      <4>2. live = PiecesAt(K) /\ K \in SUBSET Indexes /\ blk_size(test_live) = granularity
        BY <1>5, <3>2, <4>1 DEF MemInv, PoolInv
      <4>3. K \in SUBSET Nat /\ IsFiniteSet(K) /\ Cardinality(K) \in Nat /\ granularity \in Nat \ {0}
        BY <3>2, <4>2, GranularityIs, IndexesFinite
      <4>4. SpaceOf(live) = Cardinality(K) * granularity
        BY <1>5, <4>2, <4>3, FixedUsage DEF FixedSize
      <4> QED
        BY <4>1, <4>2, <4>3, <4>4
    <3> QED
      BY <3>1, <3>2
  <2> QED
    BY <1>1, <2>1, <2>2
<1> QED
  BY <1>3, <1>4, <1>5 DEF MemInv, MemType, FixedSize

\* What the adapters report as used is the fixed cost of the arena and what
\* the harness holds of it, after every sequence of calls.
THEOREM UsageIsExact == MemSpec => []UsageExact
BY MemInvariance, MemInvImpliesUsage, PTL
=============================================================================
