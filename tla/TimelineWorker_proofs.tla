------------------------ MODULE TimelineWorker_proofs ------------------------
(***************************************************************************)
(* What a timeline value promises, and what the counters beside it say,    *)
(* for any number of pages, submissions, signals and waiters.              *)
(***************************************************************************)
EXTENDS TimelineWorker, FiniteSetTheorems, SequenceTheorems, TLAPS

-----------------------------------------------------------------------------
(* The inductive invariant, in parts. *)

TypeOK ==
    /\ work_queue \in Seq(Op) /\ worker_asleep \in BOOLEAN
    /\ thread_timeline_value \in Nat /\ waiting \in SUBSET Waiters
    /\ wpc \in WorkerPhase /\ value \in Op /\ copies \in SUBSET Page
    /\ fpc \in FeederPhase /\ fpages \in SUBSET Page /\ timeline_value \in 0 .. MaxSignals
    /\ active_submissions \in Int /\ pending_writes \in [Page -> Int]
    /\ fence \in 0 .. MaxSubmits /\ gpu_done \in Nat
    /\ pc \in [Waiters -> {"idle", "wait"}] /\ index \in [Waiters -> Nat]
    /\ pushed \in Seq(Op) /\ performed \in Seq(Op)
    /\ written \in [Page -> Nat] /\ host \in [Page -> Nat]

(* The operation that the worker holds is not in the queue any more, and   *)
(* not performed yet.                                                      *)
InHand == IF wpc \in {"wait_fence", "copy", "exited"} THEN 1 ELSE 0

(* What was pushed is what was performed, what is in hand and the queue.   *)
Order ==
    /\ Len(pushed) = Len(performed) + InHand + Len(work_queue)
    /\ \A i \in 1 .. Len(work_queue) : work_queue[i] = pushed[Len(performed) + InHand + i]
    /\ InHand = 1 => value = pushed[Len(performed) + 1]
    /\ wpc = "notify" => Len(performed) > 0 /\ value = pushed[Len(performed)]

(* Copies carry the fence of the last submission. *)
Fences ==
    /\ \A i \in 1 .. Len(pushed) : /\ pushed[i].fence <= fence
                                   /\ pushed[i].cookie => pushed[i].pages = {}
    /\ \A i, j \in 1 .. Len(pushed) :
           i < j /\ pushed[j].pages # {} => pushed[i].fence <= pushed[j].fence

(* Signals are pushed in the order of their values, each of them greater   *)
(* than what has been notified; what was notified has been performed.      *)
Signals ==
    /\ \A i \in 1 .. Len(pushed) : /\ pushed[i].value <= timeline_value
                                   /\ fpc = "signal" => pushed[i].value < timeline_value
    /\ thread_timeline_value <= timeline_value
    /\ fpc = "signal" => thread_timeline_value < timeline_value
    /\ \A i, j \in 1 .. Len(pushed) :
           i < j /\ pushed[j].value # 0 => pushed[i].value < pushed[j].value
    /\ \A i \in 1 .. Len(pushed) :
           pushed[i].value # 0 /\ pushed[i].value <= thread_timeline_value
               => i <= Len(performed)

Finished(op) == op.fence <= gpu_done /\ \A p \in op.pages : host[p] >= op.fence

(* What was performed is finished; what is in hand is, but for `copies`.   *)
Done ==
    /\ \A i \in 1 .. Len(performed) : Finished(pushed[i])
    /\ wpc = "wait_fence" => copies = value.pages
    /\ wpc = "copy" => /\ copies \subseteq value.pages /\ value.fence <= gpu_done
                       /\ \A p \in value.pages \ copies : host[p] >= value.fence

(* The fences and the copies of a page that are still to be waited for and *)
(* to be made, as CountersExact counts them, and the copies that are about *)
(* to be pushed.                                                           *)
Cookies == {i \in Len(performed) + 1 .. Len(pushed) : pushed[i].cookie}
Due(p) == {i \in Len(performed) + 1 .. Len(pushed) :
               /\ p \in pushed[i].pages
               /\ i = Len(performed) + 1 /\ wpc = "copy" => p \in copies}
Fed(p) == fpc \in {"fence", "copy"} /\ p \in fpages

(* The counters that the worker lowers, in these words. *)
Counted ==
    /\ active_submissions = Cardinality(Cookies)
    /\ \A p \in Page : pending_writes[p] = Cardinality(Due(p)) + (IF Fed(p) THEN 1 ELSE 0)

(* The last copy of a page brings what was written last. *)
Latest ==
    \A p \in Page :
        /\ Fed(p) => written[p] = fence
        /\ ~Fed(p) /\ Due(p) = {} => host[p] = written[p]
        /\ ~Fed(p) => \A i \in Due(p) :
               (\A j \in Due(p) : j <= i) => pushed[i].fence = written[p]

IInv == TypeOK /\ Order /\ Fences /\ Signals /\ Done /\ Counted /\ Latest

LEMMA InitSound == Init => IInv
<1>. SUFFICES ASSUME Init PROVE IInv
  OBVIOUS
<1>. USE BoundAssumption DEF Init
<1>1. Default \in Op
  BY DEF Default, Op
<1>2. TypeOK
  <2>1. work_queue \in Seq(Op) /\ pushed \in Seq(Op) /\ performed \in Seq(Op)
    BY EmptySeq
  <2>2. /\ pending_writes \in [Page -> Int] /\ written \in [Page -> Nat] /\ host \in [Page -> Nat]
        /\ pc \in [Waiters -> {"idle", "wait"}] /\ index \in [Waiters -> Nat]
    OBVIOUS
  <2>3. wpc \in WorkerPhase /\ fpc \in FeederPhase
    BY DEF WorkerPhase, FeederPhase
  <2>4. /\ thread_timeline_value \in Nat /\ timeline_value \in 0 .. MaxSignals
        /\ active_submissions \in Int /\ fence \in 0 .. MaxSubmits /\ gpu_done \in Nat
    OBVIOUS
  <2>5. /\ worker_asleep \in BOOLEAN /\ waiting \in SUBSET Waiters
        /\ value \in Op /\ copies \in SUBSET Page /\ fpages \in SUBSET Page
    BY <1>1
  <2>. QED BY <2>1, <2>2, <2>3, <2>4, <2>5 DEF TypeOK
<1>3. Order /\ Fences /\ Signals /\ Done
  BY DEF Order, InHand, Fences, Signals, Done
<1>4. Cookies = {} /\ \A p \in Page : Due(p) = {} /\ ~Fed(p)
  BY DEF Cookies, Due, Fed
<1>5. Counted
  <2>1. active_submissions = 0 /\ \A p \in Page : pending_writes[p] = 0
    OBVIOUS
  <2>2. Cardinality(Cookies) = 0 /\ \A p \in Page : Cardinality(Due(p)) = 0
    BY <1>4, FS_EmptySet
  <2>. QED BY <1>4, <2>1, <2>2 DEF Counted
<1>6. Latest
  BY <1>4 DEF Latest
<1>. QED BY <1>2, <1>3, <1>5, <1>6 DEF IInv
-----------------------------------------------------------------------------
(* The sets that are counted. *)

LEMMA SetsAreFinite ==
    ASSUME TypeOK
    PROVE  /\ Len(pushed) \in Nat /\ Len(performed) \in Nat /\ InHand \in {0, 1}
           /\ IsFiniteSet(Cookies)
           /\ \A p : IsFiniteSet(Due(p)) /\ Due(p) \subseteq Nat
<1>. DEFINE I == Len(performed) + 1 .. Len(pushed)
<1>1. Len(pushed) \in Nat /\ Len(performed) \in Nat
  BY DEF TypeOK
<1>2. IsFiniteSet(I)
  BY <1>1, FS_Interval
<1>3. Cookies \in SUBSET I /\ \A p : Due(p) \in SUBSET I
  BY DEF Cookies, Due
<1>4. I \subseteq Nat
  BY <1>1
<1>. HIDE DEF I
<1>5. IsFiniteSet(Cookies) /\ \A p : IsFiniteSet(Due(p))
  BY <1>2, <1>3, FS_Subset
<1>. QED BY <1>1, <1>3, <1>4, <1>5 DEF InHand

(* An operation is pushed. *)
LEMMA Pushed ==
    ASSUME TypeOK, Order, NEW op \in Op, Push(op),
           UNCHANGED <<wpc, value, copies, performed>>
    PROVE  /\ pushed' \in Seq(Op) /\ work_queue' \in Seq(Op)
           /\ Len(pushed') = Len(pushed) + 1
           /\ \A i \in 1 .. Len(pushed) : pushed'[i] = pushed[i]
           /\ pushed'[Len(pushed) + 1] = op
           /\ Order'
           /\ Cookies' = IF op.cookie THEN Cookies \cup {Len(pushed) + 1} ELSE Cookies
           /\ Len(pushed) + 1 \notin Cookies
           /\ \A p : /\ Due(p)' = IF p \in op.pages THEN Due(p) \cup {Len(pushed) + 1} ELSE Due(p)
                     /\ Len(pushed) + 1 \notin Due(p)
<1>. DEFINE n == Len(pushed)
            d == Len(performed)
            m == Len(work_queue)
<1>1. n \in Nat /\ d \in Nat /\ m \in Nat /\ n = d + InHand + m /\ InHand \in {0, 1}
  BY SetsAreFinite DEF TypeOK, Order
<1>2. /\ pushed' \in Seq(Op) /\ Len(pushed') = n + 1
      /\ \A i \in 1 .. n : pushed'[i] = pushed[i]
      /\ pushed'[n + 1] = op
  BY AppendProperties DEF TypeOK, Push
<1>3. /\ work_queue' \in Seq(Op) /\ Len(work_queue') = m + 1
      /\ \A i \in 1 .. m : work_queue'[i] = work_queue[i]
      /\ work_queue'[m + 1] = op
  BY AppendProperties DEF TypeOK, Push
<1>4. InHand' = InHand /\ performed' = performed
  BY DEF InHand
<1>5. Order'
  <2>1. \A i \in 1 .. m + 1 : work_queue'[i] = pushed'[d + InHand + i]
    <3>1. ASSUME NEW i \in 1 .. m PROVE work_queue'[i] = pushed'[d + InHand + i]
      <4>1. d + InHand + i \in 1 .. n
        BY <1>1
      <4>. QED BY <1>2, <1>3, <4>1 DEF Order
    <3>2. work_queue'[m + 1] = pushed'[d + InHand + (m + 1)]
      BY <1>1, <1>2, <1>3
    <3>3. \A i \in 1 .. m + 1 : i \in 1 .. m \/ i = m + 1
      BY <1>1
    <3>. QED BY <3>1, <3>2, <3>3
  <2>2. InHand = 1 => value = pushed'[d + 1]
    <3>1. InHand = 1 => d + 1 \in 1 .. n
      BY <1>1
    <3>. QED BY <1>2, <3>1 DEF Order
  <2>3. wpc = "notify" => d > 0 /\ value = pushed'[d]
    <3>1. wpc = "notify" /\ d > 0 => d \in 1 .. n
      BY <1>1
    <3>. QED BY <1>2, <3>1 DEF Order
  <2>. QED BY <1>1, <1>2, <1>3, <1>4, <2>1, <2>2, <2>3 DEF Order
<1>6. \A i : i \in d + 1 .. n + 1 <=> i \in d + 1 .. n \/ i = n + 1
  BY <1>1
<1>7. n + 1 \notin d + 1 .. n
  BY <1>1
<1>8. \A i \in d + 1 .. n : pushed'[i] = pushed[i]
  BY <1>1, <1>2
<1>9. wpc = "copy" => n + 1 # d + 1
  BY <1>1 DEF InHand
<1>. HIDE DEF n, d
<1>10. /\ Cookies' = IF op.cookie THEN Cookies \cup {n + 1} ELSE Cookies
       /\ n + 1 \notin Cookies
  BY <1>2, <1>4, <1>6, <1>7, <1>8 DEF Cookies, n, d
<1>11. ASSUME NEW p
       PROVE  /\ Due(p)' = IF p \in op.pages THEN Due(p) \cup {n + 1} ELSE Due(p)
              /\ n + 1 \notin Due(p)
  <2>1. Due(p)' = {i \in d + 1 .. n + 1 : /\ p \in pushed'[i].pages
                                          /\ i = d + 1 /\ wpc = "copy" => p \in copies}
    BY <1>2, <1>4 DEF Due, n, d
  <2>2. Due(p) = {i \in d + 1 .. n : /\ p \in pushed[i].pages
                                     /\ i = d + 1 /\ wpc = "copy" => p \in copies}
    BY DEF Due, n, d
  <2>. QED BY <1>2, <1>6, <1>7, <1>8, <1>9, <2>1, <2>2
<1>. QED BY <1>2, <1>3, <1>5, <1>10, <1>11 DEF n, d

(* It is no copy, or one of the last submission. *)
LEMMA PushedFences ==
    ASSUME TypeOK, Order, Fences, Done, NEW op \in Op, Push(op),
           UNCHANGED <<wpc, value, copies, performed, fence, gpu_done, host>>,
           op.fence <= fence, op.cookie => op.pages = {}, op.pages # {} => op.fence = fence
    PROVE  Fences' /\ Done'
<1>. DEFINE n == Len(pushed)
<1>1. /\ n \in Nat /\ Len(pushed') = n + 1 /\ pushed'[n + 1] = op
      /\ \A i \in 1 .. n : pushed'[i] = pushed[i]
  BY Pushed, SetsAreFinite
<1>2. \A i \in 1 .. n + 1 : i \in 1 .. n \/ i = n + 1
  BY <1>1
<1>3. \A i \in 1 .. n + 1 : /\ pushed'[i].fence <= fence
                            /\ pushed'[i].cookie => pushed'[i].pages = {}
  BY <1>1, <1>2 DEF Fences
<1>4. ASSUME NEW i \in 1 .. n + 1, NEW j \in 1 .. n + 1, i < j, pushed'[j].pages # {}
      PROVE  pushed'[i].fence <= pushed'[j].fence
  <2>1. i \in 1 .. n
    BY <1>1, <1>4
  <2>2. CASE j = n + 1
    BY <1>1, <1>3, <1>4, <2>2
  <2>3. CASE j \in 1 .. n
    BY <1>1, <1>4, <2>1, <2>3 DEF Fences
  <2>. QED BY <1>2, <2>2, <2>3
<1>5. \A i \in 1 .. Len(performed) : i \in 1 .. n
  BY <1>1, SetsAreFinite DEF Order, TypeOK
<1>6. Done'
  BY <1>1, <1>5 DEF Done, Finished
<1>. QED BY <1>1, <1>3, <1>4, <1>6 DEF Fences

(* It is no signal, or the one that was just numbered. *)
LEMMA PushedSignals ==
    ASSUME TypeOK, Order, Signals, NEW op \in Op, Push(op),
           UNCHANGED <<wpc, value, copies, performed, timeline_value, thread_timeline_value>>,
           op.value = 0 \/ (op.value = timeline_value /\ fpc = "signal"), fpc' # "signal"
    PROVE  Signals'
<1>. DEFINE n == Len(pushed)
<1>1. /\ n \in Nat /\ Len(pushed') = n + 1 /\ pushed'[n + 1] = op
      /\ \A i \in 1 .. n : pushed'[i] = pushed[i]
      /\ timeline_value \in Nat /\ thread_timeline_value \in Nat
  BY Pushed, SetsAreFinite, BoundAssumption DEF TypeOK
<1>2. \A i \in 1 .. n + 1 : i \in 1 .. n \/ i = n + 1
  BY <1>1
<1>3. \A i \in 1 .. n + 1 : pushed'[i].value <= timeline_value
  BY <1>1, <1>2 DEF Signals
<1>4. ASSUME NEW i \in 1 .. n + 1, NEW j \in 1 .. n + 1, i < j, pushed'[j].value # 0
      PROVE  pushed'[i].value < pushed'[j].value
  <2>1. i \in 1 .. n
    BY <1>1, <1>4
  <2>2. CASE j = n + 1
    BY <1>1, <1>4, <2>1, <2>2 DEF Signals
  <2>3. CASE j \in 1 .. n
    BY <1>1, <1>4, <2>1, <2>3 DEF Signals
  <2>. QED BY <1>2, <2>2, <2>3
<1>5. ASSUME NEW i \in 1 .. n + 1, pushed'[i].value # 0, pushed'[i].value <= thread_timeline_value
      PROVE  i <= Len(performed)
  <2>1. CASE i = n + 1
    BY <1>1, <1>5, <2>1 DEF Signals
  <2>2. CASE i \in 1 .. n
    BY <1>1, <1>5, <2>2 DEF Signals
  <2>. QED BY <1>2, <2>1, <2>2
<1>. QED BY <1>1, <1>3, <1>4, <1>5 DEF Signals
-----------------------------------------------------------------------------
(* The steps of the feeder. *)

LEMMA SubmitSound ==
    ASSUME IInv, NEW P \in SUBSET Page, Submit(P)
    PROVE  IInv'
<1>. USE DEF Submit, queue, main, worker, waiters
<1>1. /\ TypeOK /\ Order /\ Fences /\ Signals /\ Done /\ Counted /\ Latest
      /\ fence \in Nat /\ fence' \in Nat
  BY BoundAssumption DEF IInv, TypeOK
<1>2. TypeOK'
  <2>1. /\ pending_writes' \in [Page -> Int] /\ written' \in [Page -> Nat]
        /\ fence' \in 0 .. MaxSubmits
    BY <1>1, BoundAssumption DEF TypeOK
  <2>2. fpc' \in FeederPhase /\ fpages' \in SUBSET Page
    BY DEF FeederPhase
  <2>. QED BY <1>1, <2>1, <2>2 DEF TypeOK
<1>3. Order'
  BY <1>1 DEF Order, InHand
<1>4. Fences'
  <2>1. \A i \in 1 .. Len(pushed) : pushed[i].fence \in Nat
    <3>1. \A i \in 1 .. Len(pushed) : pushed[i] \in Op
      BY <1>1 DEF TypeOK
    <3>. QED BY <3>1, BoundAssumption DEF Op
  <2>. QED BY <1>1, <2>1 DEF Fences
<1>5. Signals'
  BY <1>1 DEF Signals
<1>6. Done'
  BY <1>1 DEF Done, Finished
<1>7. Cookies' = Cookies /\ \A p : Due(p)' = Due(p)
  BY DEF Cookies, Due
<1>8. \A p \in Page : ~Fed(p) /\ Fed(p)' = (p \in P)
  BY DEF Fed
<1>9. Counted'
  <2>1. \A p : Cardinality(Due(p)) \in Nat
    BY <1>1, SetsAreFinite, FS_CardinalityType
  <2>2. \A p \in Page : pending_writes'[p] = Cardinality(Due(p)) + (IF p \in P THEN 1 ELSE 0)
    BY <1>1, <1>8, <2>1 DEF Counted
  <2>3. active_submissions' = Cardinality(Cookies')
    BY <1>1, <1>7 DEF Counted
  <2>. QED BY <1>7, <1>8, <2>2, <2>3 DEF Counted
<1>10. Latest'
  <2>1. \A p \in Page : written'[p] = IF p \in P THEN fence' ELSE written[p]
    OBVIOUS
  <2>. QED BY <1>1, <1>7, <1>8, <2>1 DEF Latest
<1>. QED BY <1>2, <1>3, <1>4, <1>5, <1>6, <1>9, <1>10 DEF IInv

LEMMA EnqueueFenceWaitSound ==
    ASSUME IInv, EnqueueFenceWait
    PROVE  IInv'
<1>. DEFINE op == FenceOp(fence)
<1>. USE DEF main, worker, gpu, waiters
<1>1. TypeOK /\ Order /\ Fences /\ Signals /\ Done /\ Counted /\ Latest
  BY DEF IInv
<1>2. /\ op \in Op /\ op.fence = fence /\ op.value = 0 /\ op.cookie = TRUE /\ op.pages = {}
  BY <1>1, BoundAssumption DEF TypeOK, FenceOp, Op
<1>3. /\ Push(op) /\ UNCHANGED <<main, worker, fpages, timeline_value, pending_writes, gpu,
                                 waiters, performed, written, host>>
      /\ active_submissions' = active_submissions + 1
      /\ fpc = "fence" /\ fpc' = IF fpages = {} THEN "idle" ELSE "copy"
  BY DEF EnqueueFenceWait
<1>. HIDE DEF op
<1>4. /\ pushed' \in Seq(Op) /\ work_queue' \in Seq(Op) /\ Order'
      /\ Len(pushed) + 1 \notin Cookies /\ Cookies' = Cookies \cup {Len(pushed) + 1}
      /\ \A p : Due(p)' = Due(p)
  BY <1>1, <1>2, <1>3, Pushed
<1>5. TypeOK'
  <2>1. active_submissions' \in Int
    BY <1>1, <1>3 DEF TypeOK
  <2>2. worker_asleep' \in BOOLEAN
    BY <1>3 DEF Push
  <2>3. fpc' \in FeederPhase
    BY <1>3 DEF FeederPhase
  <2>. QED BY <1>1, <1>3, <1>4, <2>1, <2>2, <2>3 DEF TypeOK
<1>6. Fences' /\ Done'
  <2>1. fence \in Nat
    BY <1>1, BoundAssumption DEF TypeOK
  <2>. QED BY <1>1, <1>2, <1>3, <2>1, PushedFences
<1>7. Signals'
  BY <1>1, <1>2, <1>3, PushedSignals
<1>8. \A p \in Page : Fed(p)' = Fed(p)
  BY <1>3 DEF Fed
<1>9. Counted'
  <2>1. Cardinality(Cookies') = Cardinality(Cookies) + 1
    BY <1>1, <1>4, SetsAreFinite, FS_AddElement
  <2>. QED BY <1>1, <1>3, <1>4, <1>8, <2>1 DEF Counted
<1>10. Latest'
  <2>1. ASSUME NEW p \in Page, NEW i \in Due(p) PROVE pushed'[i] = pushed[i]
    <3>1. i \in 1 .. Len(pushed)
      BY <1>1, SetsAreFinite DEF Due
    <3>. QED BY <1>1, <1>2, <1>3, <3>1, Pushed
  <2>. QED BY <1>1, <1>3, <1>4, <1>8, <2>1 DEF Latest
<1>. QED BY <1>4, <1>5, <1>6, <1>7, <1>9, <1>10 DEF IInv

LEMMA EnqueueCopiesSound ==
    ASSUME IInv, EnqueueCopies
    PROVE  IInv'
<1>. DEFINE op == CopyOp(fence, fpages)
            n == Len(pushed)
<1>. USE DEF main, worker, counters, gpu, waiters
<1>1. TypeOK /\ Order /\ Fences /\ Signals /\ Done /\ Counted /\ Latest
  BY DEF IInv
<1>2. op \in Op /\ op.fence = fence /\ op.value = 0 /\ op.cookie = FALSE /\ op.pages = fpages
  BY <1>1, BoundAssumption DEF TypeOK, CopyOp, Op
<1>3. /\ Push(op) /\ UNCHANGED <<main, worker, fpages, timeline_value, counters, gpu, waiters,
                                 performed, written, host>>
      /\ fpc = "copy" /\ fpc' = "idle"
  BY DEF EnqueueCopies
<1>. HIDE DEF op
<1>4. /\ pushed' \in Seq(Op) /\ work_queue' \in Seq(Op) /\ Order'
      /\ Cookies' = Cookies
      /\ \A i \in 1 .. n : pushed'[i] = pushed[i]
      /\ pushed'[n + 1] = op
      /\ \A p : /\ Due(p)' = IF p \in fpages THEN Due(p) \cup {n + 1} ELSE Due(p)
                /\ n + 1 \notin Due(p)
  BY <1>1, <1>2, <1>3, Pushed
<1>5. TypeOK'
  <2>1. worker_asleep' \in BOOLEAN /\ fpc' \in FeederPhase
    BY <1>3 DEF Push, FeederPhase
  <2>. QED BY <1>1, <1>3, <1>4, <2>1 DEF TypeOK
<1>6. Fences' /\ Done'
  <2>1. fence \in Nat
    BY <1>1, BoundAssumption DEF TypeOK
  <2>. QED BY <1>1, <1>2, <1>3, <2>1, PushedFences
<1>7. Signals'
  BY <1>1, <1>2, <1>3, PushedSignals
<1>8. \A p \in Page : Fed(p) = (p \in fpages) /\ ~Fed(p)'
  BY <1>3 DEF Fed
<1>9. Counted'
  <2>1. \A p : /\ Cardinality(Due(p)) \in Nat
               /\ Cardinality(Due(p) \cup {n + 1}) = Cardinality(Due(p)) + 1
    BY <1>1, <1>4, SetsAreFinite, FS_AddElement, FS_CardinalityType
  <2>2. \A p : Cardinality(Due(p)') = Cardinality(Due(p)) + (IF p \in fpages THEN 1 ELSE 0)
    BY <1>4, <2>1
  <2>3. \A p \in Page : pending_writes'[p] = Cardinality(Due(p)')
    BY <1>1, <1>3, <1>8, <2>1, <2>2 DEF Counted
  <2>4. \A p \in Page : Cardinality(Due(p)') \in Nat
    BY <2>1, <2>2
  <2>. QED BY <1>1, <1>3, <1>4, <1>8, <2>3, <2>4 DEF Counted
<1>10. Latest'
  <2>1. ASSUME NEW p \in Page, p \in fpages
        PROVE  /\ Due(p)' # {}
               /\ \A i \in Due(p)' :
                      (\A j \in Due(p)' : j <= i) => pushed'[i].fence = written'[p]
    <3>1. written'[p] = fence
      BY <1>1, <1>3, <1>8, <2>1 DEF Latest
    <3>2. Due(p)' = Due(p) \cup {n + 1} /\ \A i \in Due(p) : i \in 1 .. n
      BY <1>1, <1>4, <2>1, SetsAreFinite DEF Due
    <3>3. \A i \in Due(p)' : (\A j \in Due(p)' : j <= i) => i = n + 1
      BY <1>1, <3>2, SetsAreFinite
    <3>. QED BY <1>2, <1>4, <3>1, <3>2, <3>3
  <2>2. ASSUME NEW p \in Page, p \notin fpages
        PROVE  /\ Due(p)' = {} => host'[p] = written'[p]
               /\ \A i \in Due(p)' :
                      (\A j \in Due(p)' : j <= i) => pushed'[i].fence = written'[p]
    <3>1. Due(p)' = Due(p) /\ \A i \in Due(p) : i \in 1 .. n
      BY <1>1, <1>4, <2>2, SetsAreFinite DEF Due
    <3>. QED BY <1>1, <1>3, <1>4, <1>8, <2>2, <3>1 DEF Latest
  <2>. QED BY <1>8, <2>1, <2>2 DEF Latest
<1>. QED BY <1>4, <1>5, <1>6, <1>7, <1>9, <1>10 DEF IInv

LEMMA SignalTimelineSound ==
    ASSUME IInv, SignalTimeline
    PROVE  IInv'
<1>. USE DEF SignalTimeline, queue, main, worker, counters, gpu, waiters
<1>1. TypeOK /\ Order /\ Fences /\ Signals /\ Done /\ Counted /\ Latest
  BY DEF IInv
<1>2. TypeOK'
  <2>1. timeline_value' \in 0 .. MaxSignals /\ fpc' \in FeederPhase
    BY <1>1, BoundAssumption DEF TypeOK, FeederPhase
  <2>. QED BY <1>1, <2>1 DEF TypeOK
<1>3. Order' /\ Fences' /\ Done'
  BY <1>1 DEF Order, InHand, Fences, Done, Finished
<1>4. Signals'
  <2>1. \A i \in 1 .. Len(pushed) : pushed[i].value \in Nat
    <3>1. \A i \in 1 .. Len(pushed) : pushed[i] \in Op
      BY <1>1 DEF TypeOK
    <3>. QED BY <3>1, BoundAssumption DEF Op
  <2>2. timeline_value \in Nat /\ thread_timeline_value \in Nat
    BY <1>1, BoundAssumption DEF TypeOK
  <2>. QED BY <1>1, <2>1, <2>2 DEF Signals
<1>5. Cookies' = Cookies /\ \A p : Due(p)' = Due(p) /\ Fed(p)' = Fed(p)
  BY DEF Cookies, Due, Fed
<1>6. Counted' /\ Latest'
  BY <1>1, <1>5 DEF Counted, Latest
<1>. QED BY <1>1, <1>2, <1>3, <1>4, <1>6 DEF IInv

(* A signal or the sentinel. *)
LEMMA PlainPushSound ==
    ASSUME IInv, NEW op \in Op, Push(op), op.fence = 0, ~op.cookie, op.pages = {},
           op.value = 0 \/ (op.value = timeline_value /\ fpc = "signal"),
           fpc \in {"idle", "signal"}, fpc' \in {"idle", "join"},
           UNCHANGED <<main, worker, fpages, timeline_value, counters, gpu, waiters, performed,
                       written, host>>
    PROVE  IInv'
<1>. USE DEF main, worker, counters, gpu, waiters
<1>1. TypeOK /\ Order /\ Fences /\ Signals /\ Done /\ Counted /\ Latest
  BY DEF IInv
<1>2. /\ pushed' \in Seq(Op) /\ work_queue' \in Seq(Op) /\ Order'
      /\ Cookies' = Cookies /\ \A p : Due(p)' = Due(p)
      /\ \A i \in 1 .. Len(pushed) : pushed'[i] = pushed[i]
  BY <1>1, Pushed
<1>3. TypeOK'
  <2>1. worker_asleep' \in BOOLEAN
    BY DEF Push
  <2>2. fpc' \in FeederPhase
    BY DEF FeederPhase
  <2>. QED BY <1>1, <1>2, <2>1, <2>2 DEF TypeOK
<1>4. Fences' /\ Done'
  <2>1. fence \in Nat
    BY <1>1, BoundAssumption DEF TypeOK
  <2>. QED BY <1>1, <2>1, PushedFences
<1>5. Signals'
  BY <1>1, PushedSignals
<1>6. \A p \in Page : ~Fed(p) /\ ~Fed(p)'
  BY DEF Fed
<1>7. Counted'
  BY <1>1, <1>2, <1>6 DEF Counted
<1>8. Latest'
  <2>1. ASSUME NEW p \in Page, NEW i \in Due(p) PROVE pushed'[i] = pushed[i]
    <3>1. i \in 1 .. Len(pushed)
      BY <1>1, SetsAreFinite DEF Due
    <3>. QED BY <1>2, <3>1
  <2>. QED BY <1>1, <1>2, <1>6, <2>1 DEF Latest
<1>. QED BY <1>2, <1>3, <1>4, <1>5, <1>7, <1>8 DEF IInv

LEMMA EnqueueSignalSound ==
    ASSUME IInv, EnqueueSignal
    PROVE  IInv'
<1>1. SignalOp(timeline_value) \in Op
  BY BoundAssumption DEF IInv, TypeOK, SignalOp, Op
<1>. QED BY <1>1, PlainPushSound DEF EnqueueSignal, SignalOp

LEMMA DestroySound ==
    ASSUME IInv, Destroy
    PROVE  IInv'
<1>1. Default \in Op
  BY BoundAssumption DEF Default, Op
<1>. QED BY <1>1, PlainPushSound DEF Destroy, Default
-----------------------------------------------------------------------------
(* The steps of the worker. *)

LEMMA PopSound ==
    ASSUME IInv, Pop
    PROVE  IInv'
<1>. DEFINE n == Len(pushed)
            d == Len(performed)
            m == Len(work_queue)
<1>. USE DEF main, feeder, counters, gpu, waiters
<1>1. /\ TypeOK /\ Order /\ Fences /\ Signals /\ Done /\ Counted /\ Latest
      /\ wpc = "poll" /\ InHand = 0 /\ work_queue # <<>>
      /\ value' = Head(work_queue) /\ work_queue' = Tail(work_queue)
      /\ copies' = Head(work_queue).pages /\ wpc' \in {"exited", "wait_fence"}
      /\ UNCHANGED <<worker_asleep, main, feeder, counters, gpu, waiters, pushed, performed,
                     written, host>>
  BY DEF IInv, Pop, InHand
<1>2. /\ n \in Nat /\ d \in Nat /\ m \in Nat /\ m > 0 /\ n = d + m
      /\ work_queue \in Seq(Op) /\ InHand' = 1
  BY <1>1, SetsAreFinite, EmptySeq DEF TypeOK, Order, InHand
<1>3. /\ Head(work_queue) = work_queue[1] /\ work_queue[1] \in Op
      /\ work_queue' \in Seq(Op) /\ Len(work_queue') = m - 1
      /\ \A i \in 1 .. m - 1 : work_queue'[i] = work_queue[i + 1]
  BY <1>1, <1>2, HeadTailProperties
<1>4. TypeOK'
  <2>1. value' \in Op /\ copies' \in SUBSET Page
    BY <1>1, <1>3 DEF Op
  <2>2. wpc' \in WorkerPhase
    BY <1>1 DEF WorkerPhase
  <2>. QED BY <1>1, <1>3, <2>1, <2>2 DEF TypeOK
<1>5. Order'
  <2>1. value' = pushed[d + 1]
    BY <1>1, <1>2, <1>3 DEF Order
  <2>2. \A i \in 1 .. m - 1 : work_queue'[i] = pushed[d + 1 + i]
    <3>1. ASSUME NEW i \in 1 .. m - 1 PROVE work_queue'[i] = pushed[d + 1 + i]
      <4>1. i + 1 \in 1 .. m /\ d + 0 + (i + 1) = d + 1 + i
        BY <1>2
      <4>2. work_queue[i + 1] = pushed[d + 0 + (i + 1)]
        BY <1>1, <4>1 DEF Order
      <4>. QED BY <1>3, <4>1, <4>2
    <3>. QED BY <3>1
  <2>. QED BY <1>1, <1>2, <1>3, <2>1, <2>2 DEF Order
<1>6. Fences' /\ Signals'
  BY <1>1 DEF Fences, Signals
<1>7. Done'
  BY <1>1 DEF Done, Finished
<1>8. Cookies' = Cookies /\ \A p : Due(p)' = Due(p) /\ Fed(p)' = Fed(p)
  BY <1>1 DEF Cookies, Due, Fed
<1>9. Counted' /\ Latest'
  BY <1>1, <1>8 DEF Counted, Latest
<1>. QED BY <1>4, <1>5, <1>6, <1>7, <1>9 DEF IInv

(* What is in hand becomes what was performed last. *)
LEMMA Performed ==
    ASSUME TypeOK, Order, Signals, wpc \in {"wait_fence", "copy"}, wpc' = "notify",
           performed' = Append(performed, value), UNCHANGED <<pushed, work_queue, value>>,
           UNCHANGED <<thread_timeline_value, timeline_value, fpc>>
    PROVE  /\ performed' \in Seq(Op) /\ Len(performed') = Len(performed) + 1
           /\ Order' /\ Signals'
<1>. DEFINE d == Len(performed)
<1>1. /\ d \in Nat /\ InHand = 1 /\ InHand' = 0 /\ Len(pushed) \in Nat
      /\ Len(work_queue) \in Nat
  BY SetsAreFinite DEF InHand, TypeOK
<1>2. performed' \in Seq(Op) /\ Len(performed') = d + 1
  BY AppendProperties DEF TypeOK
<1>3. Order'
  BY <1>1, <1>2 DEF Order
<1>4. Signals'
  BY <1>1, <1>2 DEF Signals
<1>. QED BY <1>2, <1>3, <1>4

LEMMA WaitFenceSound ==
    ASSUME IInv, WaitFence
    PROVE  IInv'
<1>. DEFINE n == Len(pushed)
            d == Len(performed)
<1>. USE DEF queue, main, feeder, gpu, waiters
<1>1. /\ TypeOK /\ Order /\ Fences /\ Signals /\ Done /\ Counted /\ Latest
      /\ wpc = "wait_fence" /\ value.fence <= gpu_done /\ copies = value.pages
      /\ active_submissions' = active_submissions - (IF value.cookie THEN 1 ELSE 0)
      /\ UNCHANGED <<queue, main, value, copies, feeder, pending_writes, gpu, waiters, pushed,
                     written, host>>
  BY DEF IInv, WaitFence, Done
<1>2. /\ n \in Nat /\ d \in Nat /\ InHand = 1 /\ d + 1 \in 1 .. n /\ value = pushed[d + 1]
      /\ value \in Op /\ value.cookie \in BOOLEAN
  <2>1. n \in Nat /\ d \in Nat /\ InHand = 1 /\ Len(work_queue) \in Nat
    BY <1>1, SetsAreFinite DEF InHand, TypeOK
  <2>2. value \in Op /\ value.cookie \in BOOLEAN
    BY <1>1 DEF TypeOK, Op
  <2>. QED BY <1>1, <2>1, <2>2 DEF Order
<1>3. /\ active_submissions' \in Int
      /\ \A p \in Page : Fed(p)' = Fed(p)
      /\ Fences'
  BY <1>1, <1>2 DEF TypeOK, Fed, Fences
<1>4. \A i : i \in d + 1 .. n <=> i = d + 1 \/ i \in d + 2 .. n
  BY <1>2
<1>5. CASE copies = {}
  <2>1. wpc' = "notify" /\ performed' = Append(performed, value)
    BY <1>5 DEF WaitFence
  <2>2. performed' \in Seq(Op) /\ Len(performed') = d + 1 /\ Order' /\ Signals'
    BY <1>1, <2>1, Performed
  <2>3. TypeOK'
    BY <1>1, <1>3, <2>1, <2>2 DEF TypeOK, WorkerPhase
  <2>4. Done'
    <3>1. \A i \in 1 .. d + 1 : i \in 1 .. d \/ i = d + 1
      BY <1>2
    <3>2. Finished(value)
      BY <1>1, <1>5 DEF Finished
    <3>3. \A i \in 1 .. d : Finished(pushed[i])
      BY <1>1 DEF Done
    <3>. QED BY <1>1, <1>2, <2>1, <2>2, <3>1, <3>2, <3>3 DEF Done, Finished
  <2>5. \A p : Due(p)' = Due(p)
    BY <1>1, <1>2, <1>4, <1>5, <2>1, <2>2 DEF Due
  <2>6. Cookies' = Cookies \ {d + 1} /\ (d + 1 \in Cookies <=> value.cookie)
    BY <1>1, <1>2, <1>4, <2>2 DEF Cookies
  <2>7. Cardinality(Cookies') = Cardinality(Cookies) - (IF value.cookie THEN 1 ELSE 0)
    <3>1. Cardinality(Cookies) \in Nat
      BY <1>1, SetsAreFinite, FS_CardinalityType
    <3>2. IsFiniteSet(Cookies)
      BY <1>1, SetsAreFinite
    <3>3. Cardinality(Cookies \ {d + 1}) = IF d + 1 \in Cookies THEN Cardinality(Cookies) - 1
                                                               ELSE Cardinality(Cookies)
      BY <3>2, FS_RemoveElement
    <3>. QED BY <2>6, <3>1, <3>3
  <2>8. Counted'
    BY <1>1, <1>3, <2>5, <2>7 DEF Counted
  <2>9. Latest'
    BY <1>1, <1>3, <2>5 DEF Latest
  <2>. QED BY <1>3, <2>2, <2>3, <2>4, <2>8, <2>9 DEF IInv
<1>6. CASE copies # {}
  <2>1. wpc' = "copy" /\ performed' = performed
    BY <1>6 DEF WaitFence
  <2>2. TypeOK'
    BY <1>1, <1>3, <2>1 DEF TypeOK, WorkerPhase
  <2>3. Order' /\ Signals' /\ Done'
    BY <1>1, <2>1 DEF Order, InHand, Signals, Done, Finished
  <2>4. ~value.cookie
    BY <1>1, <1>2, <1>6 DEF Fences
  <2>5. Cookies' = Cookies /\ \A p : Due(p)' = Due(p)
    BY <1>1, <1>2, <2>1 DEF Cookies, Due
  <2>6. active_submissions' = active_submissions
    BY <1>1, <2>4 DEF TypeOK
  <2>7. Counted' /\ Latest'
    BY <1>1, <1>3, <2>5, <2>6 DEF Counted, Latest
  <2>. QED BY <1>3, <2>2, <2>3, <2>7 DEF IInv
<1>. QED BY <1>5, <1>6

LEMMA CopyPageSound ==
    ASSUME IInv, NEW p \in Page, CopyPage(p)
    PROVE  IInv'
<1>. DEFINE n == Len(pushed)
            d == Len(performed)
<1>. USE DEF queue, main, feeder, gpu, waiters
<1>1. /\ TypeOK /\ Order /\ Fences /\ Signals /\ Done /\ Counted /\ Latest
      /\ wpc = "copy" /\ p \in copies
      /\ host' = [host EXCEPT ![p] = value.fence]
      /\ pending_writes' = [pending_writes EXCEPT ![p] = @ - 1]
      /\ copies' = copies \ {p}
      /\ UNCHANGED <<queue, main, value, feeder, active_submissions, gpu, waiters, pushed,
                     written>>
  BY DEF IInv, CopyPage
<1>2. /\ n \in Nat /\ d \in Nat /\ InHand = 1 /\ d + 1 \in 1 .. n /\ value = pushed[d + 1]
      /\ value \in Op /\ value.fence \in Nat
  <2>1. n \in Nat /\ d \in Nat /\ InHand = 1 /\ Len(work_queue) \in Nat
    BY <1>1, SetsAreFinite DEF InHand, TypeOK
  <2>2. value \in Op /\ value.fence \in Nat
    BY <1>1, BoundAssumption DEF TypeOK, Op
  <2>. QED BY <1>1, <2>1, <2>2 DEF Order
<1>3. p \in value.pages /\ ~value.cookie
  BY <1>1, <1>2 DEF Done, Fences
<1>4. /\ host' \in [Page -> Nat] /\ pending_writes' \in [Page -> Int]
      /\ host'[p] = value.fence /\ \A q \in Page : q # p => host'[q] = host[q]
      /\ pending_writes'[p] = pending_writes[p] - 1
      /\ \A q \in Page : q # p => pending_writes'[q] = pending_writes[q]
  BY <1>1, <1>2 DEF TypeOK
<1>5. Fences' /\ \A q \in Page : Fed(q)' = Fed(q)
  BY <1>1 DEF Fences, Fed
<1>6. \/ /\ copies = {p} /\ wpc' = "notify" /\ performed' = Append(performed, value)
      \/ /\ copies # {p} /\ wpc' = "copy" /\ performed' = performed
  BY DEF CopyPage
<1>7. \A i : i \in d + 1 .. n <=> i = d + 1 \/ i \in d + 2 .. n
  BY <1>2
<1>8. \A i \in d + 2 .. n : i # d + 1
  BY <1>2
<1>9. \A q \in value.pages \ copies' : q \in Page /\ host'[q] >= value.fence
  <2>1. value.pages \in SUBSET Page
    BY <1>2 DEF Op
  <2>. QED BY <1>1, <1>2, <1>4, <2>1 DEF Done
<1>10. \A i \in 1 .. d : pushed'[i].fence <= gpu_done' /\
                         \A q \in pushed'[i].pages : host'[q] >= pushed'[i].fence
  <2>1. ASSUME NEW i \in 1 .. d, NEW q \in pushed[i].pages
        PROVE  host'[q] >= pushed[i].fence
    <3>1. i \in 1 .. n /\ i < d + 1
      BY <1>2
    <3>2. pushed[i] \in Op
      BY <1>1, <3>1 DEF TypeOK
    <3>3. q \in Page
      BY <3>2 DEF Op
    <3>4. CASE q = p
      BY <1>1, <1>2, <1>3, <1>4, <3>1, <3>4 DEF Fences
    <3>5. CASE q # p
      BY <1>1, <1>4, <3>3, <3>5 DEF Done, Finished
    <3>. QED BY <3>4, <3>5
  <2>. QED BY <1>1, <2>1 DEF Done, Finished
<1>11. /\ d + 1 \in Due(p)
       /\ \A q : Due(q)' = IF q = p THEN Due(q) \ {d + 1} ELSE Due(q)
       /\ Cookies' = Cookies
  <2>1. d + 1 \in Due(p)
    BY <1>1, <1>2, <1>3 DEF Due
  <2>2. CASE copies = {p}
    <3>1. Len(performed') = d + 1 /\ wpc' = "notify"
      BY <1>1, <1>6, <2>2, Performed
    <3>. QED BY <1>1, <1>2, <1>3, <1>7, <1>8, <2>1, <2>2, <3>1 DEF Due, Cookies
  <2>3. CASE copies # {p}
    BY <1>1, <1>2, <1>3, <1>6, <1>7, <1>8, <2>1, <2>3 DEF Due, Cookies
  <2>. QED BY <2>2, <2>3
<1>12. Counted'
  <2>1. /\ \A q : Cardinality(Due(q)) \in Nat
        /\ Cardinality(Due(p) \ {d + 1}) = Cardinality(Due(p)) - 1
    BY <1>1, <1>11, SetsAreFinite, FS_RemoveElement, FS_CardinalityType
  <2>2. pending_writes'[p] = Cardinality(Due(p)') + (IF Fed(p)' THEN 1 ELSE 0)
    <3>1. pending_writes[p] = Cardinality(Due(p)) + (IF Fed(p) THEN 1 ELSE 0)
      BY <1>1 DEF Counted
    <3>2. Due(p)' = Due(p) \ {d + 1} /\ (Fed(p)' <=> Fed(p))
      BY <1>5, <1>11
    <3>3. Cardinality(Due(p)') = Cardinality(Due(p)) - 1
      BY <2>1, <3>2
    <3>. QED BY <1>4, <2>1, <3>1, <3>2, <3>3
  <2>3. \A q \in Page : q # p =>
            pending_writes'[q] = Cardinality(Due(q)') + (IF Fed(q)' THEN 1 ELSE 0)
    BY <1>1, <1>4, <1>5, <1>11 DEF Counted
  <2>. QED BY <1>1, <1>11, <2>2, <2>3 DEF Counted
<1>13. Latest'
  <2>1. \A i \in Due(p) : i >= d + 1
    BY <1>2 DEF Due
  <2>2. ~Fed(p) /\ Due(p)' = {} => host'[p] = written[p]
    <3>1. Due(p)' = {} => Due(p) = {d + 1}
      BY <1>11
    <3>2. ~Fed(p) /\ Due(p) = {d + 1} => pushed[d + 1].fence = written[p]
      BY <1>1, <1>2 DEF Latest
    <3>. QED BY <1>2, <1>4, <3>1, <3>2
  <2>3. ASSUME ~Fed(p), NEW i \in Due(p)', \A j \in Due(p)' : j <= i
        PROVE  pushed[i].fence = written[p]
    <3>1. i \in Due(p) /\ \A j \in Due(p) : j <= i
      BY <1>11, <2>1, <2>3
    <3>. QED BY <1>1, <2>3, <3>1 DEF Latest
  <2>4. \A q \in Page : q # p =>
            /\ ~Fed(q) /\ Due(q)' = {} => host'[q] = written[q]
            /\ ~Fed(q) => \A i \in Due(q)' :
                   (\A j \in Due(q)' : j <= i) => pushed[i].fence = written[q]
    BY <1>1, <1>4, <1>11 DEF Latest
  <2>5. \A q \in Page : Fed(q) => written[q] = fence
    BY <1>1 DEF Latest
  <2>. QED BY <1>1, <1>5, <2>2, <2>3, <2>4, <2>5 DEF Latest
<1>14. CASE copies = {p}
  <2>1. /\ performed' \in Seq(Op) /\ Len(performed') = d + 1 /\ Order' /\ Signals'
        /\ wpc' = "notify"
    BY <1>1, <1>6, <1>14, Performed
  <2>2. TypeOK'
    BY <1>1, <1>4, <2>1 DEF TypeOK, WorkerPhase
  <2>3. Done'
    <3>1. \A i \in 1 .. d + 1 : i \in 1 .. d \/ i = d + 1
      BY <1>2
    <3>2. copies' = {} /\ value.fence <= gpu_done
      BY <1>1, <1>14 DEF Done
    <3>3. value.fence <= gpu_done /\ \A q \in value.pages : host'[q] >= value.fence
      BY <1>9, <3>2
    <3>. QED BY <1>1, <1>2, <1>10, <2>1, <3>1, <3>3 DEF Done, Finished
  <2>. QED BY <1>5, <1>12, <1>13, <2>1, <2>2, <2>3 DEF IInv
<1>15. CASE copies # {p}
  <2>1. wpc' = "copy" /\ performed' = performed
    BY <1>6, <1>15
  <2>2. TypeOK'
    BY <1>1, <1>4, <2>1 DEF TypeOK, WorkerPhase
  <2>3. Order' /\ Signals'
    BY <1>1, <2>1 DEF Order, InHand, Signals
  <2>4. Done'
    BY <1>1, <1>9, <1>10, <2>1 DEF Done, Finished
  <2>. QED BY <1>5, <1>12, <1>13, <2>2, <2>3, <2>4 DEF IInv
<1>. QED BY <1>14, <1>15

LEMMA NotifySound ==
    ASSUME IInv, Notify
    PROVE  IInv'
<1>. DEFINE n == Len(pushed)
            d == Len(performed)
<1>. USE DEF queue, feeder, counters, gpu, waiters
<1>1. /\ TypeOK /\ Order /\ Fences /\ Signals /\ Done /\ Counted /\ Latest
      /\ wpc = "notify" /\ wpc' = "poll"
      /\ thread_timeline_value' = IF value.value # 0 THEN value.value ELSE thread_timeline_value
      /\ UNCHANGED <<queue, value, copies, feeder, counters, gpu, waiters, pushed, performed,
                     written, host>>
  BY DEF IInv, Notify
<1>2. /\ n \in Nat /\ d \in 1 .. n /\ value = pushed[d]
      /\ value.value \in Nat /\ thread_timeline_value \in Nat /\ timeline_value \in Nat
  <2>1. n \in Nat /\ d \in Nat /\ InHand = 0 /\ Len(work_queue) \in Nat
    BY <1>1, SetsAreFinite DEF InHand, TypeOK
  <2>2. value.value \in Nat /\ thread_timeline_value \in Nat /\ timeline_value \in Nat
    BY <1>1, BoundAssumption DEF TypeOK, Op
  <2>. QED BY <1>1, <2>1, <2>2 DEF Order
<1>3. \A i \in 1 .. n : pushed[i].value \in Nat
  <2>1. \A i \in 1 .. n : pushed[i] \in Op
    BY <1>1 DEF TypeOK
  <2>. QED BY <2>1, BoundAssumption DEF Op
<1>4. TypeOK'
  <2>1. waiting' \in SUBSET Waiters
    BY <1>1 DEF TypeOK, Notify
  <2>2. wpc' \in WorkerPhase /\ thread_timeline_value' \in Nat
    BY <1>1, <1>2 DEF WorkerPhase
  <2>. QED BY <1>1, <2>1, <2>2 DEF TypeOK
<1>5. Order' /\ Fences' /\ Done'
  BY <1>1 DEF Order, InHand, Fences, Done, Finished
<1>6. Signals'
  <2>1. /\ thread_timeline_value' <= timeline_value
        /\ fpc = "signal" => thread_timeline_value' < timeline_value
    BY <1>1, <1>2 DEF Signals
  <2>2. ASSUME NEW i \in 1 .. n, pushed[i].value # 0, pushed[i].value <= thread_timeline_value'
        PROVE  i <= d
    <3>1. CASE value.value = 0
      BY <1>1, <2>2, <3>1 DEF Signals
    <3>2. CASE value.value # 0 /\ i > d
      <4>1. pushed[d].value < pushed[i].value
        BY <1>1, <1>2, <2>2, <3>2 DEF Signals
      <4>. QED BY <1>1, <1>2, <1>3, <2>2, <3>2, <4>1
    <3>. QED BY <1>2, <3>1, <3>2
  <2>. QED BY <1>1, <2>1, <2>2 DEF Signals
<1>7. Cookies' = Cookies /\ \A p : Due(p)' = Due(p) /\ Fed(p)' = Fed(p)
  BY <1>1 DEF Cookies, Due, Fed
<1>8. Counted' /\ Latest'
  BY <1>1, <1>7 DEF Counted, Latest
<1>. QED BY <1>4, <1>5, <1>6, <1>8 DEF IInv
-----------------------------------------------------------------------------
(* The other steps touch little of this. *)

LEMMA CompleteSound ==
    ASSUME IInv, Complete
    PROVE  IInv'
<1>. USE DEF Complete, queue, main, worker, feeder, counters, waiters
<1>1. TypeOK /\ Order /\ Fences /\ Signals /\ Done /\ Counted /\ Latest
  BY DEF IInv
<1>2. TypeOK'
  BY <1>1 DEF TypeOK
<1>3. Order' /\ Fences' /\ Signals'
  BY <1>1 DEF Order, InHand, Fences, Signals
<1>4. Done'
  <2>1. \A i \in 1 .. Len(performed) : pushed[i].fence \in Nat
    <3>1. \A i \in 1 .. Len(performed) : i \in 1 .. Len(pushed)
      BY <1>1, SetsAreFinite DEF Order, TypeOK
    <3>2. \A i \in 1 .. Len(performed) : pushed[i] \in Op
      BY <1>1, <3>1 DEF TypeOK
    <3>. QED BY <3>2, BoundAssumption DEF Op
  <2>2. value.fence \in Nat /\ gpu_done \in Nat
    BY <1>1, BoundAssumption DEF TypeOK, Op
  <2>. QED BY <1>1, <2>1, <2>2 DEF Done, Finished
<1>5. Cookies' = Cookies /\ \A p : Due(p)' = Due(p) /\ Fed(p)' = Fed(p)
  BY DEF Cookies, Due, Fed
<1>6. Counted' /\ Latest'
  BY <1>1, <1>5 DEF Counted, Latest
<1>. QED BY <1>2, <1>3, <1>4, <1>6 DEF IInv

LEMMA JoinSound ==
    ASSUME IInv, Join
    PROVE  IInv'
<1>. USE DEF Join, queue, main, worker, counters, gpu, waiters
<1>1. TypeOK /\ Order /\ Fences /\ Signals /\ Done /\ Counted /\ Latest
  BY DEF IInv
<1>2. TypeOK'
  BY <1>1 DEF TypeOK, FeederPhase
<1>3. Order' /\ Fences' /\ Signals' /\ Done'
  BY <1>1 DEF Order, InHand, Fences, Signals, Done, Finished
<1>4. Cookies' = Cookies /\ \A p : Due(p)' = Due(p) /\ Fed(p)' = Fed(p)
  BY DEF Cookies, Due, Fed
<1>5. Counted' /\ Latest'
  BY <1>1, <1>4 DEF Counted, Latest
<1>. QED BY <1>2, <1>3, <1>5 DEF IInv

(* A thread falls asleep, wakes up, begins to wait or returns. *)
LEMMA SleepersSound ==
    ASSUME IInv, worker_asleep' \in BOOLEAN, waiting' \in SUBSET Waiters,
           pc' \in [Waiters -> {"idle", "wait"}], index' \in [Waiters -> Nat],
           UNCHANGED <<work_queue, thread_timeline_value, worker, feeder, counters, gpu, pushed,
                       performed, written, host>>
    PROVE  IInv'
<1>. USE DEF worker, feeder, counters, gpu
<1>1. TypeOK /\ Order /\ Fences /\ Signals /\ Done /\ Counted /\ Latest
  BY DEF IInv
<1>2. TypeOK'
  BY <1>1 DEF TypeOK
<1>3. Order' /\ Fences' /\ Signals' /\ Done'
  BY <1>1 DEF Order, InHand, Fences, Signals, Done, Finished
<1>4. Cookies' = Cookies /\ \A p : Due(p)' = Due(p) /\ Fed(p)' = Fed(p)
  BY DEF Cookies, Due, Fed
<1>5. Counted' /\ Latest'
  BY <1>1, <1>4 DEF Counted, Latest
<1>. QED BY <1>2, <1>3, <1>5 DEF IInv

LEMMA Inductive == Spec => []IInv
<1>1. Init => IInv
  BY InitSound
<1>2. IInv /\ [Next]_vars => IInv'
  <2>. SUFFICES ASSUME IInv, [Next]_vars PROVE IInv'
    OBVIOUS
  <2>. USE DEF queue, main, waiters
  <2>1. /\ worker_asleep \in BOOLEAN /\ waiting \in SUBSET Waiters /\ timeline_value \in Nat
        /\ pc \in [Waiters -> {"idle", "wait"}] /\ index \in [Waiters -> Nat]
    BY BoundAssumption DEF IInv, TypeOK
  <2>2. CASE Sleep
    BY <2>1, <2>2, SleepersSound DEF Sleep
  <2>3. CASE Pop \/ WaitFence \/ Notify \/ Complete \/ Join \/ SignalTimeline \/ Destroy
             \/ EnqueueFenceWait \/ EnqueueCopies \/ EnqueueSignal
    BY <2>3, PopSound, WaitFenceSound, NotifySound, CompleteSound, JoinSound,
       SignalTimelineSound, DestroySound, EnqueueFenceWaitSound, EnqueueCopiesSound,
       EnqueueSignalSound
  <2>4. ASSUME NEW p \in Page, CopyPage(p) PROVE IInv'
    BY <2>4, CopyPageSound
  <2>5. ASSUME NEW P \in SUBSET Page, Submit(P) PROVE IInv'
    BY <2>5, SubmitSound
  <2>6. ASSUME NEW w \in Waiters, WaiterStep(w) \/ Spurious(w) PROVE IInv'
    <3>1. CASE WaitBlock(w)
      BY <2>1, <3>1, SleepersSound DEF WaitBlock
    <3>2. CASE WaitReturn(w)
      BY <2>1, <3>2, SleepersSound DEF WaitReturn
    <3>3. CASE Spurious(w)
      BY <2>1, <3>3, SleepersSound DEF Spurious
    <3>. QED BY <2>6, <3>1, <3>2, <3>3 DEF WaiterStep
  <2>7. ASSUME NEW w \in Waiters, CallWait(w) PROVE IInv'
    <3>1. index' \in [Waiters -> Nat] /\ pc' \in [Waiters -> {"idle", "wait"}]
      BY <2>1, <2>7 DEF CallWait
    <3>. QED BY <2>1, <2>7, <3>1, SleepersSound DEF CallWait
  <2>8. CASE UNCHANGED vars
    BY <2>1, <2>8, SleepersSound DEF vars
  <2>. QED
    BY <2>2, <2>3, <2>4, <2>5, <2>6, <2>7, <2>8 DEF Next, WorkerStep, FeederStep, Terminated
<1>. QED BY <1>1, <1>2, PTL DEF Spec
-----------------------------------------------------------------------------
(* Every variable has its type. *)
THEOREM TypeCorrect == Spec => []TypeOK
<1>1. IInv => TypeOK
  BY DEF IInv
<1>. QED BY <1>1, Inductive, PTL

(* A value that wait_for_timeline may return for: every operation that was *)
(* pushed before its signal is finished, the submissions that it covers    *)
(* have completed and their pages are in the memory of the host.           *)
THEOREM TimelineIsSound == Spec => []TimelineSound
<1>1. IInv => TimelineSound
  <2>. SUFFICES ASSUME IInv, NEW i \in 1 .. Len(pushed), pushed[i].value # 0,
                       pushed[i].value <= thread_timeline_value, NEW j \in 1 .. i - 1
                PROVE  j <= Len(performed) /\ Finished(pushed[j])
    BY DEF TimelineSound, Finished
  <2>1. i <= Len(performed) /\ Len(performed) \in Nat
    BY SetsAreFinite DEF IInv, Signals
  <2>2. j \in 1 .. Len(performed)
    BY <2>1
  <2>. QED BY <2>1, <2>2 DEF IInv, Done
<1>. QED BY <1>1, Inductive, PTL

(* The counters that the worker lowers and the renderer reads without a    *)
(* common lock are what they stand for; a page that has no copy under way  *)
(* holds what was written last.                                            *)
THEOREM CountersAreSound == Spec => []CountersSound
<1>1. IInv => CountersSound
  <2>. SUFFICES ASSUME IInv PROVE CountersSound
    OBVIOUS
  <2>1. CountersExact
    BY DEF IInv, Counted, CountersExact, CopiesOf, Cookies, Due, Fed
  <2>2. ASSUME NEW p \in Page, pending_writes[p] = 0 PROVE host[p] = written[p]
    <3>1. IsFiniteSet(Due(p)) /\ Cardinality(Due(p)) \in Nat
      BY SetsAreFinite, FS_CardinalityType DEF IInv
    <3>2. Cardinality(Due(p)) = 0 /\ ~Fed(p)
      BY <2>2, <3>1 DEF IInv, Counted
    <3>3. Due(p) = {}
      BY <3>1, <3>2, FS_EmptySet
    <3>. QED BY <3>2, <3>3 DEF IInv, Latest
  <2>. QED BY <2>1, <2>2 DEF CountersSound, ClearPageIsCurrent
<1>. QED BY <1>1, Inductive, PTL
-----------------------------------------------------------------------------
(* The worker implements the FIFO.  What was pushed tells an operation     *)
(* from the sentinel, which is last, and which the worker does not perform.*)
Followed ==
    /\ fpc \in {"fence", "copy"} => fence > 0
    /\ fpc = "signal" => timeline_value > 0
    /\ \A i \in 1 .. Len(pushed) : IsSentinel(pushed[i]) <=> Closing /\ i = Len(pushed)
    /\ Closing => Len(pushed) > 0
    /\ wpc \in {"wait_fence", "copy"} => ~IsSentinel(value)
    /\ wpc = "exited" => IsSentinel(value)

(* A push is accepted, or closes the queue. *)
LEMMA PushFollowed ==
    ASSUME IInv, Followed, NEW op \in Op, Push(op), ~Closing, IsSentinel(op) <=> Closing',
           UNCHANGED <<wpc, value, copies, performed>>
    PROVE  /\ \A i \in 1 .. Len(pushed') : IsSentinel(pushed'[i]) <=> Closing' /\ i = Len(pushed')
           /\ Len(pushed') > 0
           /\ Accepted' = IF Closing' THEN Accepted ELSE Append(Accepted, op)
<1>. DEFINE n == Len(pushed)
<1>1. /\ n \in Nat /\ Len(pushed') = n + 1 /\ pushed'[n + 1] = op
      /\ \A i \in 1 .. n : pushed'[i] = pushed[i]
  BY Pushed, SetsAreFinite DEF IInv
<1>2. \A i \in 1 .. n + 1 : i \in 1 .. n \/ i = n + 1
  BY <1>1
<1>3. \A i \in 1 .. n : ~IsSentinel(pushed[i]) /\ i # n + 1
  BY <1>1 DEF Followed
<1>4. Accepted = [i \in 1 .. n |-> pushed[i]]
  BY DEF Accepted
<1>5. CASE Closing'
  <2>1. Accepted' = [i \in 1 .. n |-> pushed'[i]]
    <3>1. Accepted' = [i \in 1 .. Len(pushed') - 1 |-> pushed'[i]]
      BY <1>5 DEF Accepted
    <3>2. (n + 1) - 1 = n
      BY <1>1
    <3>. QED BY <1>1, <3>1, <3>2
  <2>2. Accepted' = Accepted
    BY <1>1, <1>4, <2>1
  <2>. QED BY <1>1, <1>2, <1>3, <1>5, <2>2
<1>6. CASE ~Closing'
  <2>1. Accepted' = [i \in 1 .. n + 1 |-> pushed'[i]]
    BY <1>1, <1>6 DEF Accepted
  <2>2. Append(Accepted, op) = [i \in 1 .. n + 1 |-> IF i = n + 1 THEN op ELSE pushed[i]]
    BY <1>1, <1>4
  <2>3. Accepted' = Append(Accepted, op)
    BY <1>1, <1>2, <2>1, <2>2
  <2>. QED BY <1>1, <1>2, <1>3, <1>6, <2>3
<1>. QED BY <1>5, <1>6

(* The caller goes from one method to another. *)
LEMMA PhaseGoes ==
    ASSUME NEW p, Phase = p
    PROVE  [c \in {"feeder"} |-> Phase]' = [[c \in {"feeder"} |-> Phase] EXCEPT !["feeder"] = Phase']
           /\ [c \in {"feeder"} |-> Phase]["feeder"] = p
OBVIOUS

(* What the caller does. *)
LEMMA FeederFollowed ==
    ASSUME IInv, Followed,
           \/ (\E P \in SUBSET Page : Submit(P)) \/ EnqueueFenceWait \/ EnqueueCopies
           \/ SignalTimeline \/ EnqueueSignal \/ Destroy \/ Join
    PROVE  Followed' /\ [Fifo!Next]_(Fifo!vars)
<1>1. /\ fence \in Nat /\ timeline_value \in Nat /\ fence <= MaxSubmits
      /\ timeline_value <= MaxSignals /\ Len(pushed) \in Nat /\ Len(performed) \in Nat
      /\ fpages \in SUBSET Page
  BY BoundAssumption DEF IInv, TypeOK
<1>2. ASSUME NEW P \in SUBSET Page, Submit(P) PROVE Followed' /\ [Fifo!Next]_(Fifo!vars)
  <2>1. /\ fpc = "idle" /\ fpc' = "fence" /\ fence' = fence + 1
        /\ UNCHANGED <<pushed, performed, wpc, value, timeline_value>>
    BY <1>2 DEF Submit, worker
  <2>2. Followed'
    BY <1>1, <2>1 DEF Followed, Closing
  <2>3. Accepted' = Accepted /\ Phase = "idle" /\ Phase' = "put"
    BY <2>1 DEF Accepted, Closing, Phase
  <2>4. Fifo!Call("feeder")
    BY <2>1, <2>3, PhaseGoes DEF Fifo!Call, Fifo!Goto
  <2>. QED BY <2>2, <2>4 DEF Fifo!Next
<1>3. ASSUME NEW op \in Op, Push(op), fpc \in {"fence", "copy", "signal"},
             fpc' = "idle" \/ (fpc = "fence" /\ fpc' = "copy"), ~IsSentinel(op),
             UNCHANGED <<wpc, value, copies, performed, fence, timeline_value>>
      PROVE  Followed' /\ [Fifo!Next]_(Fifo!vars)
  <2>1. ~Closing /\ ~Closing'
    BY <1>3 DEF Closing
  <2>2. /\ \A i \in 1 .. Len(pushed') : IsSentinel(pushed'[i]) <=> Closing' /\ i = Len(pushed')
        /\ Accepted' = Append(Accepted, op)
    BY <1>3, <2>1, PushFollowed
  <2>3. Followed'
    BY <1>3, <2>1, <2>2 DEF Followed
  <2>4. Phase = "put" /\ Phase' \in {"idle", "put"}
    BY <1>3 DEF Phase
  <2>5. Fifo!Put("feeder")
    BY <1>3, <2>2, <2>4, PhaseGoes DEF Fifo!Put, Fifo!Goto
  <2>. QED BY <2>3, <2>5 DEF Fifo!Next
<1>4. CASE EnqueueFenceWait
  <2>1. FenceOp(fence) \in Op /\ ~IsSentinel(FenceOp(fence))
    BY <1>1, <1>4, BoundAssumption DEF EnqueueFenceWait, Followed, FenceOp, IsSentinel, Op
  <2>. QED BY <1>3, <1>4, <2>1 DEF EnqueueFenceWait, worker, gpu
<1>5. CASE EnqueueCopies
  <2>1. CopyOp(fence, fpages) \in Op /\ ~IsSentinel(CopyOp(fence, fpages))
    BY <1>1, <1>5, BoundAssumption DEF EnqueueCopies, Followed, CopyOp, IsSentinel, Op
  <2>. QED BY <1>3, <1>5, <2>1 DEF EnqueueCopies, worker, gpu
<1>6. CASE SignalTimeline
  <2>1. /\ fpc = "idle" /\ fpc' = "signal" /\ timeline_value' = timeline_value + 1
        /\ UNCHANGED <<pushed, performed, wpc, value, fence>>
    BY <1>6 DEF SignalTimeline, worker, gpu
  <2>2. Followed'
    BY <1>1, <2>1 DEF Followed, Closing
  <2>3. Accepted' = Accepted /\ Phase = "idle" /\ Phase' = "put"
    BY <2>1 DEF Accepted, Closing, Phase
  <2>4. Fifo!Call("feeder")
    BY <2>1, <2>3, PhaseGoes DEF Fifo!Call, Fifo!Goto
  <2>. QED BY <2>2, <2>4 DEF Fifo!Next
<1>7. CASE EnqueueSignal
  <2>1. SignalOp(timeline_value) \in Op /\ ~IsSentinel(SignalOp(timeline_value))
    BY <1>1, <1>7, BoundAssumption DEF EnqueueSignal, Followed, SignalOp, IsSentinel, Op
  <2>. QED BY <1>3, <1>7, <2>1 DEF EnqueueSignal, worker, gpu
<1>8. CASE Destroy
  <2>1. /\ fpc = "idle" /\ fpc' = "join" /\ Push(Default)
        /\ UNCHANGED <<performed, wpc, value, copies, fence, timeline_value>>
    BY <1>8 DEF Destroy, worker, gpu
  <2>2. ~Closing /\ Closing' /\ Default \in Op /\ IsSentinel(Default)
    BY <2>1, BoundAssumption DEF Closing, Default, IsSentinel, Op
  <2>3. /\ \A i \in 1 .. Len(pushed') : IsSentinel(pushed'[i]) <=> Closing' /\ i = Len(pushed')
        /\ Len(pushed') > 0 /\ Accepted' = Accepted
    BY <2>1, <2>2, PushFollowed
  <2>4. Followed'
    BY <2>1, <2>3 DEF Followed
  <2>5. Phase = "idle" /\ Phase' = "close"
    BY <2>1 DEF Phase
  <2>6. Fifo!Call("feeder")
    BY <2>1, <2>3, <2>5, PhaseGoes DEF Fifo!Call, Fifo!Goto
  <2>. QED BY <2>4, <2>6 DEF Fifo!Next
<1>9. CASE Join
  <2>1. /\ fpc = "join" /\ fpc' = "dead" /\ wpc = "exited"
        /\ UNCHANGED <<pushed, performed, wpc, value, fence, timeline_value>>
    BY <1>9 DEF Join, worker, gpu
  <2>2. Followed'
    BY <2>1 DEF Followed, Closing
  <2>3. Accepted' = Accepted /\ Phase = "close" /\ Phase' = "dead"
    BY <2>1 DEF Accepted, Closing, Phase
  <2>4. Fifo!AllExecuted
    <3>1. /\ Len(pushed) = Len(performed) + 1 + Len(work_queue) /\ Len(work_queue) \in Nat
          /\ value = pushed[Len(performed) + 1]
      BY <2>1 DEF IInv, TypeOK, Order, InHand
    <3>2. Len(performed) + 1 \in 1 .. Len(pushed) /\ IsSentinel(pushed[Len(performed) + 1])
      BY <1>1, <2>1, <3>1 DEF Followed
    <3>3. Closing /\ Len(performed) + 1 = Len(pushed)
      BY <3>2 DEF Followed
    <3>4. Len(Accepted) = Len(pushed) - 1
      BY <1>1, <3>3 DEF Accepted
    <3>. QED BY <1>1, <3>3, <3>4 DEF Fifo!AllExecuted
  <2>5. Fifo!Closed("feeder")
    BY <2>1, <2>3, <2>4, PhaseGoes DEF Fifo!Closed, Fifo!Goto
  <2>. QED BY <2>2, <2>5 DEF Fifo!Next
<1>. QED BY <1>2, <1>4, <1>5, <1>6, <1>7, <1>8, <1>9

(* An operation is performed, or nothing happens. *)
LEMMA WorkerFollowed ==
    ASSUME IInv, Followed, UNCHANGED <<pushed, fpc, fence, timeline_value>>,
           \/ /\ performed' = performed
              /\ \/ wpc = "poll" /\ Pop
                 \/ wpc' \notin {"wait_fence", "copy", "exited"}
                 \/ {wpc, wpc'} \subseteq {"wait_fence", "copy"} /\ value' = value
                 \/ wpc' = wpc /\ value' = value
           \/ /\ performed' = Append(performed, value)
              /\ wpc \in {"wait_fence", "copy"} /\ wpc' = "notify"
    PROVE  Followed' /\ [Fifo!Next]_(Fifo!vars)
<1>1. Accepted' = Accepted /\ Phase' = Phase
  BY DEF Accepted, Closing, Phase
<1>2. CASE performed' = performed
  <2>1. UNCHANGED Fifo!vars
    BY <1>1, <1>2 DEF Fifo!vars
  <2>2. CASE wpc = "poll" /\ Pop
    <3>1. wpc' = IF IsSentinel(value') THEN "exited" ELSE "wait_fence"
      BY <2>2 DEF Pop
    <3>. QED BY <2>1, <3>1 DEF Followed, Closing
  <2>3. CASE ~(wpc = "poll" /\ Pop)
    <3>1. /\ wpc' \in {"wait_fence", "copy"} => ~IsSentinel(value')
          /\ wpc' = "exited" => IsSentinel(value')
      BY <1>2, <2>3 DEF Followed
    <3>. QED BY <2>1, <3>1 DEF Followed, Closing
  <2>. QED BY <2>2, <2>3
<1>3. CASE /\ performed' = Append(performed, value)
           /\ wpc \in {"wait_fence", "copy"} /\ wpc' = "notify"
  <2>1. Followed'
    BY <1>3 DEF Followed, Closing
  <2>2. /\ Len(pushed) = Len(performed) + 1 + Len(work_queue) /\ value = pushed[Len(performed) + 1]
        /\ Len(work_queue) \in Nat /\ Len(performed) \in Nat /\ Len(pushed) \in Nat
    BY <1>3 DEF IInv, TypeOK, Order, InHand
  <2>3. Len(performed) + 1 \in 1 .. Len(pushed) /\ ~IsSentinel(pushed[Len(performed) + 1])
    BY <1>3, <2>2 DEF Followed
  <2>4. ~(Closing /\ Len(performed) + 1 = Len(pushed))
    BY <2>3 DEF Followed
  <2>5. Len(Accepted) > Len(performed) /\ Accepted[Len(performed) + 1] = value
    BY <2>2, <2>4 DEF Accepted
  <2>6. Fifo!Execute
    BY <1>1, <1>3, <2>2, <2>5 DEF Fifo!Execute, Fifo!AllExecuted
  <2>. QED BY <2>1, <2>6 DEF Fifo!Next
<1>. QED BY <1>2, <1>3

(* Each step of feeder, worker, GPU and waiters is a step of the FIFO that *)
(* WorkerThread promises, or none: operations are performed one at a time  *)
(* in the order in which they were pushed, and the destructor returns when *)
(* all of them have been.                                                  *)
THEOREM WorkerImplementsFifo == Spec => Fifo!Spec
<1>1. Init => Fifo!Init /\ Followed
  <2>. SUFFICES ASSUME Init PROVE Fifo!Init /\ Followed
    OBVIOUS
  <2>1. Accepted = <<>> /\ Phase = "idle"
    BY DEF Init, Accepted, Closing, Phase
  <2>. QED BY <2>1 DEF Init, Followed, Closing, Fifo!Init
<1>2. ASSUME IInv, Followed, [Next]_vars PROVE Followed' /\ [Fifo!Next]_(Fifo!vars)
  <2>1. CASE FeederStep \/ SignalTimeline \/ Destroy \/ \E P \in SUBSET Page : Submit(P)
    BY <1>2, <2>1, FeederFollowed DEF FeederStep
  <2>2. CASE Pop
    BY <1>2, <2>2, WorkerFollowed DEF Pop, feeder, gpu
  <2>3. CASE Sleep
    BY <1>2, <2>3, WorkerFollowed DEF Sleep, worker, feeder, gpu
  <2>4. CASE WaitFence
    BY <1>2, <2>4, WorkerFollowed DEF WaitFence, feeder, gpu
  <2>5. CASE Notify
    BY <1>2, <2>5, WorkerFollowed DEF Notify, feeder, gpu
  <2>6. ASSUME NEW p \in Page, CopyPage(p) PROVE Followed' /\ [Fifo!Next]_(Fifo!vars)
    BY <1>2, <2>6, WorkerFollowed DEF CopyPage, feeder, gpu
  <2>7. CASE Complete
    BY <1>2, <2>7, WorkerFollowed DEF Complete, worker, feeder
  <2>8. ASSUME NEW w \in Waiters, WaiterStep(w) \/ CallWait(w) \/ Spurious(w)
        PROVE  Followed' /\ [Fifo!Next]_(Fifo!vars)
    BY <1>2, <2>8, WorkerFollowed
       DEF WaiterStep, WaitBlock, WaitReturn, CallWait, Spurious, worker, feeder, gpu
  <2>9. CASE UNCHANGED vars
    BY <1>2, <2>9, WorkerFollowed DEF vars, worker, feeder, gpu
  <2>. QED BY <1>2, <2>1, <2>2, <2>3, <2>4, <2>5, <2>6, <2>7, <2>8, <2>9
           DEF Next, WorkerStep, Terminated
<1>. QED BY <1>1, <1>2, Inductive, PTL DEF Spec, Fifo!Spec
=============================================================================
