--------------------------- MODULE Coherency_proofs ---------------------------
(***************************************************************************)
(* A pass finds what the program last wrote, and the host finds what it    *)
(* last wrote or waited for, for any number of pages, bytes, passes and    *)
(* writes of a careful host, when the RDRAM of the GPU is not mapped.      *)
(*                                                                         *)
(* The state says too little by itself.  The invariant speaks of a ghost,  *)
(* a record of things that the implementation does not keep, and says that *)
(* there is one; each action moves it along.                               *)
(***************************************************************************)
EXTENDS Coherency, TLAPS
-----------------------------------------------------------------------------
(* The ghost: `val[b][n]` is what byte b holds between pass n and the next *)
(* one, as the next writer of it finds it; submission f ends with pass     *)
(* `last[f]`, and pass n is in submission `sub[n]`; the host has the       *)
(* results that the first `here[p]` submissions left in page p, of which   *)
(* `count[p][f]` in the first f ones locked the page, and all of the first *)
(* `done` ones; the GPU has rendered `rendered` passes and has executed    *)
(* `step` commands of the next one; pass n copies the pages `direct[n]`    *)
(* directly and the pages `masked[n]` through the mask.                    *)
Ghost ==
    [val : [Byte -> [Nat -> Int]],
     last : [Nat -> Nat], sub : [Nat -> Nat],
     here : [Page -> Nat], count : [Page -> [Nat -> Nat]], done : Nat,
     rendered : Nat, step : 0 .. 2,
     direct : [Nat -> SUBSET Page], masked : [Nat -> SUBSET Page]]

N == Len(passes)
Touched(P, n) == P[n].reads \union P[n].writes
Dirties(P, n, p) == \E b \in P[n].writes : b[1] = p

\* None of the passes j + 1 .. k writes b.
Alone(P, b, j, k) == \A m \in j + 1 .. k : b \notin P[m].writes
Drawn(P, b) == \E m \in 1 .. Len(P) : b \in P[m].writes

\* Passes that are recorded; that were begun and have sent their pages, or do so.
Recorded == IF rpc = "idle" THEN pass ELSE pass - 1
Resolved == IF rpc = "resolve" THEN pass ELSE Recorded

\* Pages that submission f locks; the last pass whose results in p the host has.
Locked(P, g, f) == {p \in Page : \E n \in g.last[f - 1] + 1 .. g.last[f] : Dirties(P, n, p)}
Upto(g, p) == g.last[g.here[p]]

\* A pass after m up to n, not rendered yet, copies p directly.
Until(g, p, m, n) == \E j \in m + 1 .. n : j > g.rendered /\ p \in g.direct[j]
-----------------------------------------------------------------------------
(* The inductive invariant, in parts. *)

Commands == [op : {"masked", "copy", "render", "end"}, pages : SUBSET Page, n : Nat]

TypeOK ==
    /\ host \in [Byte -> Int] /\ staging \in [Byte -> Int] /\ rdram \in [Byte -> Int]
    /\ mask \in SUBSET Byte
    /\ page_to_direct_copy \in SUBSET Page /\ page_to_masked_copy \in SUBSET Page
    /\ page_to_pending_readback \in SUBSET Page
    /\ pending_writes \in [Page -> Int]
    /\ queue \in Seq([op : {"draw", "signal"}, n : Nat])
    /\ rpc \in {"idle", "flush", "resolve"} /\ pass \in Nat /\ todo \in SUBSET Page
    /\ cmd \in Seq(Commands) /\ stream \in Seq(Commands)
    /\ submits \in Nat /\ gpu_done \in Nat
    /\ staging_readback \in Seq([data : [Byte -> Int], mask : SUBSET Byte])
    /\ ops \in Seq([fence : Nat, pages : SUBSET Page, value : Nat])
    /\ copies \in SUBSET Page /\ timeline \in Nat
    /\ truth \in [Byte -> Int] /\ writes \in Nat
    /\ passes \in Seq([reads : SUBSET Byte, writes : SUBSET Byte, value : Int,
                       expected : UNION {[B -> Int] : B \in SUBSET Byte}])
    /\ \A n \in 1 .. N : DOMAIN passes[n].expected = Touched(passes, n)

\* The ghost values of a byte: the truth at last, and what a writer expected.
Valued(g) ==
    /\ \A b \in Byte : g.val[b][N] = truth[b]
    /\ \A n \in 1 .. N : \A b \in passes[n].writes : g.val[b][n - 1] = passes[n].expected[b]
    /\ \A b \in Byte : \A j, k \in 0 .. N :
           j <= k /\ Alone(passes, b, j, k) => g.val[b][j] = g.val[b][k]

\* What an unfinished pass writes is what the next one finds, and what it reads is left alone.
Remembered(g) ==
    \A n \in 1 .. N : n > timeline =>
        /\ \A b \in passes[n].writes : g.val[b][n] = passes[n].value
        /\ \A b \in passes[n].reads : g.val[b][n - 1] = passes[n].expected[b]

\* Commands are numbered in order, a signal like the draw before it.
Step(c) == IF c.op = "draw" THEN 1 ELSE 0
Queued ==
    /\ pass <= N /\ (rpc # "idle" => pass > 0)
    /\ queue = <<>> => pass = N
    /\ queue # <<>> => queue[1].n = pass + Step(queue[1]) /\ queue[Len(queue)].n = N
    /\ \A i \in 1 .. Len(queue) - 1 : queue[i + 1].n = queue[i].n + Step(queue[i + 1])
    /\ \A i \in 1 .. Len(queue) : queue[i].n <= N

\* Submissions hold passes in order; the GPU and the worker go through them in order.
Submitted(g) ==
    /\ g.last[0] = 0 /\ g.last[submits] <= Recorded
    /\ \A e, f \in 0 .. submits : e < f => g.last[e] < g.last[f]
    /\ \A n \in 1 .. g.last[submits] :
           /\ g.sub[n] \in 1 .. submits
           /\ n \in g.last[g.sub[n] - 1] + 1 .. g.last[g.sub[n]]
    /\ (cmd = <<>>) <=> (g.last[submits] = Recorded)

Rendered(g) ==
    /\ gpu_done <= submits
    /\ g.last[gpu_done] <= g.rendered
    /\ gpu_done < submits => g.rendered <= g.last[gpu_done + 1]
    /\ gpu_done = submits => g.rendered = g.last[submits] /\ g.step = 0
    /\ g.step # 0 => g.rendered < g.last[gpu_done + 1]

Arrived(g) ==
    /\ g.done <= gpu_done /\ (copies # {} => g.done < gpu_done)
    /\ \A p \in Page : g.here[p] = IF copies # {} /\ p \notin copies THEN g.done + 1 ELSE g.done
    /\ timeline <= g.last[g.done]

\* d follows c, when there were s submissions.
Follows(g, s, c, d) ==
    \/ c.op = "masked" /\ d.op = "copy" /\ d.n = c.n
    \/ c.op = "copy" /\ d.op = "render" /\ d.n = c.n
    \/ /\ c.op = "render" /\ d.op = "masked" /\ d.n = c.n + 1
       /\ \A f \in 0 .. s : g.last[f] # c.n
    \/ c.op = "render" /\ d.op = "end" /\ d.n \in 1 .. s /\ g.last[d.n] = c.n
    \/ c.op = "end" /\ d.op = "masked" /\ d.n = g.last[c.n] + 1

\* c is the next command of the GPU, which has finished e submissions.
IsNext(g, e, c) ==
    \/ g.step = 0 /\ c.op = "masked" /\ c.n = g.rendered + 1 /\ c.n <= g.last[e + 1]
    \/ g.step = 1 /\ c.op = "copy" /\ c.n = g.rendered + 1
    \/ g.step = 2 /\ c.op = "render" /\ c.n = g.rendered + 1
    \/ g.step = 0 /\ c.op = "end" /\ c.n = e + 1 /\ g.last[c.n] = g.rendered

Carries(g, c) ==
    /\ c.op = "masked" => c.pages = g.masked[c.n]
    /\ c.op = "copy" => c.pages = g.direct[c.n]

\* The commands that were submitted, up to the end of the last submission.
Streamed(g) ==
    /\ stream = <<>> => gpu_done = submits
    /\ stream # <<>> =>
           /\ IsNext(g, gpu_done, stream[1])
           /\ stream[Len(stream)].op = "end" /\ stream[Len(stream)].n = submits
    /\ \A i \in 1 .. Len(stream) - 1 : Follows(g, submits, stream[i], stream[i + 1])
    /\ \A i \in 1 .. Len(stream) :
           /\ Carries(g, stream[i])
           /\ stream[i].n <= IF stream[i].op = "end" THEN submits ELSE g.last[submits]

\* The commands of the open buffer, after those.
Opened(g) ==
    /\ cmd # <<>> =>
           /\ cmd[1].op = "masked" /\ cmd[1].n = g.last[submits] + 1
           /\ cmd[Len(cmd)].op = "render" /\ cmd[Len(cmd)].n = Recorded
    /\ \A i \in 1 .. Len(cmd) - 1 : Follows(g, submits, cmd[i], cmd[i + 1])
    /\ \A i \in 1 .. Len(cmd) :
           /\ Carries(g, cmd[i]) /\ cmd[i].op # "end"
           /\ g.last[submits] < cmd[i].n /\ cmd[i].n <= Recorded

\* Fences and signals in the queue of the worker.
Fenced(g) ==
    /\ \A i \in 1 .. Len(ops) : ops[i].fence # 0 =>
           /\ ops[i].fence \in g.done + 1 .. submits /\ ops[i].value = 0
           /\ ops[i].pages = Locked(passes, g, ops[i].fence)
    /\ \A i, j \in 1 .. Len(ops) :
           i < j /\ ops[i].fence # 0 /\ ops[j].fence # 0 => ops[i].fence < ops[j].fence
    /\ \A f \in g.done + 1 .. submits : \E i \in 1 .. Len(ops) : ops[i].fence = f
    /\ copies # {} => ops # <<>> /\ ops[1].fence = g.done + 1 /\ copies \subseteq ops[1].pages

Signals(g) ==
    /\ \A i \in 1 .. Len(ops) : ops[i].fence = 0 =>
           /\ ops[i].pages = {} /\ timeline <= ops[i].value /\ ops[i].value <= g.last[submits]
           /\ \A j \in i + 1 .. Len(ops) :
                  ops[i].value <= IF ops[j].fence = 0 THEN ops[j].value
                                                      ELSE g.last[ops[j].fence - 1]

\* A page counts the submissions that locked it and whose results are to come.
Counts(g) ==
    \A p \in Page :
        /\ \A f \in 1 .. submits :
               g.count[p][f] = g.count[p][f - 1] + IF p \in Locked(passes, g, f) THEN 1 ELSE 0
        /\ \A e, f \in 0 .. submits : e <= f =>
               /\ g.count[p][e] <= g.count[p][f]
               /\ (\A x \in e + 1 .. f : p \notin Locked(passes, g, x)) =>
                      g.count[p][e] = g.count[p][f]
Tallied(g) ==
    \A p \in Page : pending_writes[p] = g.count[p][submits] - g.count[p][g.here[p]]

\* Marks of pages.
Marked(g) ==
    /\ page_to_pending_readback =
           {p \in Page : \E n \in g.last[submits] + 1 .. Resolved : Dirties(passes, n, p)}
    /\ rpc = "idle" => page_to_direct_copy = {} /\ page_to_masked_copy = {}
    /\ rpc = "flush" => \A b \in passes[pass].reads :
                            b[1] \in page_to_direct_copy \union page_to_masked_copy
    /\ rpc = "resolve" => /\ g.masked[pass] = page_to_masked_copy
                          /\ g.direct[pass] = page_to_direct_copy \ page_to_masked_copy
    /\ \A n \in g.rendered + 1 .. Resolved : \A b \in Touched(passes, n) :
           b[1] \in g.direct[n] \union g.masked[n]

\* A page is copied directly only if the host has all that earlier passes wrote there.
Safe(g) ==
    /\ \A n \in g.rendered + 1 .. Resolved : \A p \in g.direct[n] : \A m \in 1 .. n - 1 :
           Dirties(passes, m, p) => m <= Upto(g, p)
    /\ \A p \in page_to_direct_copy : \A m \in 1 .. Recorded :
           Dirties(passes, m, p) => m <= Upto(g, p)

HostHas(g) == \A b \in Byte : host[b] = g.val[b][Upto(g, b[1])]

\* What was read back and did not arrive yet: newer than what the host has, and complete.
ReadBack(g) ==
    /\ Len(staging_readback) = gpu_done
    /\ \A f \in 1 .. gpu_done : \A b \in Byte :
           f > g.here[b[1]] /\ b[1] \in Locked(passes, g, f) =>
               /\ b \in staging_readback[f].mask =>
                      /\ staging_readback[f].data[b] = g.val[b][g.last[f]]
                      /\ Drawn(passes, b)
               /\ \A n \in Upto(g, b[1]) + 1 .. g.last[f] :
                      b \in passes[n].writes => b \in staging_readback[f].mask

Masks(g) ==
    /\ \A b \in mask : Drawn(passes, b)
    /\ \A b \in Byte : \A n \in Upto(g, b[1]) + 1 .. g.rendered : b \in passes[n].writes => b \in mask
    /\ g.step = 2 => \A b \in mask : b[1] \notin g.direct[g.rendered + 1]

\* The host has written over a result of the GPU, which does not know.
Stale(g, b) == b \in mask /\ rdram[b] # g.val[b][g.rendered]
Concerns(P, n, b) == Dirties(P, n, b[1]) \/ b \in P[n].reads

(* Then no pass that did not arrive has written to the page, and before    *)
(* one does or reads the byte, the page is copied directly.                *)
Overdue(g) ==
    \A b \in Byte : Stale(g, b) =>
        /\ \A n \in Upto(g, b[1]) + 1 .. g.rendered : ~Dirties(passes, n, b[1])
        /\ \A n \in g.rendered + 1 .. Recorded :
               Concerns(passes, n, b) => Until(g, b[1], g.rendered, n)
        /\ rpc # "idle" /\ Concerns(passes, pass, b) /\ b[1] \in page_to_masked_copy =>
               Until(g, b[1], g.rendered, Recorded)

(* What pass n will find in staging is right, or older than what a pass m  *)
(* writes, and that is not overwritten.                                    *)
Kept(g, b, n) == \E m \in 1 .. n - 1 :
    /\ b \in passes[m].writes /\ (m > g.rendered \/ b \in mask)
    /\ ~Until(g, b[1], m, n)
Staged(g) ==
    \A n \in g.rendered + 1 .. Resolved : \A b \in Touched(passes, n) :
        \/ n = pass /\ rpc = "resolve" /\ b[1] \in todo
        \/ staging[b] = g.val[b][n - 1]
        \/ Kept(g, b, n)

\* The bytes of the pass that the GPU has begun.
Ready(g) ==
    g.step # 0 =>
        \A b \in Touched(passes, g.rendered + 1) :
            g.step = 2 \/ b[1] \notin g.direct[g.rendered + 1] =>
                rdram[b] = g.val[b][g.rendered]

Inductive(g) ==
    /\ Valued(g) /\ Remembered(g) /\ Queued
    /\ Submitted(g) /\ Rendered(g) /\ Arrived(g) /\ Streamed(g) /\ Opened(g)
    /\ Fenced(g) /\ Signals(g) /\ Counts(g) /\ Tallied(g)
    /\ Marked(g) /\ Safe(g) /\ HostHas(g) /\ ReadBack(g)
    /\ Masks(g) /\ Overdue(g) /\ Staged(g) /\ Ready(g)

IInv == TypeOK /\ \E g \in Ghost : Inductive(g)
-----------------------------------------------------------------------------
(* What each part is about: it stays when that does. *)

LEMMA QueuedFrame == ASSUME Queued, UNCHANGED <<queue, passes, pass, rpc>> PROVE Queued'
BY DEF Queued, N, Step

LEMMA ValuedFrame ==
    ASSUME NEW g, NEW h, Valued(g), h.val = g.val,
           UNCHANGED <<passes, truth>>
    PROVE  Valued(h)'
BY DEF Valued, N

LEMMA RememberedFrame ==
    ASSUME NEW g, NEW h, Remembered(g), h.val = g.val,
           UNCHANGED <<passes, timeline>>
    PROVE  Remembered(h)'
BY DEF Remembered, N

LEMMA SubmittedFrame ==
    ASSUME NEW g, NEW h, Submitted(g), h.last = g.last, h.sub = g.sub,
           UNCHANGED <<submits, cmd, Recorded>>
    PROVE  Submitted(h)'
BY DEF Submitted

LEMMA RenderedFrame ==
    ASSUME NEW g, NEW h, Rendered(g), h.last = g.last, h.rendered = g.rendered, h.step = g.step,
           UNCHANGED <<gpu_done, submits>>
    PROVE  Rendered(h)'
BY DEF Rendered

LEMMA ArrivedFrame ==
    ASSUME NEW g, NEW h, Arrived(g), h.last = g.last, h.done = g.done, h.here = g.here,
           UNCHANGED <<gpu_done, copies, timeline>>
    PROVE  Arrived(h)'
BY DEF Arrived

LEMMA StreamedFrame ==
    ASSUME NEW g, NEW h, Streamed(g), h.last = g.last, h.rendered = g.rendered, h.step = g.step,
           h.masked = g.masked, h.direct = g.direct,
           UNCHANGED <<stream, gpu_done, submits>>
    PROVE  Streamed(h)'
BY DEF Streamed, IsNext, Follows, Carries

LEMMA OpenedFrame ==
    ASSUME NEW g, NEW h, Opened(g), h.last = g.last, h.masked = g.masked, h.direct = g.direct,
           UNCHANGED <<cmd, submits, Recorded>>
    PROVE  Opened(h)'
BY DEF Opened, Follows, Carries

LEMMA FencedFrame ==
    ASSUME NEW g, NEW h, Fenced(g), h.last = g.last, h.done = g.done,
           UNCHANGED <<ops, submits, passes, copies>>
    PROVE  Fenced(h)'
BY DEF Fenced, Locked, Dirties

LEMMA SignalsFrame ==
    ASSUME NEW g, NEW h, Signals(g), h.last = g.last,
           UNCHANGED <<ops, submits, timeline>>
    PROVE  Signals(h)'
BY DEF Signals

LEMMA CountsFrame ==
    ASSUME NEW g, NEW h, Counts(g), h.last = g.last, h.count = g.count,
           UNCHANGED <<passes, submits>>
    PROVE  Counts(h)'
BY DEF Counts, Locked, Dirties

LEMMA TalliedFrame ==
    ASSUME NEW g, NEW h, Tallied(g), h.count = g.count, h.here = g.here,
           UNCHANGED <<submits, pending_writes>>
    PROVE  Tallied(h)'
BY DEF Tallied

LEMMA MarkedFrame ==
    ASSUME NEW g, NEW h, Marked(g), h.last = g.last, h.masked = g.masked, h.direct = g.direct,
           h.rendered = g.rendered,
           UNCHANGED <<submits, rpc, pass, passes, page_to_direct_copy, page_to_masked_copy,
                       page_to_pending_readback>>
    PROVE  Marked(h)'
BY DEF Marked, Recorded, Resolved, Touched, Dirties

LEMMA SafeFrame ==
    ASSUME NEW g, NEW h, Safe(g), h.last = g.last, h.here = g.here, h.direct = g.direct,
           h.rendered = g.rendered,
           UNCHANGED <<passes, Recorded, Resolved, page_to_direct_copy>>
    PROVE  Safe(h)'
BY DEF Safe, Upto, Dirties

LEMMA HostHasFrame ==
    ASSUME NEW g, NEW h, HostHas(g), h.val = g.val, h.last = g.last, h.here = g.here,
           UNCHANGED <<host>>
    PROVE  HostHas(h)'
BY DEF HostHas, Upto

LEMMA ReadBackFrame ==
    ASSUME NEW g, NEW h, ReadBack(g), h.val = g.val, h.last = g.last, h.here = g.here,
           UNCHANGED <<passes, gpu_done, staging_readback>>
    PROVE  ReadBack(h)'
BY DEF ReadBack, Upto, Locked, Dirties, Drawn

LEMMA MasksFrame ==
    ASSUME NEW g, NEW h, Masks(g), h.last = g.last, h.here = g.here, h.rendered = g.rendered,
           h.step = g.step, h.direct = g.direct,
           UNCHANGED <<mask, passes>>
    PROVE  Masks(h)'
BY DEF Masks, Upto, Drawn

LEMMA OverdueFrame ==
    ASSUME NEW g, NEW h, Overdue(g), h.val = g.val, h.last = g.last, h.here = g.here,
           h.rendered = g.rendered, h.direct = g.direct,
           UNCHANGED <<mask, rdram, passes, rpc, pass, page_to_masked_copy>>
    PROVE  Overdue(h)'
BY DEF Overdue, Upto, Stale, Recorded, Until, Concerns, Dirties

LEMMA StagedFrame ==
    ASSUME NEW g, NEW h, Staged(g), h.val = g.val, h.rendered = g.rendered, h.direct = g.direct,
           UNCHANGED <<staging, mask, passes, rpc, pass, todo>>
    PROVE  Staged(h)'
BY DEF Staged, Recorded, Resolved, Touched, Kept, Until

LEMMA ReadyFrame ==
    ASSUME NEW g, NEW h, Ready(g), h.val = g.val, h.rendered = g.rendered, h.step = g.step,
           h.direct = g.direct,
           UNCHANGED <<rdram, passes>>
    PROVE  Ready(h)'
BY DEF Ready, Touched
-----------------------------------------------------------------------------
LEMMA ByteHasPage ==
    /\ \A b \in Byte : b[1] \in Page
    /\ \A P \in SUBSET Page : \A b \in Byte : b \in Bytes(P) <=> b[1] \in P
    /\ \A P \in SUBSET Page : Bytes(P) \in SUBSET Byte
BY DEF Byte, Bytes

\* How far everything has come.
Ordered(g) ==
    /\ N \in Nat /\ Recorded \in Nat /\ Resolved \in Nat
    /\ Recorded <= Resolved /\ Resolved <= N
    /\ submits \in Nat /\ gpu_done \in 0 .. submits /\ g.done \in 0 .. gpu_done
    /\ \A f \in Nat : g.last[f] \in Nat
    /\ \A e, f \in 0 .. submits : e <= f => g.last[e] <= g.last[f]
    /\ g.last[gpu_done] <= g.rendered /\ g.rendered <= g.last[submits]
    /\ g.rendered \in Nat /\ g.last[submits] <= Recorded
    /\ g.step # 0 => g.rendered + 1 <= g.last[gpu_done + 1] /\ g.rendered + 1 <= g.last[submits]
    /\ timeline \in Nat /\ timeline <= g.last[g.done]
    /\ \A p \in Page : g.here[p] \in g.done .. gpu_done
    /\ \A p \in Page : /\ Upto(g, p) \in Nat /\ timeline <= Upto(g, p)
                       /\ Upto(g, p) <= g.last[gpu_done]

LEMMA HowFar == ASSUME TypeOK, NEW g \in Ghost, Inductive(g) PROVE Ordered(g)
<1>1. N \in Nat /\ pass \in Nat /\ submits \in Nat /\ gpu_done \in Nat /\ timeline \in Nat
  BY DEF TypeOK, N
<1>2. /\ g.last \in [Nat -> Nat] /\ g.here \in [Page -> Nat] /\ g.done \in Nat /\ g.rendered \in Nat
  BY DEF Ghost
<1>3. /\ Recorded \in Nat /\ Resolved \in Nat /\ Recorded <= Resolved /\ Resolved <= N
  BY <1>1 DEF Inductive, Queued, Recorded, Resolved
<1>4. \A e, f \in 0 .. submits : e <= f => g.last[e] <= g.last[f]
  <2>. SUFFICES ASSUME NEW e \in 0 .. submits, NEW f \in 0 .. submits, e <= f PROVE g.last[e] <= g.last[f]
    OBVIOUS
  <2>1. e < f => g.last[e] < g.last[f]
    BY DEF Inductive, Submitted
  <2>2. g.last[e] \in Nat /\ g.last[f] \in Nat /\ (e < f \/ e = f)
    BY <1>1, <1>2
  <2>. QED BY <2>1, <2>2
<1>5. /\ gpu_done \in 0 .. submits /\ g.done \in 0 .. gpu_done /\ timeline <= g.last[g.done]
      /\ g.last[gpu_done] <= g.rendered /\ g.last[submits] <= Recorded
  <2>1. gpu_done <= submits /\ g.done <= gpu_done
    BY DEF Inductive, Rendered, Arrived
  <2>2. timeline <= g.last[g.done] /\ g.last[gpu_done] <= g.rendered /\ g.last[submits] <= Recorded
    BY DEF Inductive, Rendered, Arrived, Submitted
  <2>. QED BY <1>1, <1>2, <2>1, <2>2
<1>6. g.rendered <= g.last[submits]
  <2>1. CASE gpu_done = submits
    BY <1>1, <1>2, <2>1 DEF Inductive, Rendered
  <2>2. CASE gpu_done # submits
    <3>1. g.rendered <= g.last[gpu_done + 1]
      BY <1>1, <1>5, <2>2 DEF Inductive, Rendered
    <3>2. gpu_done + 1 \in 0 .. submits /\ submits \in 0 .. submits
      BY <1>1, <1>5, <2>2
    <3>3. g.last[gpu_done + 1] <= g.last[submits]
      BY <1>4, <3>2
    <3>. QED BY <1>1, <1>2, <3>1, <3>2, <3>3
  <2>. QED BY <2>1, <2>2
<1>7. \A p \in Page : g.here[p] \in g.done .. gpu_done
  BY <1>1, <1>2, <1>5 DEF Inductive, Arrived
<1>8. \A p \in Page : Upto(g, p) \in Nat /\ timeline <= Upto(g, p) /\ Upto(g, p) <= g.last[gpu_done]
  <2>. SUFFICES ASSUME NEW p \in Page
                PROVE  Upto(g, p) \in Nat /\ timeline <= Upto(g, p) /\ Upto(g, p) <= g.last[gpu_done]
    OBVIOUS
  <2>1. /\ g.here[p] \in Nat /\ g.done <= g.here[p] /\ g.here[p] <= gpu_done /\ gpu_done <= submits
    BY <1>1, <1>2, <1>5, <1>7
  <2>2. g.last[g.done] <= g.last[g.here[p]] /\ g.last[g.here[p]] <= g.last[gpu_done]
    BY <1>1, <1>2, <1>4, <1>5, <2>1
  <2>3. g.last[g.done] \in Nat /\ g.last[g.here[p]] \in Nat
    BY <1>2, <2>1
  <2>. QED BY <1>1, <1>5, <2>2, <2>3 DEF Upto
<1>9. ASSUME g.step # 0
      PROVE  g.rendered + 1 <= g.last[gpu_done + 1] /\ g.rendered + 1 <= g.last[submits]
  <2>1. gpu_done # submits /\ g.rendered < g.last[gpu_done + 1]
    BY <1>9 DEF Inductive, Rendered
  <2>2. gpu_done + 1 \in 0 .. submits /\ submits \in 0 .. submits
    BY <1>1, <1>5, <2>1
  <2>3. g.last[gpu_done + 1] <= g.last[submits]
    BY <1>4, <2>2
  <2>. QED BY <1>1, <1>2, <2>1, <2>2, <2>3
<1>. QED BY <1>1, <1>2, <1>3, <1>4, <1>5, <1>6, <1>7, <1>8, <1>9 DEF Ordered

LEMMA InOrder ==
    ASSUME NEW g, Ordered(g)
    PROVE  /\ submits \in Nat /\ gpu_done \in Nat /\ g.done \in Nat /\ timeline \in Nat
           /\ g.done <= gpu_done /\ gpu_done <= submits /\ g.done <= submits
           /\ g.last[g.done] \in Nat /\ g.last[gpu_done] \in Nat /\ g.last[submits] \in Nat
           /\ g.last[g.done] <= g.last[gpu_done] /\ g.last[gpu_done] <= g.last[submits]
           /\ timeline <= g.last[g.done] /\ timeline <= g.last[submits]
<1>1. submits \in Nat /\ gpu_done \in 0 .. submits /\ g.done \in 0 .. gpu_done /\ timeline \in Nat
  BY DEF Ordered
<1>2. /\ submits \in 0 .. submits /\ gpu_done \in 0 .. submits /\ g.done \in 0 .. submits
      /\ submits \in Nat /\ gpu_done \in Nat /\ g.done \in Nat
      /\ g.done <= gpu_done /\ gpu_done <= submits
  BY <1>1
<1>3. \A e, f \in 0 .. submits : e <= f => g.last[e] <= g.last[f]
  BY DEF Ordered
<1>4. \A f \in Nat : g.last[f] \in Nat
  BY DEF Ordered
<1>5. timeline <= g.last[g.done]
  BY DEF Ordered
<1>6. /\ g.last[g.done] \in Nat /\ g.last[gpu_done] \in Nat /\ g.last[submits] \in Nat
      /\ g.last[g.done] <= g.last[gpu_done] /\ g.last[gpu_done] <= g.last[submits]
  BY <1>2, <1>3, <1>4
<1>. QED BY <1>1, <1>2, <1>5, <1>6
-----------------------------------------------------------------------------
(* Types. *)

LEMMA OverlayType ==
    ASSUME NEW a \in [Byte -> Int], NEW c \in [Byte -> Int], NEW B PROVE Overlay(a, B, c) \in [Byte -> Int]
BY DEF Overlay

LEMMA PassType ==
    ASSUME TypeOK
    PROVE  \A n \in 1 .. N :
               /\ passes[n].reads \in SUBSET Byte /\ passes[n].writes \in SUBSET Byte
               /\ Touched(passes, n) \in SUBSET Byte /\ passes[n].value \in Int
<1>. DEFINE Pass == [reads : SUBSET Byte, writes : SUBSET Byte, value : Int,
                     expected : UNION {[B -> Int] : B \in SUBSET Byte}]
<1>1. passes \in Seq(Pass)
  BY DEF TypeOK
<1>. HIDE DEF Pass
<1>2. \A n \in 1 .. N : passes[n] \in Pass
  BY <1>1 DEF N
<1>. QED BY <1>2 DEF Pass, Touched

LEMMA TypeInit == ASSUME Init PROVE TypeOK
BY DEF Init, TypeOK, Zero, Loaded, N

LEMMA TypeSteps ==
    ASSUME ~Mapped, TypeOK, NEW g \in Ghost, Inductive(g), Next PROVE TypeOK'
<1>. DEFINE Op == [fence : Nat, pages : SUBSET Page, value : Nat]
            Pass == [reads : SUBSET Byte, writes : SUBSET Byte, value : Int,
                     expected : UNION {[B -> Int] : B \in SUBSET Byte}]
            Read == [data : [Byte -> Int], mask : SUBSET Byte]
            Request == [op : {"draw", "signal"}, n : Nat]
<1>1. /\ host \in [Byte -> Int] /\ staging \in [Byte -> Int] /\ rdram \in [Byte -> Int]
      /\ mask \in SUBSET Byte /\ truth \in [Byte -> Int]
      /\ N \in Nat /\ writes \in Nat /\ submits \in Nat /\ pass \in Nat
  BY DEF TypeOK, N
<1>2. /\ ops \in Seq(Op) /\ passes \in Seq(Pass) /\ staging_readback \in Seq(Read)
      /\ queue \in Seq(Request) /\ cmd \in Seq(Commands) /\ stream \in Seq(Commands)
  BY DEF TypeOK
<1>. HIDE DEF Op, Pass, Read, Request
<1>3. ASSUME NEW b \in Byte, HostWrite(b) PROVE TypeOK'
  <2>1. Fresh \in Int
    BY <1>1 DEF Fresh, N
  <2>2. host' \in [Byte -> Int] /\ truth' \in [Byte -> Int] /\ writes' \in Nat
    BY <1>1, <1>3, <2>1 DEF HostWrite
  <2>. QED BY <1>3, <2>2 DEF HostWrite, TypeOK, marks, renderer, gpu, worker, N, Touched
<1>4. ASSUME NEW R \in Texture, NEW W \in Framebuffer, Enqueue(R, W) PROVE TypeOK'
  <2>1. Fresh \in Int /\ R \in SUBSET Byte /\ W \in SUBSET Byte
    BY <1>1 DEF Fresh, N, Texture, Framebuffer
  <2>. PICK e : e = [b \in R \union W |-> truth[b]]
    OBVIOUS
  <2>. PICK r : r = [reads |-> R, writes |-> W, value |-> Fresh, expected |-> e]
    OBVIOUS
  <2>2. e \in [R \union W -> Int] /\ R \union W \in SUBSET Byte /\ DOMAIN e = R \union W
    BY <1>1, <2>1
  <2>3. e \in UNION {[B -> Int] : B \in SUBSET Byte}
    BY <2>2
  <2>4. r \in Pass
    BY <2>1, <2>3 DEF Pass
  <2>5. passes' = Append(passes, r) /\ queue' = Append(queue, [op |-> "draw", n |-> N + 1])
    BY <1>4 DEF Enqueue, N
  <2>6. passes' \in Seq(Pass) /\ Len(passes') = N + 1
    BY <1>2, <2>4, <2>5 DEF N
  <2>7. \A n \in 1 .. N + 1 : passes'[n] = IF n = N + 1 THEN r ELSE passes[n]
    BY <1>2, <2>5 DEF N
  <2>8. \A n \in 1 .. N + 1 : DOMAIN passes'[n].expected = Touched(passes', n)
    <3>1. DOMAIN r.expected = r.reads \union r.writes
      BY <2>2
    <3>2. \A n \in 1 .. N : DOMAIN passes[n].expected = Touched(passes, n)
      BY DEF TypeOK
    <3>3. \A n \in 1 .. N + 1 : n = N + 1 \/ n \in 1 .. N
      BY <1>1
    <3>. QED BY <2>7, <3>1, <3>2, <3>3 DEF Touched
  <2>9. [op |-> "draw", n |-> N + 1] \in Request
    BY <1>1 DEF Request
  <2>10. queue' \in Seq(Request)
    BY <1>2, <2>5, <2>9
  <2>11. truth' \in [Byte -> Int]
    BY <1>1, <1>4, <2>1 DEF Enqueue
  <2>. QED BY <1>4, <2>6, <2>8, <2>10, <2>11
           DEF Enqueue, TypeOK, memory, marks, renderer, gpu, worker, N, Pass, Request
<1>5. CASE Signal
  <2>1. [op |-> "signal", n |-> N] \in Request
    BY <1>1 DEF Request
  <2>2. queue' \in Seq(Request)
    BY <1>2, <1>5, <2>1 DEF Signal, N
  <2>. QED BY <1>5, <2>2
           DEF Signal, TypeOK, memory, marks, renderer, gpu, worker, history, N, Touched, Request
<1>6. \A B \in SUBSET Byte : Pages(B) \in SUBSET Page
  BY ByteHasPage DEF Pages
<1>7. \A n \in 1 .. N : passes[n].reads \in SUBSET Byte /\ passes[n].writes \in SUBSET Byte
                      /\ passes[n].value \in Int
  BY PassType
<1>8. CASE LoadTile
  <2>1. queue # <<>> /\ queue' = Tail(queue) /\ pass' = Head(queue).n /\ Head(queue) = queue[1]
        /\ 1 \in 1 .. Len(queue)
    BY <1>2, <1>8 DEF LoadTile
  <2>2. queue[1] \in Request /\ queue[1].n <= N /\ queue[1].n = pass + 1
    BY <1>2, <1>8, <2>1 DEF Inductive, Queued, Step, LoadTile
  <2>3. queue' \in Seq(Request) /\ pass' \in Nat /\ pass' \in 1 .. N
    BY <1>1, <1>2, <2>1, <2>2
  <2>4. Pages(passes[pass'].reads) \in SUBSET Page
    BY <1>6, <1>7, <2>3
  <2>5. page_to_direct_copy' \in SUBSET Page /\ page_to_masked_copy' \in SUBSET Page
    BY <1>8, <2>4 DEF LoadTile, Mark, TypeOK
  <2>. QED BY <1>8, <2>3, <2>5
           DEF LoadTile, TypeOK, memory, worker, gpu, history, N, Touched, Request
<1>9. CASE Lock
  <2>1. pass \in 1 .. N
    BY <1>1, <1>9 DEF Lock, Inductive, Queued
  <2>2. Pages(passes[pass].writes) \in SUBSET Page
    BY <1>6, <1>7, <2>1
  <2>3. /\ page_to_direct_copy' \in SUBSET Page /\ page_to_masked_copy' \in SUBSET Page
        /\ page_to_pending_readback' \in SUBSET Page
    BY <1>9, <2>2 DEF Lock, Mark, TypeOK
  <2>4. todo' \in SUBSET Page
    BY <1>9, <2>3 DEF Lock
  <2>. QED BY <1>9, <2>3, <2>4
           DEF Lock, TypeOK, memory, worker, gpu, history, N, Touched, Request
<1>10. ASSUME NEW p \in Page, ResolvePage(p) PROVE TypeOK'
  <2>1. staging' \in [Byte -> Int] /\ UNCHANGED <<rdram, mask>> /\ todo' = todo \ {p}
    BY <1>1, <1>10, OverlayType DEF ResolvePage
  <2>. QED BY <1>10, <2>1 DEF ResolvePage, TypeOK, marks, gpu, worker, history, N, Touched
<1>11. CASE Record
  <2>. DEFINE added == <<[op |-> "masked", pages |-> page_to_masked_copy, n |-> pass],
                         [op |-> "copy", n |-> pass,
                          pages |-> page_to_direct_copy \ page_to_masked_copy],
                         [op |-> "render", pages |-> {}, n |-> pass]>>
  <2>1. added \in Seq(Commands)
    BY <1>1 DEF TypeOK, Commands
  <2>2. cmd' = cmd \o added
    BY <1>11 DEF Record
  <2>. HIDE DEF added
  <2>3. cmd' \in Seq(Commands)
    BY <1>2, <2>1, <2>2
  <2>. QED BY <1>11, <2>3
           DEF Record, TypeOK, memory, gpu, worker, history, N, Touched
<1>12. ASSUME NEW s \in Seq(Op), Submit(s)
       PROVE  /\ pending_writes' \in [Page -> Int] /\ page_to_pending_readback' \in SUBSET Page
              /\ stream' \in Seq(Commands) /\ ops' \in Seq(Op) /\ submits' \in Nat
              /\ cmd' \in Seq(Commands)
  <2>. PICK e : e = [op |-> "end", pages |-> page_to_pending_readback, n |-> submits + 1]
    OBVIOUS
  <2>. PICK o : o = [fence |-> submits + 1, pages |-> page_to_pending_readback, value |-> 0]
    OBVIOUS
  <2>1. e \in Commands /\ o \in Op
    BY <1>1 DEF TypeOK, Commands, Op
  <2>2. stream' = stream \o cmd \o <<e>> /\ ops' = ops \o <<o>> \o s /\ submits' = submits + 1
        /\ cmd' = <<>> /\ page_to_pending_readback' = {}
    BY <1>12 DEF Submit
  <2>3. stream' \in Seq(Commands) /\ ops' \in Seq(Op)
    BY <1>2, <2>1, <2>2
  <2>4. pending_writes' \in [Page -> Int]
    BY <1>12 DEF Submit, Counted, TypeOK
  <2>. QED BY <1>1, <2>2, <2>3, <2>4
<1>13. CASE MaintainQueues
  <2>1. Submit(<<>>) /\ <<>> \in Seq(Op)
    BY <1>13 DEF MaintainQueues
  <2>. QED BY <1>12, <1>13, <2>1
           DEF MaintainQueues, TypeOK, memory, renderer, history, N, Touched, Op
<1>14. CASE FlushAndSignal
  <2>1. queue # <<>> /\ queue' = Tail(queue) /\ Head(queue) = queue[1] /\ 1 \in 1 .. Len(queue)
    BY <1>2, <1>14 DEF FlushAndSignal
  <2>2. queue' \in Seq(Request) /\ Head(queue) \in Request
    BY <1>2, <2>1
  <2>. PICK s : s = <<[fence |-> 0, pages |-> {}, value |-> Head(queue).n]>>
    OBVIOUS
  <2>3. s \in Seq(Op)
    BY <2>2 DEF Op, Request
  <2>4. CASE cmd # <<>>
    <3>1. Submit(s)
      BY <1>14, <2>4 DEF FlushAndSignal
    <3>. QED BY <1>12, <1>14, <2>2, <2>3, <3>1
             DEF FlushAndSignal, TypeOK, memory, renderer, history, N, Touched, Op, Request
  <2>5. CASE cmd = <<>>
    <3>1. ops' = ops \o s
          /\ UNCHANGED <<pending_writes, page_to_pending_readback, stream, submits, cmd>>
      BY <1>14, <2>5 DEF FlushAndSignal
    <3>2. ops' \in Seq(Op)
      BY <1>2, <2>3, <3>1
    <3>. QED BY <1>14, <2>2, <3>1, <3>2
             DEF FlushAndSignal, TypeOK, memory, renderer, history, N, Touched, Op, Request
  <2>. QED BY <2>4, <2>5
<1>15. ASSUME NEW op, GpuStep(op)
       PROVE  /\ First = stream[1] /\ First.op = op /\ stream' \in Seq(Commands)
              /\ First \in Commands /\ IsNext(g, gpu_done, First) /\ First.n \in Nat /\ 1 \in 1 .. Len(stream)
              /\ (First.op # "end" => First.n \in 1 .. N)
  <2>1. stream # <<>> /\ First.op = op /\ stream' = Tail(stream)
    BY <1>15 DEF GpuStep
  <2>2. First = stream[1] /\ 1 \in 1 .. Len(stream) /\ stream' \in Seq(Commands) /\ First \in Commands
    BY <1>2, <2>1 DEF First
  <2>3. IsNext(g, gpu_done, First) /\ First.n \in Nat
    BY <2>1, <2>2 DEF Inductive, Streamed, Commands
  <2>4. First.op # "end" => First.n <= g.last[submits] /\ First.n = g.rendered + 1
    BY <2>1, <2>2, <2>3 DEF Inductive, Streamed, IsNext
  <2>5. First.op # "end" => First.n \in 1 .. N
    BY <1>1, <2>3, <2>4, HowFar DEF Ordered
  <2>. QED BY <2>1, <2>2, <2>3, <2>5
<1>16. CASE MaskedResolve
  <2>1. rdram' \in [Byte -> Int]
    BY <1>1, <1>16, OverlayType DEF MaskedResolve
  <2>. QED BY <1>15, <1>16, <2>1
           DEF MaskedResolve, TypeOK, marks, renderer, worker, history, N, Touched
<1>17. CASE Copy
  <2>1. rdram' \in [Byte -> Int] /\ mask' \in SUBSET Byte
    BY <1>1, <1>17, OverlayType DEF Copy
  <2>. QED BY <1>15, <1>17, <2>1
           DEF Copy, TypeOK, marks, renderer, worker, history, N, Touched
<1>18. CASE Render
  <2>1. First.n \in 1 .. N
    BY <1>15, <1>18 DEF Render
  <2>2. rdram' \in [Byte -> Int] /\ mask' \in SUBSET Byte
    BY <1>1, <1>7, <1>18, <2>1 DEF Render
  <2>. QED BY <1>15, <1>18, <2>2
           DEF Render, TypeOK, marks, renderer, worker, history, N, Touched
<1>19. CASE End
  <2>1. [data |-> rdram, mask |-> mask] \in Read
    BY <1>1 DEF Read
  <2>2. staging_readback' \in Seq(Read) /\ gpu_done' \in Nat
    BY <1>2, <1>15, <1>19, <2>1 DEF End
  <2>. QED BY <1>15, <1>19, <2>2
           DEF End, TypeOK, memory, marks, renderer, worker, history, N, Touched, Read
<1>20. CASE WaitFence
  <2>1. Head(ops) \in Op
    BY <1>2, <1>20 DEF WaitFence
  <2>. QED BY <1>20, <2>1
           DEF WaitFence, TypeOK, memory, marks, renderer, gpu, history, N, Touched, Op
<1>21. ASSUME NEW p \in Page, CopyPage(p) PROVE TypeOK'
  <2>1. Len(staging_readback) = gpu_done /\ ops # <<>> /\ ops[1].fence = g.done + 1
        /\ g.done + 1 \in 1 .. gpu_done
    <3>1. Len(staging_readback) = gpu_done /\ ops # <<>> /\ ops[1].fence = g.done + 1
          /\ g.done < gpu_done
      BY <1>21 DEF CopyPage, Inductive, ReadBack, Fenced, Arrived
    <3>. QED BY <3>1, HowFar DEF Ordered
  <2>2. Head(ops) = ops[1]
    BY <1>2, <2>1
  <2>3. staging_readback[Head(ops).fence] \in Read
    BY <1>2, <2>1, <2>2
  <2>4. host' \in [Byte -> Int]
    BY <1>1, <1>21, <2>3, OverlayType DEF CopyPage, Read
  <2>5. ops' \in Seq(Op)
    BY <1>2, <1>21, <2>1 DEF CopyPage
  <2>6. pending_writes' \in [Page -> Int] /\ copies' \in SUBSET Page
    BY <1>21 DEF CopyPage, TypeOK
  <2>7. UNCHANGED <<staging, rdram, mask, marks, queue, renderer, cmd, submits, gpu, timeline, history>>
    BY <1>21 DEF CopyPage
  <2>. QED BY <2>4, <2>5, <2>6, <2>7 DEF TypeOK, marks, renderer, gpu, history, N, Touched, Op
<1>22. CASE NotifyTimeline
  <2>1. Head(ops) \in Op /\ ops' \in Seq(Op)
    BY <1>2, <1>22 DEF NotifyTimeline
  <2>. QED BY <1>22, <2>1
           DEF NotifyTimeline, TypeOK, memory, marks, renderer, gpu, history, N, Touched, Op
<1>. QED
  BY <1>3, <1>4, <1>5, <1>8, <1>9, <1>10, <1>11, <1>13, <1>14, <1>16, <1>17, <1>18, <1>19, <1>20,
     <1>21, <1>22 DEF Next

(* A command is numbered after all that are in the queue. *)
LEMMA QueueGrows ==
    ASSUME TypeOK, Queued, NEW c, queue' = Append(queue, c), UNCHANGED <<rpc, pass>>,
           N' = N + Step(c), c.n = N'
    PROVE  Queued'
<1>. DEFINE n == Len(queue)
            Request == [op : {"draw", "signal"}, n : Nat]
<1>1. queue \in Seq(Request)
  BY DEF TypeOK
<1>. HIDE DEF Request
<1>2. /\ n \in Nat /\ Len(queue') = n + 1 /\ queue' # <<>>
      /\ queue'[n + 1] = c /\ \A i \in 1 .. n : queue'[i] = queue[i]
      /\ n = 0 <=> queue = <<>>
  BY <1>1
<1>3. pass <= N /\ pass \in Nat /\ N \in Nat /\ (rpc # "idle" => pass > 0) /\ Step(c) \in 0 .. 1
  BY DEF Queued, TypeOK, N, Step
<1>4. \A i \in 1 .. n : queue[i].n <= N /\ queue[i].n \in Nat
  <2>1. \A i \in 1 .. n : queue[i] \in Request
    BY <1>1
  <2>. QED BY <2>1 DEF Queued, Request
<1>5. \A i \in 1 .. n + 1 : queue'[i].n <= N'
  BY <1>2, <1>3, <1>4
<1>6. queue'[1].n = pass + Step(queue'[1])
  <2>1. CASE n = 0
    BY <1>2, <2>1 DEF Queued
  <2>2. CASE n # 0
    <3>1. 1 \in 1 .. n /\ queue # <<>>
      BY <1>2, <2>2
    <3>. QED BY <1>2, <3>1 DEF Queued
  <2>. QED BY <2>1, <2>2
<1>7. ASSUME NEW i \in 1 .. n PROVE queue'[i + 1].n = queue'[i].n + Step(queue'[i + 1])
  <2>1. CASE i = n
    <3>1. queue # <<>> /\ queue[n].n = N
      BY <1>2, <2>1 DEF Queued
    <3>. QED BY <1>2, <2>1, <3>1
  <2>2. CASE i # n
    <3>1. i \in 1 .. n - 1 /\ i + 1 \in 1 .. n
      BY <1>2, <2>2
    <3>. QED BY <1>2, <3>1 DEF Queued
  <2>. QED BY <2>1, <2>2
<1>. HIDE DEF n
<1>8. (n + 1) - 1 = n /\ pass <= N'
  BY <1>2, <1>3
<1>. QED BY <1>2, <1>3, <1>5, <1>6, <1>7, <1>8 DEF Queued

LEMMA QueueShrinks ==
    ASSUME TypeOK, Queued, queue # <<>>, queue' = Tail(queue), passes' = passes,
           pass' = pass + Step(queue[1]), rpc' # "idle" => pass' > 0
    PROVE  Queued' /\ Head(queue) = queue[1] /\ pass' = queue[1].n /\ pass' \in 0 .. N
<1>. DEFINE n == Len(queue)
            Request == [op : {"draw", "signal"}, n : Nat]
<1>1. queue \in Seq(Request)
  BY DEF TypeOK
<1>. HIDE DEF Request
<1>2. /\ n \in Nat /\ n # 0 /\ 1 \in 1 .. n /\ n \in 1 .. n /\ Len(queue') = n - 1
      /\ \A i \in 1 .. n - 1 : queue'[i] = queue[i + 1] /\ i + 1 \in 1 .. n
      /\ n - 1 = 0 <=> queue' = <<>>
      /\ Head(queue) = queue[1]
  <2>1. queue \in Seq(Request) /\ queue # <<>> /\ queue' = Tail(queue)
    BY <1>1
  <2>2. n \in Nat /\ n # 0 /\ 1 \in 1 .. n /\ n \in 1 .. n /\ Head(queue) = queue[1]
    BY <2>1
  <2>3. queue' \in Seq(Request) /\ Len(queue') = n - 1
    BY <2>1, <2>2
  <2>4. \A i \in 1 .. n - 1 : queue'[i] = queue[i + 1] /\ i + 1 \in 1 .. n
    BY <2>1, <2>2
  <2>5. n - 1 = 0 <=> queue' = <<>>
    <3>1. \A s \in Seq(Request) : Len(s) = 0 <=> s = <<>>
      OBVIOUS
    <3>. QED BY <2>3, <3>1
  <2>. QED BY <2>2, <2>3, <2>4, <2>5
<1>3. \A i \in 1 .. n : queue[i].n <= N /\ queue[i].n \in Nat
  <2>1. \A i \in 1 .. n : queue[i] \in Request
    BY <1>1
  <2>. QED BY <2>1 DEF Queued, Request
<1>4. N' = N /\ N \in Nat /\ pass' = queue[1].n
  BY DEF N, TypeOK, Queued
<1>5. \A i \in 1 .. n - 1 : queue'[i].n <= N
  BY <1>2, <1>3
<1>6. queue' = <<>> => pass' = N
  BY <1>2, <1>4 DEF Queued
<1>7. queue' # <<>> => queue'[1].n = pass' + Step(queue'[1]) /\ queue'[n - 1].n = N
  <2>. SUFFICES ASSUME queue' # <<>>
                PROVE  queue'[1].n = pass' + Step(queue'[1]) /\ queue'[n - 1].n = N
    OBVIOUS
  <2>1. 1 \in 1 .. n - 1 /\ n - 1 \in 1 .. n - 1 /\ (n - 1) + 1 = n
    BY <1>2
  <2>. QED BY <1>2, <1>4, <2>1 DEF Queued
<1>8. ASSUME NEW i \in 1 .. (n - 1) - 1
      PROVE  queue'[i + 1].n = queue'[i].n + Step(queue'[i + 1])
  <2>1. i \in 1 .. n - 1 /\ i + 1 \in 1 .. n - 1
    BY <1>2
  <2>. QED BY <1>2, <2>1 DEF Queued
<1>. HIDE DEF n
<1>. QED BY <1>2, <1>3, <1>4, <1>5, <1>6, <1>7, <1>8 DEF Queued
-----------------------------------------------------------------------------
(* The actions, one by one. *)

LEMMA GhostInit == ASSUME Init PROVE \E g \in Ghost : Inductive(g)
<1>. PICK g : g = [val |-> [b \in Byte |-> [n \in Nat |-> 1]],
                   last |-> [f \in Nat |-> 0], sub |-> [n \in Nat |-> 0],
                   here |-> [p \in Page |-> 0], count |-> [p \in Page |-> [f \in Nat |-> 0]],
                   done |-> 0, rendered |-> 0, step |-> 0,
                   direct |-> [n \in Nat |-> {}], masked |-> [n \in Nat |-> {}]]
  OBVIOUS
<1>1. g \in Ghost
  BY DEF Ghost
<1>2. /\ N = 0 /\ Recorded = 0 /\ Resolved = 0
      /\ \A p \in Page : Upto(g, p) = 0
  BY DEF Init, N, Recorded, Resolved, Upto
<1>3. Valued(g) /\ Remembered(g) /\ Queued
  BY <1>2 DEF Init, Valued, Remembered, Queued, N, Loaded
<1>4. Submitted(g) /\ Rendered(g) /\ Arrived(g) /\ Streamed(g) /\ Opened(g)
  BY <1>2 DEF Init, Submitted, Rendered, Arrived, Streamed, Opened
<1>5. Fenced(g) /\ Signals(g)
  BY DEF Init, Fenced, Signals
<1>6. Counts(g) /\ Tallied(g)
  <2>1. \A p \in Page : g.here[p] = 0 /\ \A f \in Nat : g.count[p][f] = 0
    OBVIOUS
  <2>2. submits = 0 /\ (1 .. 0) = {} /\ (0 .. 0) = {0} /\ \A p \in Page : pending_writes[p] = 0
    BY DEF Init
  <2>. QED BY <2>1, <2>2 DEF Counts, Tallied
<1>7. Marked(g) /\ Safe(g) /\ Masks(g) /\ Overdue(g) /\ Staged(g) /\ Ready(g)
  <2>1. g.rendered = 0 /\ g.step = 0 /\ g.last[submits] = 0
    BY DEF Init
  <2>2. (g.rendered + 1 .. Resolved) = {} /\ (g.last[submits] + 1 .. Resolved) = {}
    BY <1>2, <2>1
  <2>3. Marked(g)
    BY <2>2 DEF Init, Marked
  <2>4. Safe(g) /\ Staged(g) /\ Ready(g)
    BY <2>1, <2>2 DEF Init, Safe, Staged, Ready
  <2>5. Masks(g) /\ Overdue(g)
    <3>1. mask = {}
      BY DEF Init
    <3>2. \A b \in Byte : b[1] \in Page
      BY ByteHasPage
    <3>3. \A b \in Byte : Upto(g, b[1]) = 0
      BY <1>2, <3>2
    <3>4. (0 + 1 .. 0) = {}
      OBVIOUS
    <3>. QED BY <2>1, <3>1, <3>3, <3>4 DEF Masks, Overdue, Stale
  <2>. QED BY <2>3, <2>4, <2>5
<1>8. HostHas(g)
  <2>1. \A b \in Byte : g.val[b][0] = 1
    OBVIOUS
  <2>. QED BY <1>2, <2>1, ByteHasPage DEF Init, HostHas, Loaded
<1>9. ReadBack(g)
  BY DEF Init, ReadBack
<1>. QED BY <1>1, <1>3, <1>4, <1>5, <1>6, <1>7, <1>8, <1>9 DEF Inductive

(* The careful host writes to a byte that no unfinished pass touches, in a *)
(* page that none of them writes if a pass has ever drawn that byte.       *)
LEMMA HostWriteKeeps ==
    ASSUME Careful, TypeOK, NEW g \in Ghost, Inductive(g), NEW b \in Byte, HostWrite(b)
    PROVE  \E h \in Ghost : Inductive(h)'
<1>h. PICK h : h = [g EXCEPT !.val = [g.val EXCEPT ![b] =
                      [k \in Nat |-> IF Alone(passes, b, k, N) THEN Fresh ELSE g.val[b][k]]]]
  OBVIOUS
<1>1. /\ h.last = g.last /\ h.sub = g.sub /\ h.here = g.here /\ h.count = g.count
      /\ h.done = g.done /\ h.rendered = g.rendered /\ h.step = g.step
      /\ h.direct = g.direct /\ h.masked = g.masked
      /\ h.val = [g.val EXCEPT ![b] =
                      [k \in Nat |-> IF Alone(passes, b, k, N) THEN Fresh ELSE g.val[b][k]]]
      /\ g.val \in [Byte -> [Nat -> Int]]
  BY <1>h DEF Ghost
<1>2. /\ Ordered(g) /\ b[1] \in Page
  BY HowFar, ByteHasPage
<1>3. Fresh \in Int
  <2>1. N \in Nat /\ writes \in Nat
    BY DEF TypeOK, N
  <2>. QED BY <2>1 DEF Fresh, N
<1>4. h \in Ghost
  <2>1. [k \in Nat |-> IF Alone(passes, b, k, N) THEN Fresh ELSE g.val[b][k]] \in [Nat -> Int]
    BY <1>1, <1>3
  <2>2. h.val \in [Byte -> [Nat -> Int]]
    BY <1>1, <2>1
  <2>. QED BY <1>h, <2>2 DEF Ghost
<1>5. /\ host' = [host EXCEPT ![b] = Fresh] /\ truth' = [truth EXCEPT ![b] = Fresh]
      /\ UNCHANGED <<staging, rdram, mask, marks, pending_writes, queue, renderer, cmd, submits,
                     gpu, worker, passes>>
      /\ N' = N /\ truth \in [Byte -> Int] /\ host \in [Byte -> Int]
  BY DEF HostWrite, N, TypeOK
<1>u. \A n \in 1 .. N : n > timeline => n \in Unfinished
  <2>1. N \in Nat /\ timeline \in Nat
    BY <1>2 DEF Ordered
  <2>. QED BY <2>1 DEF Unfinished, N
<1>6. \A n \in 1 .. N : n > timeline => b \notin passes[n].writes /\ b \notin passes[n].reads
  <2>1. b \notin WrittenBy(Unfinished) \union ReadBy(Unfinished)
    BY DEF HostWrite, HostMayWrite
  <2>. QED BY <1>u, <2>1 DEF WrittenBy, ReadBy
<1>7. Drawn(passes, b) => \A n \in 1 .. N : n > timeline => ~Dirties(passes, n, b[1])
  <2>1. b[1] \notin Pages(WrittenBy(Unfinished)) \/ b \notin WrittenBy(DOMAIN passes)
    BY DEF HostWrite, HostMayWrite
  <2>2. Drawn(passes, b) => b \in WrittenBy(DOMAIN passes)
    <3>1. DOMAIN passes = 1 .. Len(passes)
      BY DEF TypeOK
    <3>. QED BY <3>1 DEF Drawn, WrittenBy
  <2>3. \A n \in Unfinished : Dirties(passes, n, b[1]) => b[1] \in Pages(WrittenBy(Unfinished))
    BY DEF Dirties, Pages, WrittenBy
  <2>. QED BY <1>u, <2>1, <2>2, <2>3
<1>8. /\ \A c \in Byte : c # b => \A k \in Nat : h.val[c][k] = g.val[c][k]
      /\ \A k \in Nat : h.val[b][k] = IF Alone(passes, b, k, N) THEN Fresh ELSE g.val[b][k]
  BY <1>1
<1>9. \A k \in Nat : k >= timeline => h.val[b][k] = Fresh
  BY <1>2, <1>6, <1>8 DEF Alone, Ordered
<1>10. Valued(h)'
  <2>1. \A c \in Byte : h.val[c][N] = truth'[c]
    <3>1. N \in Nat /\ Alone(passes, b, N, N) /\ \A c \in Byte : g.val[c][N] = truth[c]
      BY <1>2 DEF Inductive, Valued, Alone, Ordered
    <3>. QED BY <1>5, <1>8, <3>1
  <2>2. ASSUME NEW n \in 1 .. N, NEW c \in passes[n].writes PROVE h.val[c][n - 1] = passes[n].expected[c]
    <3>1. c \in Byte /\ n - 1 \in Nat /\ n \in (n - 1) + 1 .. N
      BY <1>2, PassType DEF Ordered
    <3>2. g.val[c][n - 1] = passes[n].expected[c]
      BY DEF Inductive, Valued
    <3>. QED BY <1>8, <3>1, <3>2 DEF Alone
  <2>3. ASSUME NEW c \in Byte, NEW j \in 0 .. N, NEW k \in 0 .. N, j <= k, Alone(passes, c, j, k)
        PROVE  h.val[c][j] = h.val[c][k]
    <3>1. g.val[c][j] = g.val[c][k] /\ j \in Nat /\ k \in Nat
      BY <2>3 DEF Inductive, Valued
    <3>2. Alone(passes, c, j, N) <=> Alone(passes, c, k, N)
      BY <1>2, <2>3 DEF Alone, Ordered
    <3>. QED BY <1>8, <3>1, <3>2
  <2>4. passes' = passes /\ N' = N
    BY <1>5
  <2>. QED BY <2>1, <2>2, <2>3, <2>4 DEF Valued
<1>11. Remembered(h)'
  <2>. SUFFICES ASSUME NEW n \in 1 .. N, n > timeline
                PROVE  /\ \A c \in passes[n].writes : h.val[c][n] = passes[n].value
                       /\ \A c \in passes[n].reads : h.val[c][n - 1] = passes[n].expected[c]
    BY <1>5 DEF Remembered, worker
  <2>1. /\ passes[n].writes \subseteq Byte /\ passes[n].reads \subseteq Byte
        /\ n \in Nat /\ n - 1 \in Nat
    BY PassType
  <2>. QED BY <1>6, <1>8, <2>1 DEF Inductive, Remembered
<1>12. HostHas(h)'
  <2>. SUFFICES ASSUME NEW c \in Byte PROVE host'[c] = h.val[c][Upto(g, c[1])]
    BY <1>1 DEF HostHas, Upto
  <2>1. Upto(g, c[1]) \in Nat /\ Upto(g, c[1]) >= timeline /\ host[c] = g.val[c][Upto(g, c[1])]
    BY <1>2, ByteHasPage DEF Inductive, HostHas, Ordered
  <2>. QED BY <1>5, <1>8, <1>9, <2>1
<1>13. ReadBack(h)'
  <2>1. ASSUME NEW f \in 1 .. gpu_done, f > g.here[b[1]], b[1] \in Locked(passes, g, f)
        PROVE  ~Drawn(passes, b)
    <3>1. PICK n \in g.last[f - 1] + 1 .. g.last[f] : Dirties(passes, n, b[1])
      BY <2>1 DEF Locked
    <3>2. /\ g.done <= f - 1 /\ f - 1 \in 0 .. submits /\ f \in 0 .. submits /\ g.done \in 0 .. submits
          /\ submits \in 0 .. submits
      BY <1>2, <2>1 DEF Ordered
    <3>3. g.last[g.done] <= g.last[f - 1] /\ g.last[f] <= g.last[submits]
      BY <1>2, <3>2 DEF Ordered
    <3>4. n \in 1 .. N /\ n > timeline
      BY <1>2, <3>2, <3>3 DEF Ordered
    <3>. QED BY <1>7, <3>1, <3>4
  <2>2. \A f \in 1 .. gpu_done : g.last[f] \in Nat
    BY <1>2 DEF Ordered
  <2>3. \A f \in 1 .. gpu_done : Locked(passes, h, f) = Locked(passes, g, f)
    BY <1>1 DEF Locked
  <2>4. ReadBack(g) /\ UNCHANGED <<gpu_done, staging_readback, passes>>
    BY <1>5 DEF Inductive, gpu
  <2>. SUFFICES ASSUME NEW f \in 1 .. gpu_done, NEW c \in Byte,
                       f > g.here[c[1]], c[1] \in Locked(passes, g, f),
                       c \in staging_readback[f].mask
                PROVE  staging_readback[f].data[c] = h.val[c][g.last[f]]
    <3>1. h.here = g.here /\ h.last = g.last /\ \A p : Upto(h, p) = Upto(g, p)
      BY <1>1 DEF Upto
    <3>. QED BY <2>3, <2>4, <3>1 DEF ReadBack
  <2>. QED BY <1>8, <2>1, <2>2, <2>4 DEF ReadBack
<1>14. Overdue(h)'
  <2>1. Stale(h, b)' => Drawn(passes, b)
    BY <1>5 DEF Stale, Inductive, Masks
  <2>2. \A c \in Byte : c # b => (Stale(h, c)' <=> Stale(g, c))
    BY <1>1, <1>2, <1>5, <1>8 DEF Stale, Ordered
  <2>3. ASSUME Drawn(passes, b), NEW n \in 1 .. N, n > timeline PROVE ~Dirties(passes, n, b[1]) /\ ~Concerns(passes, n, b)
    BY <1>6, <1>7, <2>3 DEF Concerns
  <2>4. /\ \A n \in Upto(g, b[1]) + 1 .. g.rendered : n \in 1 .. N /\ n > timeline
        /\ \A n \in g.rendered + 1 .. Recorded : n \in 1 .. N /\ n > timeline
        /\ rpc # "idle" => pass \in 1 .. N /\ pass > timeline
    <3>1. timeline <= g.rendered
      BY <1>2 DEF Ordered
    <3>2. rpc # "idle" => pass = Recorded + 1 /\ pass \in 1 .. N
      BY DEF Inductive, Queued, Recorded, TypeOK, N
    <3>. QED BY <1>2, <3>1, <3>2 DEF Ordered
  <2>5. ASSUME NEW c \in Byte, Stale(h, c)'
        PROVE  /\ \A n \in Upto(g, c[1]) + 1 .. g.rendered : ~Dirties(passes, n, c[1])
               /\ \A n \in g.rendered + 1 .. Recorded :
                      Concerns(passes, n, c) => Until(g, c[1], g.rendered, n)
               /\ rpc # "idle" /\ Concerns(passes, pass, c) /\ c[1] \in page_to_masked_copy =>
                      Until(g, c[1], g.rendered, Recorded)
    <3>1. CASE c = b
      BY <2>1, <2>3, <2>4, <2>5, <3>1
    <3>2. CASE c # b
      BY <2>2, <2>5, <3>2 DEF Inductive, Overdue
    <3>. QED BY <3>1, <3>2
  <2>6. Recorded' = Recorded
    BY <1>5 DEF Recorded, renderer
  <2>7. \A p, m, n : Until(h, p, m, n) <=> Until(g, p, m, n)
    BY <1>1 DEF Until
  <2>8. h.rendered = g.rendered /\ \A p : Upto(h, p) = Upto(g, p)
    BY <1>1 DEF Upto
  <2>9. UNCHANGED <<passes, rpc, pass, page_to_masked_copy>>
    BY <1>5 DEF renderer, marks
  <2>. QED BY <2>5, <2>6, <2>7, <2>8, <2>9 DEF Overdue
<1>15. Staged(h)'
  <2>1. Recorded' = Recorded /\ Resolved' = Resolved
    BY <1>5 DEF Recorded, Resolved, renderer
  <2>2. \A c, n : Kept(h, c, n)' <=> Kept(g, c, n)
    BY <1>1, <1>5 DEF Kept, Until
  <2>3. ASSUME NEW n \in g.rendered + 1 .. Resolved, NEW c \in Touched(passes, n)
        PROVE  h.val[c][n - 1] = g.val[c][n - 1]
    <3>1. n \in 1 .. N /\ n > timeline /\ n - 1 \in Nat
      BY <1>2 DEF Ordered
    <3>2. c \in Byte /\ c # b
      BY <1>6, <3>1, PassType DEF Touched
    <3>. QED BY <1>8, <3>1, <3>2
  <2>4. Staged(g) /\ UNCHANGED <<passes, pass, rpc, todo, staging>>
    BY <1>5 DEF Inductive, renderer
  <2>. QED BY <1>1, <2>1, <2>2, <2>3, <2>4 DEF Staged
<1>16. Ready(h)'
  <2>1. ASSUME g.step # 0, NEW c \in Touched(passes, g.rendered + 1)
        PROVE  h.val[c][g.rendered] = g.val[c][g.rendered]
    <3>1. g.rendered + 1 \in 1 .. N /\ g.rendered + 1 > timeline /\ g.rendered \in Nat
      BY <1>2, <2>1 DEF Ordered
    <3>2. c \in Byte /\ c # b
      BY <1>6, <3>1, PassType DEF Touched
    <3>. QED BY <1>8, <3>1, <3>2
  <2>2. Ready(g)
    BY DEF Inductive
  <2>3. passes' = passes /\ rdram' = rdram
    BY <1>5
  <2>. QED BY <1>1, <2>1, <2>2, <2>3 DEF Ready
<1>17. /\ Queued' /\ Submitted(h)' /\ Rendered(h)' /\ Arrived(h)' /\ Streamed(h)' /\ Opened(h)'
       /\ Fenced(h)' /\ Signals(h)' /\ Counts(h)' /\ Tallied(h)' /\ Marked(h)' /\ Safe(h)' /\ Masks(h)'
  <2>1. Recorded' = Recorded /\ Resolved' = Resolved
    BY <1>5 DEF Recorded, Resolved, renderer
  <2>. QED BY <1>1, <1>5, <2>1, QueuedFrame, SubmittedFrame, RenderedFrame, ArrivedFrame, StreamedFrame,
              OpenedFrame, FencedFrame, SignalsFrame, CountsFrame, TalliedFrame, MarkedFrame, SafeFrame,
              MasksFrame
           DEF Inductive, renderer, gpu, worker, marks
<1>. QED BY <1>4, <1>10, <1>11, <1>12, <1>13, <1>14, <1>15, <1>16, <1>17 DEF Inductive

(* A new pass expects the truth, and writes a truth of its own. *)
LEMMA EnqueueKeeps ==
    ASSUME TypeOK, NEW g \in Ghost, Inductive(g), NEW R \in Texture, NEW W \in Framebuffer, Enqueue(R, W)
    PROVE  \E h \in Ghost : Inductive(h)'
<1>val. PICK val : val = [b \in Byte |-> [g.val[b] EXCEPT ![N + 1] = IF b \in W THEN Fresh ELSE truth[b]]]
  OBVIOUS
<1>h. PICK h : h = [g EXCEPT !.val = val]
  OBVIOUS
<1>1. /\ h.last = g.last /\ h.sub = g.sub /\ h.here = g.here /\ h.count = g.count
      /\ h.done = g.done /\ h.rendered = g.rendered /\ h.step = g.step
      /\ h.direct = g.direct /\ h.masked = g.masked
  BY <1>h DEF Ghost
<1>2. h.val = val /\ g.val \in [Byte -> [Nat -> Int]]
  BY <1>h DEF Ghost
<1>3. Ordered(g)
  BY HowFar
<1>4. N \in Nat /\ Fresh \in Int /\ truth \in [Byte -> Int] /\ R \in SUBSET Byte /\ W \in SUBSET Byte
  <2>1. N \in Nat /\ writes \in Nat
    BY DEF TypeOK, N
  <2>. QED BY <2>1 DEF TypeOK, Fresh, Texture, Framebuffer, N
<1>5. h \in Ghost
  <2>1. val \in [Byte -> [Nat -> Int]]
    BY <1>2, <1>4, <1>val
  <2>. QED BY <1>2, <1>h, <2>1 DEF Ghost
<1>6. \A b \in Byte : /\ \A k \in 0 .. N : h.val[b][k] = g.val[b][k]
                      /\ h.val[b][N + 1] = IF b \in W THEN Fresh ELSE truth[b]
  BY <1>2, <1>4, <1>val
<1>r. PICK r : r = [reads |-> R, writes |-> W, value |-> Fresh, expected |-> [b \in R \union W |-> truth[b]]]
  OBVIOUS
<1>7. passes' = Append(passes, r) /\ truth' = [b \in Byte |-> IF b \in W THEN Fresh ELSE truth[b]]
      /\ queue' = Append(queue, [op |-> "draw", n |-> N + 1])
      /\ UNCHANGED <<memory, marks, pending_writes, renderer, cmd, submits, gpu, worker, writes>>
  BY <1>r DEF Enqueue, N
<1>8. N' = N + 1 /\ passes'[N + 1] = r /\ \A n \in 1 .. N : passes'[n] = passes[n]
  <2>1. passes \in Seq([reads : SUBSET Byte, writes : SUBSET Byte, value : Int,
                        expected : UNION {[B -> Int] : B \in SUBSET Byte}])
    BY DEF TypeOK
  <2>2. r \in [reads : SUBSET Byte, writes : SUBSET Byte, value : Int,
                expected : UNION {[B -> Int] : B \in SUBSET Byte}]
    BY <1>4, <1>r
  <2>. QED BY <1>7, <2>1, <2>2 DEF N
<1>9. /\ r.reads = R /\ r.writes = W /\ r.value = Fresh
      /\ \A b \in R \union W : r.expected[b] = truth[b]
  BY <1>r
<1>10. /\ \A n \in 1 .. N : /\ Touched(passes', n) = Touched(passes, n)
                            /\ \A p : Dirties(passes', n, p) <=> Dirties(passes, n, p)
                            /\ \A b : Concerns(passes', n, b) <=> Concerns(passes, n, b)
       /\ \A b : \A j, k \in 0 .. N : Alone(passes', b, j, k) <=> Alone(passes, b, j, k)
       /\ \A b : Drawn(passes, b) => Drawn(passes', b)
  <2>1. \A n \in 1 .. N : /\ Touched(passes', n) = Touched(passes, n)
                          /\ \A p : Dirties(passes', n, p) <=> Dirties(passes, n, p)
                          /\ \A b : Concerns(passes', n, b) <=> Concerns(passes, n, b)
    BY <1>8 DEF Touched, Dirties, Concerns
  <2>2. \A b : \A j, k \in 0 .. N : Alone(passes', b, j, k) <=> Alone(passes, b, j, k)
    BY <1>4, <1>8 DEF Alone
  <2>3. \A b : Drawn(passes, b) => Drawn(passes', b)
    BY <1>4, <1>8 DEF Drawn, N
  <2>. QED BY <2>1, <2>2, <2>3
<1>11. \A f \in 1 .. submits : Locked(passes', h, f) = Locked(passes, g, f)
  <2>. SUFFICES ASSUME NEW f \in 1 .. submits
                PROVE  \A n \in g.last[f - 1] + 1 .. g.last[f] : n \in 1 .. N
    BY <1>1, <1>10 DEF Locked
  <2>1. f \in 0 .. submits /\ submits \in 0 .. submits /\ f - 1 \in Nat /\ f \in Nat /\ submits \in Nat
    BY <1>3 DEF Ordered
  <2>2. g.last[f] <= g.last[submits] /\ g.last[f] \in Nat /\ g.last[f - 1] \in Nat /\ g.last[submits] \in Nat
    BY <1>3, <2>1 DEF Ordered
  <2>. QED BY <1>3, <2>2 DEF Ordered
<1>12. /\ Recorded' = Recorded /\ Resolved' = Resolved
       /\ UNCHANGED <<host, staging, rdram, mask, page_to_direct_copy, page_to_masked_copy,
                      page_to_pending_readback, pending_writes, rpc, pass, todo, cmd, stream, submits,
                      gpu_done, staging_readback, ops, copies, timeline>>
  BY <1>7 DEF Recorded, Resolved, memory, marks, renderer, gpu, worker
<1>13. \A p : Upto(h, p) = Upto(g, p)
  BY <1>1 DEF Upto
<1>14. Valued(h)'
  <2>1. \A b \in Byte : h.val[b][N'] = truth'[b]
    BY <1>4, <1>6, <1>7, <1>8
  <2>2. ASSUME NEW n \in 1 .. N', NEW b \in passes'[n].writes PROVE h.val[b][n - 1] = passes'[n].expected[b]
    <3>1. CASE n = N + 1
      <4>0. b \in W
        BY <1>8, <1>9, <2>2, <3>1
      <4>1. b \in W /\ b \in Byte /\ (N + 1) - 1 = N /\ N \in 0 .. N
        BY <1>4, <4>0
      <4>2. g.val[b][N] = truth[b]
        BY <4>1 DEF Inductive, Valued
      <4>. QED BY <1>6, <1>8, <1>9, <3>1, <4>1, <4>2
    <3>2. CASE n # N + 1
      <4>1. n \in 1 .. N /\ n - 1 \in 0 .. N
        BY <1>4, <1>8, <3>2
      <4>2. b \in passes[n].writes /\ b \in Byte
        BY <1>8, <2>2, <4>1, PassType
      <4>3. g.val[b][n - 1] = passes[n].expected[b]
        BY <4>1, <4>2 DEF Inductive, Valued
      <4>. QED BY <1>6, <1>8, <4>1, <4>2, <4>3
    <3>. QED BY <3>1, <3>2
  <2>3. ASSUME NEW b \in Byte, NEW j \in 0 .. N', NEW k \in 0 .. N', j <= k, Alone(passes', b, j, k)
        PROVE  h.val[b][j] = h.val[b][k]
    <3>1. CASE k = N + 1 /\ j # N + 1
      <4>1. N + 1 \in j + 1 .. k /\ j \in 0 .. N /\ N \in 0 .. N /\ j <= N
        BY <1>4, <1>8, <3>1
      <4>2. b \notin W
        BY <1>8, <1>9, <2>3, <4>1 DEF Alone
      <4>3. Alone(passes', b, j, N)
        BY <1>4, <2>3, <3>1 DEF Alone
      <4>4. g.val[b][j] = g.val[b][N] /\ g.val[b][N] = truth[b]
        BY <1>10, <4>1, <4>3 DEF Inductive, Valued
      <4>. QED BY <1>6, <3>1, <4>1, <4>2, <4>4
    <3>2. CASE k # N + 1
      <4>1. k \in 0 .. N /\ j \in 0 .. N
        BY <1>4, <1>8, <2>3, <3>2
      <4>2. g.val[b][j] = g.val[b][k]
        BY <1>10, <2>3, <4>1 DEF Inductive, Valued
      <4>. QED BY <1>6, <4>1, <4>2
    <3>. QED BY <3>1, <3>2
  <2>. QED BY <2>1, <2>2, <2>3 DEF Valued
<1>15. Remembered(h)'
  <2>. SUFFICES ASSUME NEW n \in 1 .. N', n > timeline
                PROVE  /\ \A b \in passes'[n].writes : h.val[b][n] = passes'[n].value
                       /\ \A b \in passes'[n].reads : h.val[b][n - 1] = passes'[n].expected[b]
    BY <1>12 DEF Remembered
  <2>1. CASE n = N + 1
    <3>1. \A b \in W : h.val[b][n] = Fresh
      BY <1>4, <1>6, <2>1
    <3>2. \A b \in R : h.val[b][n - 1] = truth[b]
      <4>1. \A b \in Byte : g.val[b][N] = truth[b]
        BY DEF Inductive, Valued
      <4>2. (N + 1) - 1 = N /\ N \in 0 .. N
        BY <1>4
      <4>. QED BY <1>4, <1>6, <2>1, <4>1, <4>2
    <3>. QED BY <1>8, <1>9, <2>1, <3>1, <3>2
  <2>2. CASE n # N + 1
    <3>1. n \in 1 .. N /\ n \in 0 .. N /\ n - 1 \in 0 .. N
      BY <1>4, <1>8, <2>2
    <3>2. passes[n].writes \in SUBSET Byte /\ passes[n].reads \in SUBSET Byte
      BY <3>1, PassType
    <3>. QED BY <1>6, <1>8, <3>1, <3>2 DEF Inductive, Remembered
  <2>. QED BY <2>1, <2>2
<1>16. Queued'
  <2>. PICK c : c = [op |-> "draw", n |-> N + 1]
    OBVIOUS
  <2>1. Step(c) = 1 /\ c.n = N' /\ N' = N + Step(c)
    BY <1>8 DEF Step
  <2>. QED BY <1>7, <1>12, <2>1, QueueGrows DEF Inductive
<1>17. Fenced(h)' /\ Counts(h)'
  <2>1. Fenced(g) /\ Counts(g)
    BY DEF Inductive
  <2>2. Fenced(h)'
    <3>1. \A i \in 1 .. Len(ops) : ops[i].fence # 0 => ops[i].fence \in 1 .. submits
      BY <1>3, <2>1 DEF Fenced, Ordered
    <3>. QED BY <1>1, <1>11, <1>12, <2>1, <3>1 DEF Fenced
  <2>3. Counts(h)'
    <3>1. \A e, f \in 0 .. submits : \A i \in e + 1 .. f : i \in 1 .. submits
      BY <1>3 DEF Ordered
    <3>2. h.count = g.count /\ submits' = submits
      BY <1>1, <1>12
    <3>3. ASSUME NEW p \in Page, NEW e \in 0 .. submits, NEW f \in 0 .. submits,
                 \A i \in e + 1 .. f : p \notin Locked(passes', h, i)
          PROVE  \A i \in e + 1 .. f : p \notin Locked(passes, g, i)
      BY <1>11, <3>1, <3>3
    <3>. QED BY <1>11, <2>1, <3>2, <3>3 DEF Counts
  <2>. QED BY <2>2, <2>3
<1>18. Marked(h)' /\ Safe(h)'
  <2>1. Marked(g) /\ Safe(g)
    BY DEF Inductive
  <2>2. /\ \A n \in g.last[submits] + 1 .. Resolved : n \in 1 .. N
        /\ \A n \in g.rendered + 1 .. Resolved : n \in 1 .. N /\ \A m \in 1 .. n - 1 : m \in 1 .. N
        /\ \A m \in 1 .. Recorded : m \in 1 .. N
        /\ rpc = "flush" => pass \in 1 .. N
    <3>1. g.last[submits] \in Nat
      BY <1>3 DEF Ordered
    <3>2. rpc = "flush" => pass \in 1 .. N
      BY DEF Inductive, Queued, TypeOK
    <3>. QED BY <1>3, <3>1, <3>2 DEF Ordered
  <2>3. h.last = g.last /\ h.rendered = g.rendered /\ h.direct = g.direct /\ h.masked = g.masked
    BY <1>1
  <2>4. Marked(h)'
    BY <1>8, <1>10, <1>12, <2>1, <2>2, <2>3 DEF Marked
  <2>5. Safe(h)'
    BY <1>10, <1>12, <1>13, <2>1, <2>2, <2>3 DEF Safe
  <2>. QED BY <2>4, <2>5
<1>19. HostHas(h)'
  <2>1. \A b \in Byte : Upto(g, b[1]) \in 0 .. N
    BY <1>3, ByteHasPage DEF Ordered
  <2>. QED BY <1>6, <1>12, <1>13, <2>1 DEF Inductive, HostHas
<1>20. \A f \in 0 .. gpu_done : g.last[f] \in 0 .. N
  <2>. SUFFICES ASSUME NEW f \in 0 .. gpu_done PROVE g.last[f] \in 0 .. N
    OBVIOUS
  <2>1. f \in 0 .. submits /\ gpu_done \in 0 .. submits /\ f <= gpu_done /\ f \in Nat
    BY <1>3 DEF Ordered
  <2>2. g.last[f] <= g.last[gpu_done] /\ g.last[f] \in Nat /\ g.last[gpu_done] \in Nat
    BY <1>3, <2>1 DEF Ordered
  <2>. QED BY <1>3, <1>4, <2>2 DEF Ordered
<1>21. ReadBack(h)'
  <2>1. ReadBack(g)
    BY DEF Inductive
  <2>. SUFFICES ASSUME NEW f \in 1 .. gpu_done, NEW b \in Byte,
                       f > g.here[b[1]], b[1] \in Locked(passes, g, f)
                PROVE  /\ b \in staging_readback[f].mask =>
                              /\ staging_readback[f].data[b] = h.val[b][g.last[f]]
                              /\ Drawn(passes', b)
                       /\ \A n \in Upto(g, b[1]) + 1 .. g.last[f] :
                              b \in passes'[n].writes => b \in staging_readback[f].mask
    <3>1. \A f \in 1 .. gpu_done : f \in 1 .. submits
      BY <1>3 DEF Ordered
    <3>2. /\ Len(staging_readback) = gpu_done /\ UNCHANGED <<gpu_done, staging_readback>>
          /\ h.here = g.here /\ h.last = g.last
      BY <1>1, <1>12, <2>1 DEF ReadBack
    <3>. QED BY <1>11, <1>13, <3>1, <3>2 DEF ReadBack
  <2>2. g.last[f] \in 0 .. N
    BY <1>20
  <2>3. \A n \in Upto(g, b[1]) + 1 .. g.last[f] : n \in 1 .. N
    BY <1>3, <1>4, <2>2, ByteHasPage DEF Ordered
  <2>. QED BY <1>6, <1>8, <1>10, <2>1, <2>2, <2>3 DEF ReadBack
<1>22. Masks(h)'
  <2>1. \A b \in Byte : \A n \in Upto(g, b[1]) + 1 .. g.rendered : n \in 1 .. N
    BY <1>3, ByteHasPage DEF Ordered
  <2>2. h.step = g.step /\ h.direct = g.direct /\ h.rendered = g.rendered /\ Masks(g)
    BY <1>1 DEF Inductive
  <2>. QED BY <1>8, <1>10, <1>12, <1>13, <2>1, <2>2 DEF Masks
<1>23. Overdue(h)'
  <2>1. /\ \A b \in Byte : \A n \in Upto(g, b[1]) + 1 .. g.rendered : n \in 1 .. N
        /\ \A n \in g.rendered + 1 .. Recorded : n \in 1 .. N
        /\ rpc # "idle" => pass \in 1 .. N
        /\ g.rendered \in 0 .. N
    <3>1. rpc # "idle" => pass \in 1 .. N
      BY DEF Inductive, Queued, TypeOK
    <3>. QED BY <1>3, <3>1, ByteHasPage DEF Ordered
  <2>2. h.rendered = g.rendered /\ Overdue(g) /\ UNCHANGED <<mask, rdram, rpc, pass, page_to_masked_copy>>
    BY <1>1, <1>12 DEF Inductive
  <2>3. \A b \in Byte : Stale(h, b)' <=> Stale(g, b)
    BY <1>6, <2>1, <2>2 DEF Stale
  <2>4. \A p, m, n : Until(h, p, m, n) <=> Until(g, p, m, n)
    BY <1>1 DEF Until
  <2>. QED BY <1>10, <1>12, <1>13, <2>1, <2>2, <2>3, <2>4 DEF Overdue
<1>24. Staged(h)'
  <2>1. h.rendered = g.rendered /\ Staged(g) /\ UNCHANGED <<staging, rpc, pass, todo>>
        /\ Resolved' = Resolved
    BY <1>1, <1>12 DEF Inductive
  <2>2. \A n \in g.rendered + 1 .. Resolved : n \in 1 .. N /\ n - 1 \in 0 .. N
    BY <1>3 DEF Ordered
  <2>3. \A n \in 1 .. N : \A b : Kept(g, b, n) => Kept(h, b, n)'
    <3>1. \A n \in 1 .. N : \A m \in 1 .. n - 1 : m \in 1 .. N
      BY <1>4
    <3>2. h.rendered = g.rendered /\ h.direct = g.direct /\ mask' = mask
      BY <1>1, <1>12
    <3>. QED BY <1>8, <3>1, <3>2 DEF Kept, Until
  <2>4. \A n \in 1 .. N : Touched(passes, n) \in SUBSET Byte
    BY PassType
  <2>. QED BY <1>6, <1>10, <2>1, <2>2, <2>3, <2>4 DEF Staged
<1>25. Ready(h)'
  <2>1. g.step # 0 => g.rendered + 1 \in 1 .. N /\ g.rendered \in 0 .. N
    BY <1>3 DEF Ordered
  <2>2. h.step = g.step /\ h.rendered = g.rendered /\ h.direct = g.direct /\ rdram' = rdram /\ Ready(g)
    BY <1>1, <1>12 DEF Inductive
  <2>3. \A n \in 1 .. N : Touched(passes, n) \in SUBSET Byte
    BY PassType
  <2>. QED BY <1>6, <1>10, <2>1, <2>2, <2>3 DEF Ready
<1>26. /\ Submitted(h)' /\ Rendered(h)' /\ Arrived(h)' /\ Streamed(h)' /\ Opened(h)'
       /\ Signals(h)' /\ Tallied(h)'
  BY <1>1, <1>12, SubmittedFrame, RenderedFrame, ArrivedFrame, StreamedFrame, OpenedFrame,
     SignalsFrame, TalliedFrame
  DEF Inductive
<1>. QED BY <1>5, <1>14, <1>15, <1>16, <1>17, <1>18, <1>19, <1>21, <1>22, <1>23, <1>24, <1>25, <1>26
         DEF Inductive

(* A page that is not pending has nothing on its way, from any recorded pass. *)
LEMMA NothingPending ==
    ASSUME TypeOK, NEW g \in Ghost, Inductive(g), Resolved = Recorded, NEW p \in Page, ~Pending(p),
           NEW m \in 1 .. Recorded, Dirties(passes, m, p)
    PROVE  m <= Upto(g, p)
<1>1. Ordered(g)
  BY HowFar
<1>2. p \notin page_to_pending_readback /\ pending_writes[p] = 0
  BY DEF Pending
<1>3. m \in 1 .. g.last[submits]
  <2>1. m \notin g.last[submits] + 1 .. Recorded
    BY <1>2 DEF Inductive, Marked
  <2>. QED BY <1>1, <2>1 DEF Ordered
<1>. PICK f : f = g.sub[m]
  OBVIOUS
<1>4. f \in 1 .. submits /\ m \in g.last[f - 1] + 1 .. g.last[f] /\ p \in Locked(passes, g, f)
  BY <1>3 DEF Inductive, Submitted, Locked
<1>. SUFFICES ASSUME m > Upto(g, p) PROVE FALSE
  BY <1>1 DEF Ordered
<1>5. g.here[p] \in 0 .. submits /\ f - 1 \in 0 .. submits /\ f \in 0 .. submits /\ submits \in 0 .. submits
  BY <1>1, <1>4 DEF Ordered
<1>6. g.here[p] <= f - 1
  <2>1. f <= g.here[p] => g.last[f] <= Upto(g, p)
    BY <1>1, <1>5 DEF Ordered, Upto
  <2>2. g.last[f] \in Nat /\ Upto(g, p) \in Nat
    BY <1>1, <1>5 DEF Ordered
  <2>3. ~(f <= g.here[p])
    BY <1>4, <2>1, <2>2
  <2>. QED BY <1>5, <2>3
<1>7. /\ g.count[p][g.here[p]] <= g.count[p][f - 1]
      /\ g.count[p][f] = g.count[p][f - 1] + 1
      /\ g.count[p][f] <= g.count[p][submits]
  <2>1. f <= submits /\ Counts(g)
    BY <1>4 DEF Inductive
  <2>. QED BY <1>4, <1>5, <1>6, <2>1 DEF Counts
<1>8. /\ g.count[p][g.here[p]] \in Nat /\ g.count[p][f - 1] \in Nat /\ g.count[p][f] \in Nat
      /\ g.count[p][submits] \in Nat
  BY <1>5 DEF Ghost
<1>9. g.count[p][submits] - g.count[p][g.here[p]] = 0
  BY <1>2 DEF Inductive, Tallied
<1>. QED BY <1>7, <1>8, <1>9

(* A stale byte of a pending page is to be overwritten by a recorded pass. *)
LEMMA StaleIsDue ==
    ASSUME TypeOK, NEW g \in Ghost, Inductive(g), Resolved = Recorded,
           NEW b \in Byte, Stale(g, b), Pending(b[1])
    PROVE  Until(g, b[1], g.rendered, Recorded)
<1>. PICK p : p = b[1]
  OBVIOUS
<1>1. Ordered(g) /\ p \in Page
  BY HowFar, ByteHasPage
<1>2. /\ \A n \in Upto(g, p) + 1 .. g.rendered : ~Dirties(passes, n, p)
      /\ \A n \in g.rendered + 1 .. Recorded : Concerns(passes, n, b) => Until(g, p, g.rendered, n)
  BY DEF Inductive, Overdue
<1>3. ASSUME NEW n \in g.rendered + 1 .. Recorded, Dirties(passes, n, p)
      PROVE  Until(g, p, g.rendered, Recorded)
  <2>1. Until(g, p, g.rendered, n)
    BY <1>2, <1>3 DEF Concerns
  <2>. QED BY <1>1, <2>1 DEF Until, Ordered
<1>4. CASE p \in page_to_pending_readback
  <2>1. PICK n \in g.last[submits] + 1 .. Recorded : Dirties(passes, n, p)
    BY <1>4 DEF Inductive, Marked
  <2>2. n \in g.rendered + 1 .. Recorded
    <3>1. submits \in Nat /\ g.last[submits] \in Nat
      BY <1>1 DEF Ordered
    <3>. QED BY <1>1, <3>1 DEF Ordered
  <2>. QED BY <1>3, <2>1, <2>2
<1>5. CASE pending_writes[p] # 0
  <2>1. g.count[p][g.here[p]] # g.count[p][submits]
    <3>1. g.count[p][g.here[p]] \in Nat /\ g.count[p][submits] \in Nat
      BY <1>1 DEF Ghost, Ordered
    <3>2. pending_writes[p] = g.count[p][submits] - g.count[p][g.here[p]]
      BY <1>1 DEF Inductive, Tallied
    <3>. QED BY <1>5, <3>1, <3>2
  <2>2. /\ g.here[p] \in 0 .. submits /\ submits \in 0 .. submits /\ g.here[p] <= submits
        /\ g.here[p] \in Nat /\ submits \in Nat
    BY <1>1 DEF Ordered
  <2>3. PICK f \in g.here[p] + 1 .. submits : p \in Locked(passes, g, f)
    BY <1>1, <2>1, <2>2 DEF Inductive, Counts
  <2>4. PICK n \in g.last[f - 1] + 1 .. g.last[f] : Dirties(passes, n, p)
    BY <2>3 DEF Locked
  <2>5. f \in 0 .. submits /\ f - 1 \in 0 .. submits /\ g.here[p] <= f - 1 /\ f <= submits
    BY <2>2
  <2>6. Upto(g, p) <= g.last[f - 1] /\ g.last[f] <= g.last[submits]
    BY <1>1, <2>2, <2>5 DEF Ordered, Upto
  <2>7. g.last[f - 1] \in Nat /\ g.last[f] \in Nat /\ g.last[submits] \in Nat /\ Upto(g, p) \in Nat
    BY <1>1, <2>2, <2>5 DEF Ordered
  <2>8. n \in Upto(g, p) + 1 .. Recorded
    BY <1>1, <2>6, <2>7 DEF Ordered
  <2>9. n \in g.rendered + 1 .. Recorded
    BY <1>1, <1>2, <2>4, <2>7, <2>8 DEF Ordered
  <2>. QED BY <1>3, <2>4, <2>9
<1>. QED BY <1>4, <1>5 DEF Pending

LEMMA SignalKeeps ==
    ASSUME TypeOK, NEW g \in Ghost, Inductive(g), Signal PROVE Inductive(g)'
<1>1. /\ queue' = Append(queue, [op |-> "signal", n |-> N])
      /\ UNCHANGED <<memory, marks, pending_writes, renderer, cmd, submits, gpu, worker, history>>
  BY DEF Signal, N
<1>2. /\ Recorded' = Recorded /\ Resolved' = Resolved /\ N' = N
      /\ UNCHANGED <<host, staging, rdram, mask, page_to_direct_copy, page_to_masked_copy,
                     page_to_pending_readback, pending_writes, rpc, pass, todo, cmd, stream, submits,
                     gpu_done, staging_readback, ops, copies, timeline, passes, truth>>
  BY <1>1 DEF Recorded, Resolved, N, memory, marks, renderer, gpu, worker, history
<1>3. Queued'
  <2>. PICK c : c = [op |-> "signal", n |-> N]
    OBVIOUS
  <2>1. Step(c) = 0 /\ c.n = N' /\ N' = N + Step(c)
    BY <1>2 DEF Step, TypeOK, N
  <2>. QED BY <1>1, <1>2, <2>1, QueueGrows DEF Inductive
<1>4. /\ Valued(g)' /\ Remembered(g)' /\ Submitted(g)' /\ Rendered(g)' /\ Arrived(g)' /\ Streamed(g)'
      /\ Opened(g)' /\ Fenced(g)' /\ Signals(g)' /\ Counts(g)' /\ Tallied(g)'
  BY <1>2, ValuedFrame, RememberedFrame, SubmittedFrame, RenderedFrame, ArrivedFrame, StreamedFrame,
     OpenedFrame, FencedFrame, SignalsFrame, CountsFrame, TalliedFrame
  DEF Inductive
<1>5. /\ Marked(g)' /\ Safe(g)' /\ HostHas(g)' /\ ReadBack(g)' /\ Masks(g)' /\ Overdue(g)' /\ Staged(g)'
      /\ Ready(g)'
  BY <1>2, MarkedFrame, SafeFrame, HostHasFrame, ReadBackFrame, MasksFrame, OverdueFrame, StagedFrame,
     ReadyFrame
  DEF Inductive
<1>. QED BY <1>3, <1>4, <1>5 DEF Inductive

LEMMA LoadTileKeeps ==
    ASSUME TypeOK, NEW g \in Ghost, Inductive(g), LoadTile PROVE Inductive(g)'
<1>. DEFINE P == Pages(passes[Head(queue).n].reads)
<1>1. /\ rpc = "idle" /\ rpc' = "flush" /\ queue # <<>> /\ queue' = Tail(queue)
      /\ Head(queue).op = "draw" /\ pass' = Head(queue).n
      /\ Mark(P)
      /\ UNCHANGED <<memory, page_to_pending_readback, pending_writes, todo, cmd, submits, gpu,
                     worker, history>>
  BY DEF LoadTile
<1>2. /\ N' = N
      /\ UNCHANGED <<host, staging, rdram, mask, page_to_pending_readback, pending_writes, todo, cmd,
                     stream, submits, gpu_done, staging_readback, ops, copies, timeline, passes, truth>>
  BY <1>1 DEF N, memory, gpu, worker, history
<1>3. Queued' /\ pass' = pass + 1 /\ pass' \in 1 .. N
  <2>1. Head(queue) = queue[1] /\ pass \in Nat
    BY <1>1 DEF TypeOK
  <2>2. pass' = pass + Step(queue[1]) /\ Step(queue[1]) = 1
    BY <1>1, <2>1 DEF Inductive, Queued, Step
  <2>3. pass' = pass + 1 /\ pass' > 0
    BY <2>1, <2>2
  <2>4. Queued' /\ pass' \in 0 .. N
    BY <1>1, <1>2, <2>2, <2>3, QueueShrinks DEF Inductive
  <2>. QED BY <2>3, <2>4 DEF TypeOK, N
<1>4. Recorded' = pass /\ Recorded = pass /\ Resolved' = pass /\ Resolved = pass
  BY <1>1, <1>3 DEF Recorded, Resolved, TypeOK
<1>5. Ordered(g)
  BY HowFar
<1>6. /\ Valued(g)' /\ Remembered(g)' /\ Submitted(g)' /\ Rendered(g)' /\ Arrived(g)' /\ Streamed(g)'
      /\ Opened(g)' /\ Fenced(g)' /\ Signals(g)' /\ Counts(g)' /\ Tallied(g)'
  <2>1. Recorded' = Recorded
    BY <1>4
  <2>. QED BY <1>2, <2>1, ValuedFrame, RememberedFrame, SubmittedFrame, RenderedFrame, ArrivedFrame,
              StreamedFrame, OpenedFrame, FencedFrame, SignalsFrame, CountsFrame, TalliedFrame
           DEF Inductive
<1>7. HostHas(g)' /\ ReadBack(g)' /\ Masks(g)' /\ Ready(g)'
  BY <1>2, HostHasFrame, ReadBackFrame, MasksFrame, ReadyFrame DEF Inductive
<1>8. page_to_direct_copy = {} /\ page_to_masked_copy = {}
  BY <1>1 DEF Inductive, Marked
<1>9. /\ page_to_direct_copy' = {p \in P : ~Pending(p)}
      /\ page_to_masked_copy' = {p \in P : Pending(p)}
      /\ \A b \in passes[pass'].reads : b[1] \in P
  BY <1>1, <1>8 DEF Mark, Pages
<1>. HIDE DEF P
<1>10. Marked(g)'
  <2>1. \A b \in passes'[pass'].reads : b[1] \in page_to_direct_copy' \union page_to_masked_copy'
    BY <1>2, <1>9
  <2>2. Marked(g) /\ Resolved' = Resolved /\ rpc' = "flush"
    BY <1>1, <1>4 DEF Inductive
  <2>. QED BY <1>2, <2>1, <2>2 DEF Marked
<1>11. Safe(g)'
  <2>1. ASSUME NEW p \in page_to_direct_copy', NEW m \in 1 .. Recorded, Dirties(passes, m, p)
        PROVE  m <= Upto(g, p)
    <3>1. ~Pending(p) /\ Resolved = Recorded /\ p \in P
      BY <1>4, <1>9, <2>1
    <3>2. P \in SUBSET Page
      BY <1>1, <1>3, PassType, ByteHasPage DEF P, Pages
    <3>. QED BY <2>1, <3>1, <3>2, NothingPending
  <2>2. Safe(g) /\ Resolved' = Resolved /\ Recorded' = Recorded
    BY <1>4 DEF Inductive
  <2>. QED BY <1>2, <2>1, <2>2 DEF Safe
<1>12. Overdue(g)'
  <2>1. \A b \in Byte : Stale(g, b)' <=> Stale(g, b)
    BY <1>2 DEF Stale
  <2>2. ASSUME NEW b \in Byte, Stale(g, b), b[1] \in page_to_masked_copy'
        PROVE  Until(g, b[1], g.rendered, Recorded)
    <3>1. Pending(b[1]) /\ Resolved = Recorded
      BY <1>4, <1>9, <2>2
    <3>. QED BY <2>2, <3>1, StaleIsDue
  <2>3. Overdue(g) /\ Recorded' = Recorded
    BY <1>4 DEF Inductive
  <2>. QED BY <1>2, <2>1, <2>2, <2>3 DEF Overdue
<1>13. Staged(g)'
  <2>1. \A b, n : Kept(g, b, n)' <=> Kept(g, b, n)
    BY <1>2 DEF Kept
  <2>2. Staged(g) /\ Resolved' = Resolved /\ rpc = "idle"
    BY <1>1, <1>4 DEF Inductive
  <2>. QED BY <1>2, <2>1, <2>2 DEF Staged
<1>. QED BY <1>3, <1>6, <1>7, <1>10, <1>11, <1>12, <1>13 DEF Inductive

(* A page is masked as soon as it is pending once; copies that arrive in   *)
(* between only make the direct copies safer.                              *)
LEMMA LockKeeps ==
    ASSUME TypeOK, NEW g \in Ghost, Inductive(g), Lock PROVE \E h \in Ghost : Inductive(h)'
<1>. DEFINE W == Pages(passes[pass].writes)
<1>1. /\ rpc = "flush" /\ rpc' = "resolve"
      /\ Mark(W)
      /\ page_to_pending_readback' = page_to_pending_readback \union W
      /\ todo' = page_to_direct_copy' \union page_to_masked_copy'
      /\ UNCHANGED <<memory, pending_writes, queue, pass, cmd, submits, gpu, worker, history>>
  BY DEF Lock
<1>2. /\ N' = N
      /\ UNCHANGED <<host, staging, rdram, mask, pending_writes, queue, pass, cmd, stream, submits,
                     gpu_done, staging_readback, ops, copies, timeline, passes, truth>>
  BY <1>1 DEF N, memory, gpu, worker, history
<1>3. Ordered(g) /\ pass \in 1 .. N /\ N \in Nat
  <2>1. Ordered(g) /\ pass \in Nat /\ N \in Nat
    BY HowFar DEF TypeOK, Ordered
  <2>2. pass <= N /\ pass > 0
    BY <1>1 DEF Inductive, Queued
  <2>. QED BY <2>1, <2>2
<1>4. Recorded = pass - 1 /\ Recorded' = pass - 1 /\ Resolved = pass - 1 /\ Resolved' = pass
  BY <1>1, <1>2 DEF Recorded, Resolved
<1>5. page_to_direct_copy' \in SUBSET Page /\ page_to_masked_copy' \in SUBSET Page
  <2>1. W \in SUBSET Page
    BY <1>3, PassType, ByteHasPage DEF Pages
  <2>. QED BY <1>1, <2>1 DEF Mark, TypeOK
<1>h. PICK h : h = [g EXCEPT !.direct = [g.direct EXCEPT ![pass] = page_to_direct_copy' \ page_to_masked_copy'],
                            !.masked = [g.masked EXCEPT ![pass] = page_to_masked_copy']]
  OBVIOUS
<1>6. /\ h.val = g.val /\ h.last = g.last /\ h.sub = g.sub /\ h.here = g.here /\ h.count = g.count
      /\ h.done = g.done /\ h.rendered = g.rendered /\ h.step = g.step
  BY <1>h DEF Ghost
<1>7. /\ h.direct = [g.direct EXCEPT ![pass] = page_to_direct_copy' \ page_to_masked_copy']
      /\ h.masked = [g.masked EXCEPT ![pass] = page_to_masked_copy']
  BY <1>h DEF Ghost
<1>8. h \in Ghost
  BY <1>5, <1>7, <1>h DEF Ghost
<1>9. /\ \A n \in Nat : n # pass => h.direct[n] = g.direct[n] /\ h.masked[n] = g.masked[n]
      /\ h.direct[pass] = page_to_direct_copy' \ page_to_masked_copy'
      /\ h.masked[pass] = page_to_masked_copy'
  BY <1>3, <1>7 DEF Ghost
<1>10. \A n \in Nat : n < pass => /\ h.direct[n] = g.direct[n] /\ h.masked[n] = g.masked[n]
  BY <1>3, <1>9
<1>11. \A p, m, n : n \in Nat /\ m \in Nat /\ n < pass => (Until(h, p, m, n) <=> Until(g, p, m, n))
  BY <1>3, <1>6, <1>10 DEF Until
<1>12. \A p : Upto(h, p) = Upto(g, p)
  BY <1>6 DEF Upto
<1>13. /\ Queued' /\ Valued(h)' /\ Remembered(h)' /\ Submitted(h)' /\ Rendered(h)' /\ Arrived(h)'
       /\ Fenced(h)' /\ Signals(h)' /\ Counts(h)' /\ Tallied(h)' /\ HostHas(h)' /\ ReadBack(h)'
  <2>1. Recorded' = Recorded
    BY <1>4
  <2>2. Queued'
    BY <1>1, <1>2 DEF Inductive, Queued, N
  <2>. QED BY <1>2, <1>6, <2>1, <2>2, ValuedFrame, RememberedFrame, SubmittedFrame, RenderedFrame,
              ArrivedFrame, FencedFrame, SignalsFrame, CountsFrame, TalliedFrame, HostHasFrame, ReadBackFrame
           DEF Inductive
<1>14. Streamed(h)' /\ Opened(h)'
  <2>1. Streamed(g) /\ Opened(g)
    BY DEF Inductive
  <2>2. \A c : c.n \in Nat /\ c.n < pass => (Carries(h, c) <=> Carries(g, c))
    BY <1>10 DEF Carries
  <2>3. /\ \A i \in 1 .. Len(stream) : stream[i] \in Commands
        /\ \A i \in 1 .. Len(cmd) : cmd[i] \in Commands
    BY DEF TypeOK
  <2>4. /\ \A c, d : Follows(h, submits, c, d) <=> Follows(g, submits, c, d)
        /\ \A c : IsNext(h, gpu_done, c) <=> IsNext(g, gpu_done, c)
    BY <1>6 DEF Follows, IsNext
  <2>5. \A i \in 1 .. Len(stream) : Carries(h, stream[i])
    <3>. SUFFICES ASSUME NEW i \in 1 .. Len(stream) PROVE Carries(h, stream[i])
      OBVIOUS
    <3>1. CASE stream[i].op = "end"
      BY <3>1 DEF Carries
    <3>2. CASE stream[i].op # "end"
      <4>1. stream[i].n \in Nat /\ stream[i].n <= g.last[submits]
        BY <2>1, <2>3, <3>2 DEF Streamed, Commands
      <4>2. g.last[submits] \in Nat /\ g.last[submits] <= pass - 1
        BY <1>3, <1>4 DEF Ordered
      <4>. QED BY <1>3, <2>1, <2>2, <4>1, <4>2 DEF Streamed
    <3>. QED BY <3>1, <3>2
  <2>6. \A i \in 1 .. Len(cmd) : Carries(h, cmd[i])
    <3>. SUFFICES ASSUME NEW i \in 1 .. Len(cmd) PROVE Carries(h, cmd[i])
      OBVIOUS
    <3>1. cmd[i].n \in Nat /\ cmd[i].n <= pass - 1
      BY <1>4, <2>1, <2>3 DEF Opened, Commands
    <3>. QED BY <1>3, <2>1, <2>2, <3>1 DEF Opened
  <2>7. Streamed(h)'
    BY <1>2, <1>6, <2>1, <2>4, <2>5 DEF Streamed
  <2>8. Opened(h)'
    <3>1. Recorded' = Recorded
      BY <1>4
    <3>. QED BY <1>2, <1>6, <2>1, <2>4, <2>6, <3>1 DEF Opened
  <2>. QED BY <2>7, <2>8
<1>15. ASSUME NEW b \in Byte, b \in Touched(passes, pass)
       PROVE  b[1] \in page_to_direct_copy' \union page_to_masked_copy'
  <2>1. CASE b \in passes[pass].reads
    BY <1>1, <2>1 DEF Inductive, Marked, Mark
  <2>2. CASE b \in passes[pass].writes
    <3>1. b[1] \in W
      BY <2>2 DEF Pages
    <3>. QED BY <1>1, <3>1 DEF Mark
  <2>. QED BY <1>15, <2>1, <2>2 DEF Touched
<1>16. Marked(h)'
  <2>1. Marked(g)
    BY DEF Inductive
  <2>2. page_to_pending_readback' = {p \in Page : \E n \in g.last[submits] + 1 .. pass : Dirties(passes, n, p)}
    <3>1. W = {p \in Page : Dirties(passes, pass, p)}
      BY <1>3, PassType, ByteHasPage DEF Pages, Dirties
    <3>2. page_to_pending_readback = {p \in Page : \E n \in g.last[submits] + 1 .. pass - 1 : Dirties(passes, n, p)}
      BY <1>4, <2>1 DEF Marked
    <3>3. /\ g.last[submits] \in Nat /\ g.last[submits] <= pass - 1
          /\ \A n : n \in g.last[submits] + 1 .. pass <=> n \in g.last[submits] + 1 .. pass - 1 \/ n = pass
      <4>1. g.last[submits] \in Nat /\ g.last[submits] <= pass - 1
        BY <1>3, <1>4 DEF Ordered
      <4>. QED BY <1>3, <4>1
    <3>. HIDE DEF W
    <3>. QED BY <1>1, <3>1, <3>2, <3>3
  <2>3. ASSUME NEW n \in g.rendered + 1 .. pass, NEW b \in Touched(passes, n)
        PROVE  b[1] \in h.direct[n] \union h.masked[n]
    <3>1. n \in Nat /\ n \in 1 .. N /\ b \in Byte
      BY <1>3, PassType DEF Ordered
    <3>2. CASE n = pass
      BY <1>9, <1>15, <3>1, <3>2
    <3>3. CASE n # pass
      <4>1. n \in g.rendered + 1 .. Resolved /\ n < pass
        BY <1>3, <1>4, <3>1, <3>3 DEF Ordered
      <4>. QED BY <1>10, <2>1, <3>1, <4>1 DEF Marked
    <3>. QED BY <3>2, <3>3
  <2>. QED BY <1>1, <1>2, <1>4, <1>6, <1>9, <2>2, <2>3 DEF Marked
<1>17. ASSUME NEW p \in page_to_direct_copy', NEW m \in 1 .. pass - 1, Dirties(passes, m, p)
       PROVE  m <= Upto(g, p)
  <2>1. CASE p \in page_to_direct_copy
    BY <1>4, <1>17, <2>1 DEF Inductive, Safe
  <2>2. CASE p \notin page_to_direct_copy
    <3>1. p \in Page /\ ~Pending(p) /\ Resolved = Recorded /\ m \in 1 .. Recorded
      BY <1>1, <1>4, <1>5, <2>2 DEF Mark
    <3>. QED BY <1>17, <3>1, NothingPending
  <2>. QED BY <2>1, <2>2
<1>18. Safe(h)'
  <2>1. ASSUME NEW n \in g.rendered + 1 .. pass, NEW p \in h.direct[n], NEW m \in 1 .. n - 1,
               Dirties(passes, m, p)
        PROVE  m <= Upto(g, p)
    <3>1. CASE n = pass
      BY <1>9, <1>17, <2>1, <3>1
    <3>2. CASE n # pass
      <4>1. n \in g.rendered + 1 .. Resolved /\ n < pass /\ n \in Nat
        BY <1>3, <1>4, <3>2 DEF Ordered
      <4>. QED BY <1>10, <2>1, <4>1 DEF Inductive, Safe
    <3>. QED BY <3>1, <3>2
  <2>. QED BY <1>2, <1>4, <1>6, <1>12, <1>17, <2>1 DEF Safe
<1>19. Masks(h)'
  <2>1. Masks(g)
    BY DEF Inductive
  <2>2. g.step = 2 => h.direct[g.rendered + 1] = g.direct[g.rendered + 1]
    <3>1. g.step = 2 => g.rendered + 1 < pass /\ g.rendered + 1 \in Nat
      BY <1>3, <1>4 DEF Ordered
    <3>. QED BY <1>10, <3>1
  <2>. QED BY <1>2, <1>6, <1>12, <2>1, <2>2 DEF Masks
<1>20. Overdue(h)'
  <2>1. \A b \in Byte : Stale(h, b)' <=> Stale(g, b)
    BY <1>2, <1>6 DEF Stale
  <2>2. ASSUME NEW b \in Byte, Stale(g, b), b[1] \in page_to_masked_copy', Concerns(passes, pass, b)
        PROVE  Until(g, b[1], g.rendered, Recorded)
    <3>1. CASE b[1] \in page_to_masked_copy
      BY <1>1, <2>2, <3>1 DEF Inductive, Overdue
    <3>2. CASE b[1] \notin page_to_masked_copy
      <4>1. Pending(b[1]) /\ Resolved = Recorded
        BY <1>1, <1>4, <2>2, <3>2 DEF Mark
      <4>. QED BY <2>2, <4>1, StaleIsDue
    <3>. QED BY <3>1, <3>2
  <2>3. g.rendered \in Nat /\ Recorded \in Nat /\ Recorded < pass
        /\ \A n \in g.rendered + 1 .. Recorded : n \in Nat /\ n < pass
    BY <1>3, <1>4 DEF Ordered
  <2>4. /\ \A p : Until(h, p, g.rendered, Recorded) <=> Until(g, p, g.rendered, Recorded)
        /\ \A n \in g.rendered + 1 .. Recorded : \A p :
               Until(h, p, g.rendered, n) <=> Until(g, p, g.rendered, n)
    BY <1>11, <2>3
  <2>5. Overdue(g) /\ Recorded' = Recorded /\ h.rendered = g.rendered /\ UNCHANGED <<passes, pass>>
    BY <1>2, <1>4, <1>6 DEF Inductive
  <2>. QED BY <1>12, <2>1, <2>2, <2>4, <2>5 DEF Overdue
<1>21. Staged(h)'
  <2>1. Staged(g) /\ h.rendered = g.rendered /\ h.val = g.val
    BY <1>6 DEF Inductive
  <2>2. ASSUME NEW n \in g.rendered + 1 .. pass, NEW b \in Touched(passes, n),
               ~(n = pass /\ b[1] \in todo')
        PROVE  staging[b] = g.val[b][n - 1] \/ Kept(h, b, n)'
    <3>1. n \in 1 .. N /\ b \in Byte /\ n \in Nat
      BY <1>3, PassType DEF Ordered
    <3>2. n # pass
      BY <1>1, <1>15, <2>2, <3>1
    <3>3. n \in g.rendered + 1 .. Resolved /\ n < pass
      BY <1>3, <1>4, <3>1, <3>2 DEF Ordered
    <3>4. staging[b] = g.val[b][n - 1] \/ Kept(g, b, n)
      BY <1>1, <2>1, <3>3 DEF Staged
    <3>5. \A m \in 1 .. n - 1 : Until(h, b[1], m, n) <=> Until(g, b[1], m, n)
      BY <1>11, <3>1, <3>3
    <3>6. Kept(g, b, n) => Kept(h, b, n)'
      BY <1>2, <2>1, <3>5 DEF Kept
    <3>. QED BY <3>4, <3>6
  <2>. QED BY <1>1, <1>2, <1>4, <2>1, <2>2 DEF Staged
<1>22. Ready(h)'
  <2>1. Ready(g)
    BY DEF Inductive
  <2>2. g.step # 0 => h.direct[g.rendered + 1] = g.direct[g.rendered + 1]
    <3>1. g.step # 0 => g.rendered + 1 < pass /\ g.rendered + 1 \in Nat
      BY <1>3, <1>4 DEF Ordered
    <3>. QED BY <1>10, <3>1
  <2>. QED BY <1>2, <1>6, <2>1, <2>2 DEF Ready
<1>. QED BY <1>8, <1>13, <1>14, <1>16, <1>18, <1>19, <1>20, <1>21, <1>22 DEF Inductive

(* The copy of a page sends what the host has: the latest, or what the GPU *)
(* will not take because it has a newer byte itself.                       *)
LEMMA ResolvePageKeeps ==
    ASSUME ~Mapped, TypeOK, NEW g \in Ghost, Inductive(g), NEW p \in Page, ResolvePage(p)
    PROVE  Inductive(g)'
<1>1. /\ rpc = "resolve" /\ todo' = todo \ {p} /\ staging' = Overlay(staging, Bytes({p}), host)
      /\ UNCHANGED <<rdram, mask, host, marks, pending_writes, queue, rpc, pass, cmd, submits, gpu,
                     worker, history>>
  BY DEF ResolvePage
<1>2. /\ N' = N /\ Recorded' = Recorded /\ Resolved' = Resolved
      /\ UNCHANGED <<rdram, mask, host, page_to_direct_copy, page_to_masked_copy, page_to_pending_readback,
                     pending_writes, queue, rpc, pass, cmd, stream, submits, gpu_done, staging_readback,
                     ops, copies, timeline, passes, truth>>
  BY <1>1 DEF N, Recorded, Resolved, marks, gpu, worker, history
<1>3. Ordered(g)
  BY HowFar
<1>4. \A b \in Byte : staging'[b] = IF b[1] = p THEN host[b] ELSE staging[b]
  <2>1. {p} \in SUBSET Page
    OBVIOUS
  <2>. QED BY <1>1, <2>1, ByteHasPage DEF Overlay
<1>5. ASSUME NEW n \in g.rendered + 1 .. Resolved, NEW b \in Touched(passes, n), b[1] = p
      PROVE  staging'[b] = g.val[b][n - 1] \/ Kept(g, b, n)
  <2>1. n \in 1 .. N /\ b \in Byte
    BY <1>3, PassType DEF Ordered
  <2>2. staging'[b] = g.val[b][Upto(g, p)]
    BY <1>4, <1>5, <2>1 DEF Inductive, HostHas
  <2>3. Upto(g, p) \in 0 .. N /\ Upto(g, p) <= g.rendered /\ n - 1 \in 0 .. N /\ Upto(g, p) <= n - 1
    BY <1>3, <2>1 DEF Ordered
  <2>4. CASE Alone(passes, b, Upto(g, p), n - 1)
    BY <2>1, <2>2, <2>3, <2>4 DEF Inductive, Valued
  <2>5. CASE ~Alone(passes, b, Upto(g, p), n - 1)
    <3>1. PICK m \in Upto(g, p) + 1 .. n - 1 : b \in passes[m].writes
      BY <2>5 DEF Alone
    <3>2. m \in 1 .. n - 1 /\ m > Upto(g, p) /\ Dirties(passes, m, p)
      BY <1>5, <2>3, <3>1 DEF Dirties
    <3>3. m > g.rendered \/ b \in mask
      <4>1. m <= g.rendered => m \in Upto(g, p) + 1 .. g.rendered
        BY <1>3, <3>1 DEF Ordered
      <4>. QED BY <1>3, <1>5, <2>1, <3>1, <3>2, <4>1 DEF Inductive, Masks, Ordered
    <3>4. ASSUME NEW j \in m + 1 .. n, j > g.rendered, p \in g.direct[j] PROVE FALSE
      <4>1. j \in g.rendered + 1 .. Resolved /\ m \in 1 .. j - 1
        BY <1>3, <3>2, <3>4 DEF Ordered
      <4>2. m <= Upto(g, p)
        BY <3>2, <3>4, <4>1 DEF Inductive, Safe
      <4>. QED BY <2>3, <3>2, <4>2
    <3>. QED BY <1>5, <3>1, <3>2, <3>3, <3>4 DEF Kept, Until
  <2>. QED BY <2>4, <2>5
<1>6. Staged(g)'
  <2>1. \A b, n : Kept(g, b, n)' <=> Kept(g, b, n)
    BY <1>2 DEF Kept
  <2>2. ASSUME NEW n \in g.rendered + 1 .. Resolved, NEW b \in Touched(passes, n), b[1] # p
        PROVE  staging'[b] = staging[b] /\ (b[1] \in todo' <=> b[1] \in todo)
    <3>1. b \in Byte
      BY <1>3, PassType DEF Ordered
    <3>. QED BY <1>1, <1>4, <2>2, <3>1
  <2>3. Staged(g) /\ rpc' = rpc /\ pass' = pass /\ passes' = passes
    BY <1>2 DEF Inductive
  <2>. QED BY <1>2, <1>5, <2>1, <2>2, <2>3 DEF Staged
<1>7. /\ Valued(g)' /\ Remembered(g)' /\ Queued' /\ Submitted(g)' /\ Rendered(g)' /\ Arrived(g)'
      /\ Streamed(g)' /\ Opened(g)' /\ Fenced(g)' /\ Signals(g)' /\ Counts(g)' /\ Tallied(g)'
  BY <1>2, ValuedFrame, RememberedFrame, QueuedFrame, SubmittedFrame, RenderedFrame, ArrivedFrame,
     StreamedFrame, OpenedFrame, FencedFrame, SignalsFrame, CountsFrame, TalliedFrame
  DEF Inductive
<1>8. /\ Marked(g)' /\ Safe(g)' /\ HostHas(g)' /\ ReadBack(g)' /\ Masks(g)' /\ Overdue(g)' /\ Ready(g)'
  BY <1>2, MarkedFrame, SafeFrame, HostHasFrame, ReadBackFrame, MasksFrame, OverdueFrame, ReadyFrame
  DEF Inductive
<1>. QED BY <1>6, <1>7, <1>8 DEF Inductive

LEMMA RecordKeeps ==
    ASSUME ~Mapped, TypeOK, NEW g \in Ghost, Inductive(g), Record PROVE Inductive(g)'
<1>. DEFINE k == Len(cmd)
<1>. PICK c1 : c1 = [op |-> "masked", pages |-> page_to_masked_copy, n |-> pass]
  OBVIOUS
<1>. PICK c2 : c2 = [op |-> "copy", n |-> pass, pages |-> page_to_direct_copy \ page_to_masked_copy]
  OBVIOUS
<1>. PICK c3 : c3 = [op |-> "render", pages |-> {}, n |-> pass]
  OBVIOUS
<1>1. /\ rpc = "resolve" /\ todo = {} /\ rpc' = "idle"
      /\ cmd' = cmd \o <<c1, c2, c3>>
      /\ page_to_direct_copy' = {} /\ page_to_masked_copy' = {}
      /\ UNCHANGED <<memory, page_to_pending_readback, pending_writes, queue, pass, todo, submits,
                     gpu, worker, history>>
  BY DEF Record
<1>2. /\ N' = N
      /\ UNCHANGED <<host, staging, rdram, mask, page_to_pending_readback, pending_writes, queue, pass,
                     todo, stream, submits, gpu_done, staging_readback, ops, copies, timeline, passes,
                     truth>>
  BY <1>1 DEF N, memory, gpu, worker, history
<1>3. Ordered(g) /\ pass \in 1 .. N
  <2>1. Ordered(g) /\ pass \in Nat /\ N \in Nat
    BY HowFar DEF TypeOK, Ordered
  <2>2. pass <= N /\ pass > 0
    BY <1>1 DEF Inductive, Queued
  <2>. QED BY <2>1, <2>2
<1>4. Recorded = pass - 1 /\ Recorded' = pass /\ Resolved = pass /\ Resolved' = pass
  BY <1>1, <1>2 DEF Recorded, Resolved
<1>5. /\ k \in Nat /\ cmd' # <<>> /\ Len(cmd') = k + 3
      /\ cmd'[k + 1] = c1 /\ cmd'[k + 2] = c2 /\ cmd'[k + 3] = c3
      /\ \A i \in 1 .. k : cmd'[i] = cmd[i]
      /\ k = 0 <=> cmd = <<>>
  <2>1. cmd \in Seq(Commands)
    BY DEF TypeOK
  <2>. QED BY <1>1, <2>1
<1>6. /\ g.masked[pass] = page_to_masked_copy
      /\ g.direct[pass] = page_to_direct_copy \ page_to_masked_copy
  BY <1>1 DEF Inductive, Marked
<1>7. g.last[submits] \in Nat /\ g.last[submits] <= pass - 1
  BY <1>3, <1>4 DEF Ordered
<1>. HIDE DEF k
<1>8. Submitted(g)'
  <2>1. Submitted(g) /\ submits' = submits
    BY <1>2 DEF Inductive
  <2>. QED BY <1>3, <1>4, <1>5, <1>7, <2>1 DEF Submitted
<1>9. Opened(g)'
  <2>1. Opened(g)
    BY DEF Inductive
  <2>2. cmd'[1].op = "masked" /\ cmd'[1].n = g.last[submits] + 1
    <3>1. CASE k = 0
      <4>1. g.last[submits] = pass - 1
        BY <1>4, <1>5, <3>1 DEF Inductive, Submitted
      <4>. QED BY <1>3, <1>5, <3>1, <4>1
    <3>2. CASE k # 0
      BY <1>5, <2>1, <3>2 DEF Opened, k
    <3>. QED BY <3>1, <3>2
  <2>3. \A i \in 1 .. k + 3 : \/ i \in 1 .. k /\ cmd'[i] = cmd[i]
                              \/ i = k + 1 /\ cmd'[i] = c1
                              \/ i = k + 2 /\ cmd'[i] = c2
                              \/ i = k + 3 /\ cmd'[i] = c3
    BY <1>5
  <2>4. \A i \in 1 .. k : /\ Carries(g, cmd[i]) /\ cmd[i].op # "end"
                          /\ g.last[submits] < cmd[i].n /\ cmd[i].n <= pass - 1 /\ cmd[i].n \in Nat
    <3>1. \A i \in 1 .. k : cmd[i].n \in Nat
      <4>1. \A i \in 1 .. k : cmd[i] \in Commands
        BY DEF TypeOK, k
      <4>. QED BY <4>1 DEF Commands
    <3>. QED BY <1>4, <2>1, <3>1 DEF Opened, k
  <2>5. ASSUME NEW i \in 1 .. k + 3
        PROVE  /\ Carries(g, cmd'[i]) /\ cmd'[i].op # "end"
               /\ g.last[submits] < cmd'[i].n /\ cmd'[i].n <= pass
    <3>1. Carries(g, c1) /\ Carries(g, c2) /\ Carries(g, c3)
      BY <1>6 DEF Carries
    <3>2. CASE i \in 1 .. k /\ cmd'[i] = cmd[i]
      BY <1>3, <2>4, <3>2
    <3>3. c1.op # "end" /\ c1.n = pass /\ c2.op # "end" /\ c2.n = pass /\ c3.op # "end" /\ c3.n = pass
      OBVIOUS
    <3>4. g.last[submits] < pass /\ pass <= pass
      BY <1>3, <1>7
    <3>. QED BY <2>3, <3>1, <3>2, <3>3, <3>4
  <2>6. ASSUME NEW i \in 1 .. k + 2 PROVE Follows(g, submits, cmd'[i], cmd'[i + 1])
    <3>1. CASE i \in 1 .. k - 1
      <4>1. i \in 1 .. k /\ i + 1 \in 1 .. k
        BY <1>5, <3>1
      <4>. QED BY <1>5, <2>1, <3>1, <4>1 DEF Opened, k
    <3>2. CASE i = k
      <4>1. k # 0 /\ cmd # <<>> /\ k \in 1 .. k
        BY <1>5, <3>2
      <4>2. cmd[k].op = "render" /\ cmd[k].n = pass - 1
        BY <1>4, <2>1, <4>1 DEF Opened, k
      <4>3. \A f \in 0 .. submits : g.last[f] # pass - 1
        <5>1. g.last[submits] # pass - 1
          BY <1>4, <4>1 DEF Inductive, Submitted
        <5>2. \A f \in 0 .. submits : g.last[f] <= g.last[submits] /\ g.last[f] \in Nat
          BY <1>3 DEF Ordered
        <5>. QED BY <1>3, <1>7, <5>1, <5>2
      <4>. QED BY <1>3, <1>5, <3>2, <4>1, <4>2, <4>3 DEF Follows
    <3>3. CASE i = k + 1
      BY <1>5, <3>3 DEF Follows
    <3>4. CASE i = k + 2
      BY <1>5, <3>4 DEF Follows
    <3>. QED BY <1>5, <3>1, <3>2, <3>3, <3>4
  <2>7. (k + 3) - 1 = k + 2
    BY <1>5
  <2>8. submits' = submits /\ Recorded' = pass /\ Len(cmd') = k + 3
        /\ cmd'[k + 3].op = "render" /\ cmd'[k + 3].n = pass
    BY <1>2, <1>4, <1>5
  <2>. QED BY <2>2, <2>5, <2>6, <2>7, <2>8 DEF Opened
<1>10. Marked(g)' /\ Safe(g)'
  <2>1. Marked(g) /\ Safe(g) /\ Resolved' = Resolved /\ UNCHANGED <<passes, submits, page_to_pending_readback>>
    BY <1>2, <1>4 DEF Inductive
  <2>. QED BY <1>1, <2>1 DEF Marked, Safe
<1>11. Overdue(g)'
  <2>1. \A b \in Byte : Stale(g, b)' <=> Stale(g, b)
    BY <1>2 DEF Stale
  <2>2. ASSUME NEW b \in Byte, Stale(g, b), NEW n \in g.rendered + 1 .. pass, Concerns(passes, n, b)
        PROVE  Until(g, b[1], g.rendered, n)
    <3>1. g.rendered \in Nat /\ g.rendered <= pass - 1
      BY <1>3, <1>4 DEF Ordered
    <3>2. CASE n # pass
      <4>1. n \in g.rendered + 1 .. Recorded
        BY <1>3, <1>4, <3>1, <3>2
      <4>. QED BY <2>2, <4>1 DEF Inductive, Overdue
    <3>3. CASE n = pass
      <4>1. PICK c \in Touched(passes, pass) : c[1] = b[1]
        BY <2>2, <3>3 DEF Concerns, Dirties, Touched
      <4>2. pass \in g.rendered + 1 .. Resolved
        BY <1>3, <1>4, <3>1
      <4>3. b[1] \in g.direct[pass] \union g.masked[pass]
        BY <4>1, <4>2 DEF Inductive, Marked
      <4>4. CASE b[1] \in g.direct[pass]
        BY <3>1, <3>3, <4>2, <4>4 DEF Until
      <4>5. CASE b[1] \in g.masked[pass]
        <5>1. Until(g, b[1], g.rendered, Recorded)
          BY <1>1, <1>6, <2>2, <3>3, <4>5 DEF Inductive, Overdue
        <5>. QED BY <1>3, <1>4, <3>1, <3>3, <5>1 DEF Until
      <4>. QED BY <4>3, <4>4, <4>5
    <3>. QED BY <3>2, <3>3
  <2>3. Overdue(g) /\ passes' = passes
    BY <1>2 DEF Inductive
  <2>. QED BY <1>1, <1>4, <2>1, <2>2, <2>3 DEF Overdue
<1>12. Staged(g)'
  <2>1. \A b, n : Kept(g, b, n)' <=> Kept(g, b, n)
    BY <1>2 DEF Kept
  <2>2. Staged(g) /\ Resolved' = Resolved /\ UNCHANGED <<passes, staging>>
    BY <1>2, <1>4 DEF Inductive
  <2>. QED BY <1>1, <2>1, <2>2 DEF Staged
<1>13. Queued'
  BY <1>1, <1>2 DEF Inductive, Queued
<1>14. /\ Valued(g)' /\ Remembered(g)' /\ Rendered(g)' /\ Arrived(g)' /\ Streamed(g)' /\ Fenced(g)'
       /\ Signals(g)' /\ Counts(g)' /\ Tallied(g)' /\ HostHas(g)' /\ ReadBack(g)' /\ Masks(g)' /\ Ready(g)'
  BY <1>2, ValuedFrame, RememberedFrame, RenderedFrame, ArrivedFrame, StreamedFrame, FencedFrame,
     SignalsFrame, CountsFrame, TalliedFrame, HostHasFrame, ReadBackFrame, MasksFrame, ReadyFrame
  DEF Inductive
<1>. QED BY <1>8, <1>9, <1>10, <1>11, <1>12, <1>13, <1>14 DEF Inductive

\* The GPU has something to do as long as the last fence has not signalled.
LEMMA SomethingToDo ==
    ASSUME TypeOK, NEW g \in Ghost, Inductive(g), stream # <<>>
    PROVE  gpu_done < submits /\ 1 \in 1 .. Len(stream) /\ Len(stream) \in 1 .. Len(stream)
           /\ stream[1].n \in Nat /\ Len(stream) \in Nat
<1>1. Ordered(g) /\ Streamed(g) /\ Rendered(g)
  BY HowFar DEF Inductive
<1>2. 1 \in 1 .. Len(stream) /\ Len(stream) \in 1 .. Len(stream) /\ Len(stream) \in Nat
      /\ stream[1] \in Commands
  <2>1. stream \in Seq(Commands)
    BY DEF TypeOK
  <2>. QED BY <2>1
<1>3. stream[1].n \in Nat /\ IsNext(g, gpu_done, stream[1])
      /\ stream[1].n <= IF stream[1].op = "end" THEN submits ELSE g.last[submits]
  BY <1>1, <1>2 DEF Streamed, Commands
<1>4. CASE stream[1].op = "end"
  BY <1>1, <1>2, <1>3, <1>4 DEF IsNext, Ordered
<1>5. CASE stream[1].op # "end"
  <2>1. g.rendered + 1 <= g.last[submits] /\ g.last[submits] \in Nat
    BY <1>1, <1>3, <1>5 DEF IsNext, Ordered
  <2>. QED BY <1>1, <1>2, <1>3, <2>1 DEF Rendered, Ordered
<1>. QED BY <1>4, <1>5

(* A submission takes all that was recorded, and locks the pages that wait *)
(* to be read back.                                                        *)
LEMMA SubmitKeeps ==
    ASSUME TypeOK, NEW g \in Ghost, Inductive(g), rpc = "idle", cmd # <<>>,
           NEW s \in Seq([fence : Nat, pages : SUBSET Page, value : Nat]), Submit(s), Len(s) \in 0 .. 1,
           \A i \in 1 .. Len(s) : s[i] = [fence |-> 0, pages |-> {}, value |-> pass],
           UNCHANGED <<memory, page_to_direct_copy, page_to_masked_copy, renderer, gpu_done,
                       staging_readback, copies, timeline, history>>,
           Queued'
    PROVE  \E h \in Ghost : Inductive(h)'
<1>. DEFINE Op == [fence : Nat, pages : SUBSET Page, value : Nat]
            n1 == Len(stream)
            n2 == Len(cmd)
            m == Len(ops)
<1>. PICK new : new = submits + 1
  OBVIOUS
<1>. PICK locked : locked = page_to_pending_readback
  OBVIOUS
<1>last. PICK last : last = [g.last EXCEPT ![new] = pass]
  OBVIOUS
<1>count. PICK count : count = [p \in Page |-> [g.count[p] EXCEPT ![new] =
                               g.count[p][submits] + IF p \in locked THEN 1 ELSE 0]]
  OBVIOUS
<1>h. PICK h : h = [g EXCEPT !.last = last, !.count = count,
                      !.sub = [n \in Nat |-> IF n > g.last[submits] THEN new ELSE g.sub[n]]]
  OBVIOUS
<1>1. /\ h.val = g.val /\ h.here = g.here /\ h.done = g.done /\ h.rendered = g.rendered
      /\ h.step = g.step /\ h.direct = g.direct /\ h.masked = g.masked
  BY <1>h DEF Ghost
<1>2. h.last = last /\ h.count = count
      /\ h.sub = [n \in Nat |-> IF n > g.last[submits] THEN new ELSE g.sub[n]]
  BY <1>h DEF Ghost
<1>3. Ordered(g) /\ pass \in Nat /\ submits \in Nat /\ new \in Nat /\ new = submits + 1 /\ N \in Nat
  <2>1. Ordered(g)
    BY HowFar
  <2>. QED BY <2>1 DEF TypeOK, N
<1>4. h \in Ghost
  <2>1. last \in [Nat -> Nat]
    BY <1>3, <1>last DEF Ghost
  <2>2. count \in [Page -> [Nat -> Nat]]
    <3>1. g.count \in [Page -> [Nat -> Nat]]
      BY DEF Ghost
    <3>2. ASSUME NEW p \in Page
          PROVE  [g.count[p] EXCEPT ![new] = g.count[p][submits] + IF p \in locked THEN 1 ELSE 0]
                     \in [Nat -> Nat]
      <4>1. g.count[p] \in [Nat -> Nat]
        BY <3>1
      <4>2. g.count[p][submits] \in Nat
        BY <1>3, <4>1
      <4>3. PICK v : v = g.count[p][submits] + IF p \in locked THEN 1 ELSE 0
        OBVIOUS
      <4>4. v \in Nat
        BY <4>2, <4>3
      <4>5. [g.count[p] EXCEPT ![new] = v] \in [Nat -> Nat]
        BY <1>3, <4>1, <4>4
      <4>. QED BY <4>3, <4>5
    <3>. QED BY <1>count, <3>2
  <2>3. h.sub \in [Nat -> Nat]
    BY <1>2, <1>3 DEF Ghost
  <2>. QED BY <1>2, <1>h, <2>1, <2>2, <2>3 DEF Ghost
<1>5. /\ \A f \in 0 .. submits : h.last[f] = g.last[f]
      /\ h.last[new] = pass
      /\ \A p \in Page : /\ \A f \in 0 .. submits : h.count[p][f] = g.count[p][f]
                         /\ h.count[p][new] = g.count[p][submits] + IF p \in locked THEN 1 ELSE 0
  <2>1. g.last \in [Nat -> Nat]
    BY DEF Ghost
  <2>2. g.count \in [Page -> [Nat -> Nat]]
    BY DEF Ghost
  <2>3. new \in Nat /\ \A f \in 0 .. submits : f \in Nat /\ f # new
    BY <1>3
  <2>4. (\A f \in 0 .. submits : last[f] = g.last[f]) /\ last[new] = pass
    BY <1>last, <2>1, <2>3
  <2>5. ASSUME NEW p \in Page
        PROVE  /\ \A f \in 0 .. submits : count[p][f] = g.count[p][f]
               /\ count[p][new] = g.count[p][submits] + IF p \in locked THEN 1 ELSE 0
    <3>1. count[p] = [g.count[p] EXCEPT ![new] =
                          g.count[p][submits] + IF p \in locked THEN 1 ELSE 0]
      BY <1>count
    <3>2. g.count[p] \in [Nat -> Nat]
      BY <2>2
    <3>. QED BY <2>3, <3>1, <3>2
  <2>. QED BY <1>2, <2>4, <2>5
<1>6. /\ Recorded = pass /\ Recorded' = pass /\ Resolved = pass /\ Resolved' = pass /\ N' = N
      /\ UNCHANGED <<host, staging, rdram, mask, page_to_direct_copy, page_to_masked_copy, rpc, pass, todo,
                     gpu_done, staging_readback, copies, timeline, passes, truth>>
  BY DEF Recorded, Resolved, N, memory, renderer, history
<1>7. g.last[submits] \in Nat /\ g.last[submits] < pass
  <2>1. g.last[submits] # pass
    BY <1>6 DEF Inductive, Submitted
  <2>. QED BY <1>3, <1>6, <2>1 DEF Ordered
<1>8. submits' = new /\ cmd' = <<>> /\ page_to_pending_readback' = {}
  BY DEF Submit
<1>9. /\ n1 \in Nat /\ n2 \in Nat /\ n2 # 0 /\ Len(stream') = n1 + n2 + 1 /\ stream' # <<>>
      /\ \A i \in 1 .. n1 : stream'[i] = stream[i]
      /\ \A i \in 1 .. n2 : stream'[n1 + i] = cmd[i]
      /\ stream'[n1 + n2 + 1] = [op |-> "end", pages |-> locked, n |-> new]
      /\ n1 = 0 <=> stream = <<>>
  <2>. PICK e : e = [op |-> "end", pages |-> locked, n |-> new]
    OBVIOUS
  <2>1. stream' = (stream \o cmd) \o <<e>>
    BY DEF Submit
  <2>2. stream \in Seq(Commands) /\ cmd \in Seq(Commands)
    BY DEF TypeOK
  <2>3. e \in Commands
    BY <1>3 DEF Commands, TypeOK
  <2>4. /\ n1 \in Nat /\ n2 \in Nat /\ n2 # 0
        /\ n1 = 0 <=> stream = <<>>
    BY <2>2
  <2>5. /\ (stream \o cmd) \in Seq(Commands) /\ Len(stream \o cmd) = n1 + n2
        /\ \A i \in 1 .. n1 : (stream \o cmd)[i] = stream[i]
        /\ \A i \in 1 .. n2 : (stream \o cmd)[n1 + i] = cmd[i]
    BY <2>2, <2>4
  <2>6. /\ Len(stream') = n1 + n2 + 1 /\ stream' # <<>>
        /\ \A i \in 1 .. n1 + n2 : stream'[i] = (stream \o cmd)[i]
        /\ stream'[n1 + n2 + 1] = e
    BY <2>1, <2>3, <2>4, <2>5
  <2>. HIDE DEF n1, n2
  <2>7. (\A i \in 1 .. n1 : i \in 1 .. n1 + n2) /\ (\A i \in 1 .. n2 : n1 + i \in 1 .. n1 + n2)
    BY <2>4
  <2>. QED BY <2>4, <2>5, <2>6, <2>7
<1>10. /\ m \in Nat /\ Len(ops') = m + 1 + Len(s) /\ Len(s) \in 0 .. 1
       /\ \A i \in 1 .. m : ops'[i] = ops[i]
       /\ ops'[m + 1] = [fence |-> new, pages |-> locked, value |-> 0]
       /\ Len(s) = 1 => ops'[m + 2] = [fence |-> 0, pages |-> {}, value |-> pass]
       /\ (m = 0 <=> ops = <<>>) /\ ops' # <<>>
  <2>. PICK o : o = [fence |-> new, pages |-> locked, value |-> 0]
    OBVIOUS
  <2>1. ops' = (ops \o <<o>>) \o s
    BY DEF Submit
  <2>2. ops \in Seq(Op)
    BY DEF TypeOK
  <2>3. o \in Op
    BY <1>3 DEF TypeOK
  <2>4. s \in Seq(Op) /\ Len(s) \in 0 .. 1
    OBVIOUS
  <2>. HIDE DEF Op
  <2>5. /\ m \in Nat /\ (m = 0 <=> ops = <<>>)
    BY <2>2
  <2>6. /\ (ops \o <<o>>) \in Seq(Op) /\ Len(ops \o <<o>>) = m + 1
        /\ \A i \in 1 .. m : (ops \o <<o>>)[i] = ops[i]
        /\ (ops \o <<o>>)[m + 1] = o
    BY <2>2, <2>3, <2>5
  <2>7. /\ Len(ops') = m + 1 + Len(s) /\ ops' # <<>>
        /\ \A i \in 1 .. m + 1 : ops'[i] = (ops \o <<o>>)[i]
        /\ \A i \in 1 .. Len(s) : ops'[m + 1 + i] = s[i]
    BY <2>1, <2>4, <2>5, <2>6
  <2>8. Len(s) = 1 => ops'[m + 2] = s[1] /\ s[1] = [fence |-> 0, pages |-> {}, value |-> pass]
    <3>1. Len(s) = 1 => 1 \in 1 .. Len(s) /\ (m + 1) + 1 = m + 2
      BY <2>5
    <3>. QED BY <2>7, <3>1
  <2>. HIDE DEF m
  <2>10. m + 1 \in 1 .. m + 1 /\ \A i \in 1 .. m : i \in 1 .. m + 1
    BY <2>5
  <2>11. (\A i \in 1 .. m : ops'[i] = ops[i]) /\ ops'[m + 1] = o
    BY <2>6, <2>7, <2>10
  <2>. QED BY <2>4, <2>5, <2>7, <2>8, <2>11
<1>. HIDE DEF n1, n2, m
<1>11. /\ \A f \in 1 .. submits : Locked(passes, h, f) = Locked(passes, g, f)
       /\ Locked(passes, h, new) = locked
  <2>1. \A f \in 1 .. submits : f - 1 \in 0 .. submits /\ f \in 0 .. submits
    BY <1>3
  <2>2. \A f \in 1 .. submits : Locked(passes, h, f) = Locked(passes, g, f)
    BY <1>5, <2>1 DEF Locked
  <2>3. new - 1 = submits /\ submits \in 0 .. submits
    BY <1>3
  <2>4. locked = {p \in Page : \E n \in g.last[submits] + 1 .. pass : Dirties(passes, n, p)}
    BY <1>6 DEF Inductive, Marked
  <2>5. h.last[new - 1] = g.last[submits]
    BY <1>5, <2>3
  <2>. QED BY <1>5, <2>2, <2>4, <2>5 DEF Locked
<1>12. \A p \in Page : Upto(h, p) = Upto(g, p)
  <2>1. \A p \in Page : g.here[p] \in 0 .. submits
    BY <1>3 DEF Ordered
  <2>. QED BY <1>1, <1>5, <2>1 DEF Upto
<1>13. Submitted(h)'
  <2>1. Submitted(g)
    BY DEF Inductive
  <2>2. h.last[0] = 0 /\ h.last[new] <= pass
    BY <1>3, <1>5, <2>1 DEF Submitted
  <2>3. ASSUME NEW e \in 0 .. new, NEW f \in 0 .. new, e < f PROVE h.last[e] < h.last[f]
    <3>1. CASE f = new
      <4>1. e \in 0 .. submits /\ submits \in 0 .. submits /\ e <= submits
        BY <1>3, <2>3, <3>1
      <4>2. g.last[e] <= g.last[submits] /\ g.last[e] \in Nat
        BY <1>3, <4>1 DEF Ordered
      <4>. QED BY <1>3, <1>5, <1>7, <3>1, <4>1, <4>2
    <3>2. CASE f # new
      <4>1. e \in 0 .. submits /\ f \in 0 .. submits
        BY <1>3, <2>3, <3>2
      <4>. QED BY <1>5, <2>1, <2>3, <4>1 DEF Submitted
    <3>. QED BY <3>1, <3>2
  <2>4. ASSUME NEW n \in 1 .. pass
        PROVE  h.sub[n] \in 1 .. new /\ n \in h.last[h.sub[n] - 1] + 1 .. h.last[h.sub[n]]
    <3>1. CASE n > g.last[submits]
      <4>1. h.sub[n] = new
        BY <1>2, <3>1
      <4>2. new - 1 = submits /\ submits \in 0 .. submits /\ new \in 1 .. new
        BY <1>3
      <4>3. h.last[new - 1] = g.last[submits] /\ h.last[new] = pass
        BY <1>5, <4>2
      <4>. QED BY <1>3, <1>7, <3>1, <4>1, <4>2, <4>3
    <3>2. CASE n <= g.last[submits]
      <4>1. n \in 1 .. g.last[submits] /\ h.sub[n] = g.sub[n]
        BY <1>2, <1>7, <3>2
      <4>2. g.sub[n] \in 1 .. submits /\ n \in g.last[g.sub[n] - 1] + 1 .. g.last[g.sub[n]]
        BY <2>1, <4>1 DEF Submitted
      <4>3. g.sub[n] - 1 \in 0 .. submits /\ g.sub[n] \in 0 .. submits /\ g.sub[n] \in 1 .. new
        BY <1>3, <4>2
      <4>. QED BY <1>5, <4>1, <4>2, <4>3
    <3>. QED BY <1>3, <1>7, <3>1, <3>2
  <2>. QED BY <1>5, <1>6, <1>8, <2>2, <2>3, <2>4 DEF Submitted
<1>14. Rendered(h)' /\ Arrived(h)'
  <2>1. Rendered(g) /\ Arrived(g)
    BY DEF Inductive
  <2>2. gpu_done \in 0 .. submits /\ gpu_done # new /\ gpu_done < new
    BY <1>3 DEF Ordered
  <2>3. h.last[gpu_done] <= g.rendered
    BY <1>5, <2>1, <2>2 DEF Rendered
  <2>4. g.rendered <= h.last[gpu_done + 1] /\ (g.step # 0 => g.rendered < h.last[gpu_done + 1])
    <3>1. CASE gpu_done = submits
      <4>1. h.last[gpu_done + 1] = pass /\ g.rendered = g.last[submits] /\ g.step = 0
        BY <1>3, <1>5, <2>1, <3>1 DEF Rendered
      <4>. QED BY <1>3, <1>7, <4>1
    <3>2. CASE gpu_done # submits
      <4>1. gpu_done + 1 \in 0 .. submits /\ gpu_done < submits
        BY <1>3, <2>2, <3>2
      <4>. QED BY <1>5, <2>1, <4>1 DEF Rendered
    <3>. QED BY <3>1, <3>2
  <2>5. h.last[g.done] = g.last[g.done]
    BY <1>3, <1>5 DEF Ordered
  <2>6. Rendered(h)'
    BY <1>1, <1>6, <1>8, <2>2, <2>3, <2>4, <1>3 DEF Rendered
  <2>7. Arrived(h)'
    BY <1>1, <1>6, <2>1, <2>5 DEF Arrived
  <2>. QED BY <2>6, <2>7
<1>15. Streamed(h)' /\ Opened(h)'
  <2>1. Streamed(g) /\ Opened(g)
    BY DEF Inductive
  <2>2. \A c : Carries(h, c) <=> Carries(g, c)
    BY <1>1 DEF Carries
  <2>3. IsNext(h, gpu_done, stream'[1])
    <3>1. CASE stream = <<>>
      <4>1. gpu_done = submits
        BY <2>1, <3>1 DEF Streamed
      <4>2. g.rendered = g.last[submits] /\ g.step = 0
        BY <4>1 DEF Inductive, Rendered
      <4>3. stream'[1] = cmd[1] /\ cmd[1].op = "masked" /\ cmd[1].n = g.last[submits] + 1
        <5>1. 1 \in 1 .. n2 /\ n1 = 0 /\ n1 + 1 = 1
          BY <1>9, <3>1
        <5>2. stream'[n1 + 1] = cmd[1]
          BY <1>9, <5>1
        <5>. QED BY <2>1, <5>1, <5>2 DEF Opened
      <4>4. h.last[gpu_done + 1] = pass
        BY <1>5, <4>1
      <4>. QED BY <1>1, <1>3, <1>7, <4>2, <4>3, <4>4 DEF IsNext
    <3>2. CASE stream # <<>>
      <4>1. gpu_done < submits /\ 1 \in 1 .. n1
        BY <3>2, SomethingToDo DEF n1
      <4>2. stream'[1] = stream[1] /\ IsNext(g, gpu_done, stream[1])
        BY <1>9, <2>1, <3>2, <4>1 DEF Streamed
      <4>3. h.last[gpu_done + 1] = g.last[gpu_done + 1]
        BY <1>3, <1>5, <4>1 DEF Ordered
      <4>. QED BY <1>1, <4>2, <4>3 DEF IsNext
    <3>. QED BY <3>1, <3>2
  <2>4. \A i \in 1 .. n1 : /\ Carries(g, stream[i]) /\ stream[i].n \in Nat
                           /\ stream[i].n <= IF stream[i].op = "end" THEN submits ELSE g.last[submits]
    <3>1. \A i \in 1 .. n1 : stream[i] \in Commands
      BY DEF TypeOK, n1
    <3>. QED BY <2>1, <3>1 DEF Streamed, n1, Commands
  <2>5. \A i \in 1 .. n2 : /\ Carries(g, cmd[i]) /\ cmd[i].op # "end" /\ cmd[i].n \in Nat
                           /\ g.last[submits] < cmd[i].n /\ cmd[i].n <= pass
    <3>1. \A i \in 1 .. n2 : cmd[i] \in Commands
      BY DEF TypeOK, n2
    <3>. QED BY <1>6, <2>1, <3>1 DEF Opened, n2, Commands
  <2>6. \A i \in 1 .. n1 + n2 + 1 : \/ i \in 1 .. n1
                                    \/ \E j \in 1 .. n2 : i = n1 + j
                                    \/ i = n1 + n2 + 1
    <3>. SUFFICES ASSUME NEW i \in 1 .. n1 + n2 + 1, i > n1, i # n1 + n2 + 1
                  PROVE  \E j \in 1 .. n2 : i = n1 + j
      BY <1>9
    <3>1. i - n1 \in 1 .. n2 /\ i = n1 + (i - n1)
      BY <1>9
    <3>. QED BY <3>1
  <2>7. ASSUME NEW i \in 1 .. n1 + n2 + 1
        PROVE  /\ Carries(g, stream'[i])
               /\ stream'[i].n <= IF stream'[i].op = "end" THEN new ELSE pass
    <3>1. CASE i \in 1 .. n1
      <4>1. stream'[i] = stream[i]
        BY <1>9, <3>1
      <4>. QED BY <1>3, <1>7, <2>4, <3>1, <4>1
    <3>2. ASSUME NEW j \in 1 .. n2, i = n1 + j
          PROVE  /\ Carries(g, stream'[i])
                 /\ stream'[i].n <= IF stream'[i].op = "end" THEN new ELSE pass
      <4>1. stream'[i] = cmd[j]
        BY <1>9, <3>2
      <4>. QED BY <2>5, <4>1
    <3>3. CASE i = n1 + n2 + 1
      <4>1. stream'[i].op = "end" /\ stream'[i].n = new
        BY <1>9, <3>3
      <4>. QED BY <1>3, <4>1 DEF Carries
    <3>. QED BY <2>6, <3>1, <3>2, <3>3
  <2>8. ASSUME NEW i \in 1 .. n1 + n2 PROVE Follows(h, new, stream'[i], stream'[i + 1])
    <3>1. CASE i \in 1 .. n1 - 1
      <4>1. /\ stream'[i] = stream[i] /\ stream'[i + 1] = stream[i + 1]
            /\ i \in 1 .. n1 /\ i + 1 \in 1 .. n1
        BY <1>9, <3>1
      <4>2. Follows(g, submits, stream[i], stream[i + 1])
        BY <2>1, <3>1 DEF Streamed, n1
      <4>3. \A f \in 0 .. new : f \in 0 .. submits \/ f = new
        BY <1>3
      <4>4. stream[i].op = "end" => stream[i].n \in 0 .. submits
        BY <1>3, <2>4, <4>1
      <4>5. stream[i].op # "end" => stream[i].n < pass
        BY <1>3, <1>7, <2>4, <4>1
      <4>6. \A f \in 1 .. submits : f \in 1 .. new /\ f \in 0 .. submits
        BY <1>3
      <4>. QED BY <1>3, <1>5, <4>1, <4>2, <4>3, <4>4, <4>5, <4>6 DEF Follows
    <3>2. CASE i = n1
      <4>1. n1 \in 1 .. n1 /\ stream # <<>> /\ 1 \in 1 .. n2
        BY <1>9, <3>2
      <4>2. stream'[i] = stream[n1] /\ stream'[i + 1] = cmd[1]
        BY <1>9, <3>2, <4>1
      <4>3. stream[n1].op = "end" /\ stream[n1].n = submits
        BY <2>1, <4>1 DEF Streamed, n1
      <4>4. cmd[1].op = "masked" /\ cmd[1].n = g.last[submits] + 1
        BY <2>1 DEF Opened
      <4>5. h.last[submits] = g.last[submits]
        BY <1>3, <1>5
      <4>. QED BY <4>2, <4>3, <4>4, <4>5 DEF Follows
    <3>3. ASSUME NEW j \in 1 .. n2 - 1, i = n1 + j
          PROVE  Follows(h, new, stream'[i], stream'[i + 1])
      <4>1. j \in 1 .. n2 /\ j + 1 \in 1 .. n2 /\ i + 1 = n1 + (j + 1)
        BY <1>9, <3>3
      <4>2. stream'[i] = cmd[j] /\ stream'[i + 1] = cmd[j + 1]
        BY <1>9, <3>3, <4>1
      <4>3. Follows(g, submits, cmd[j], cmd[j + 1])
        BY <2>1 DEF Opened, n2
      <4>4. cmd[j].op # "end" /\ cmd[j + 1].op # "end" /\ cmd[j].n \in Nat /\ cmd[j + 1].n <= pass
        BY <2>5, <4>1
      <4>5. \A f \in 0 .. new : f \in 0 .. submits \/ f = new
        BY <1>3
      <4>6. ASSUME cmd[j].op = "render" PROVE \A f \in 0 .. new : h.last[f] # cmd[j].n
        <5>1. cmd[j + 1].n = cmd[j].n + 1 /\ \A f \in 0 .. submits : g.last[f] # cmd[j].n
          BY <4>3, <4>4, <4>6 DEF Follows
        <5>. QED BY <1>3, <1>5, <4>4, <4>5, <5>1
      <4>. QED BY <4>2, <4>3, <4>4, <4>6 DEF Follows
    <3>4. CASE i = n1 + n2
      <4>1. n2 \in 1 .. n2
        BY <1>9
      <4>2. stream'[i] = cmd[n2] /\ cmd[n2].op = "render" /\ cmd[n2].n = pass
        BY <1>6, <1>9, <2>1, <3>4, <4>1 DEF Opened, n2
      <4>3. stream'[i + 1].op = "end" /\ stream'[i + 1].n = new
        BY <1>9, <3>4
      <4>4. new \in 1 .. new
        BY <1>3
      <4>. QED BY <1>5, <4>2, <4>3, <4>4 DEF Follows
    <3>5. \/ i \in 1 .. n1 - 1 \/ i = n1 \/ i = n1 + n2
          \/ \E j \in 1 .. n2 - 1 : i = n1 + j
      <4>. SUFFICES ASSUME i > n1, i # n1 + n2 PROVE \E j \in 1 .. n2 - 1 : i = n1 + j
        BY <1>9
      <4>1. i - n1 \in 1 .. n2 - 1 /\ i = n1 + (i - n1)
        BY <1>9
      <4>. QED BY <4>1
    <3>. QED BY <3>1, <3>2, <3>3, <3>4, <3>5
  <2>9. /\ Len(stream') = n1 + n2 + 1 /\ (n1 + n2 + 1) - 1 = n1 + n2 /\ stream' # <<>>
        /\ stream'[n1 + n2 + 1].op = "end" /\ stream'[n1 + n2 + 1].n = new
    <3>. QED BY <1>9
  <2>10. h.last[submits'] = pass /\ submits' = new /\ gpu_done' = gpu_done
    BY <1>5, <1>6, <1>8
  <2>11. Streamed(h)'
    BY <2>2, <2>3, <2>7, <2>8, <2>9, <2>10 DEF Streamed
  <2>12. Opened(h)'
    <3>1. Len(cmd') = 0
      BY <1>8
    <3>2. (1 .. 0) = {} /\ (1 .. 0 - 1) = {}
      OBVIOUS
    <3>. QED BY <1>8, <3>1, <3>2 DEF Opened
  <2>. QED BY <2>11, <2>12
<1>16. Fenced(h)' /\ Signals(h)'
  <2>0. /\ g.done \in Nat /\ g.done <= submits /\ timeline \in Nat /\ timeline <= g.last[submits]
    BY <1>3, InOrder
  <2>1. Fenced(g) /\ Signals(g)
    BY DEF Inductive
  <2>. DEFINE q == m + 1 + Len(s)
  <2>2. \A i \in 1 .. m : ops[i].fence \in Nat /\ ops[i].value \in Nat
    <3>1. ops \in Seq(Op)
      BY DEF TypeOK
    <3>. HIDE DEF Op
    <3>2. \A i \in 1 .. m : ops[i] \in Op
      BY <3>1 DEF m
    <3>. QED BY <3>2 DEF Op
  <2>3. \A i \in 1 .. q : i \in 1 .. m \/ i = m + 1 \/ (i = m + 2 /\ Len(s) = 1)
    BY <1>10
  <2>4. /\ ops'[m + 1].fence = new /\ ops'[m + 1].pages = locked /\ ops'[m + 1].value = 0
        /\ Len(s) = 1 => /\ ops'[m + 2].fence = 0 /\ ops'[m + 2].pages = {}
                         /\ ops'[m + 2].value = pass
    <3>. QED BY <1>10
  <2>5. \A i \in 1 .. m : ops[i].fence # 0 =>
            /\ ops[i].fence \in g.done + 1 .. submits /\ ops[i].fence \in 1 .. submits
            /\ ops[i].fence - 1 \in 0 .. submits
            /\ ops[i].value = 0 /\ ops[i].pages = Locked(passes, g, ops[i].fence)
    <3>1. g.done \in Nat
      BY DEF Ghost
    <3>. QED BY <1>3, <2>1, <2>2, <3>1 DEF Fenced, m
  <2>6. ASSUME NEW i \in 1 .. q, ops'[i].fence # 0
        PROVE  /\ ops'[i].fence \in g.done + 1 .. new /\ ops'[i].value = 0
               /\ ops'[i].pages = Locked(passes, h, ops'[i].fence)
    <3>1. CASE i \in 1 .. m
      <4>1. ops'[i] = ops[i]
        BY <1>10, <3>1
      <4>2. /\ ops[i].fence \in g.done + 1 .. submits /\ ops[i].fence \in 1 .. submits
            /\ ops[i].value = 0 /\ ops[i].pages = Locked(passes, g, ops[i].fence)
        BY <2>5, <2>6, <3>1, <4>1
      <4>3. g.done + 1 .. submits \subseteq g.done + 1 .. new
        BY <1>3, <2>0
      <4>4. Locked(passes, h, ops[i].fence) = Locked(passes, g, ops[i].fence)
        BY <1>11, <4>2
      <4>. QED BY <4>1, <4>2, <4>3, <4>4
    <3>2. CASE i = m + 1
      <4>1. new \in g.done + 1 .. new
        BY <1>3, <2>0
      <4>. QED BY <1>11, <2>4, <3>2, <4>1
    <3>3. CASE i = m + 2 /\ Len(s) = 1
      BY <2>4, <2>6, <3>3
    <3>. QED BY <2>3, <3>1, <3>2, <3>3
  <2>7. ASSUME NEW i \in 1 .. q, NEW j \in 1 .. q, i < j, ops'[i].fence # 0, ops'[j].fence # 0
        PROVE  ops'[i].fence < ops'[j].fence
    <3>1. i \in 1 .. m /\ ops'[i] = ops[i]
      <4>1. ASSUME i = m + 2 PROVE FALSE
        <5>1. Len(s) = 1
          BY <1>10, <2>3, <4>1
        <5>. QED BY <2>4, <2>7, <4>1, <5>1
      <4>2. CASE i = m + 1
        BY <1>10, <2>3, <2>4, <2>7, <4>2
      <4>. QED BY <1>10, <2>3, <4>1, <4>2
    <3>2. CASE j \in 1 .. m
      BY <1>10, <2>1, <2>7, <3>1, <3>2 DEF Fenced, m
    <3>3. CASE j = m + 1
      BY <1>3, <2>4, <2>5, <2>7, <3>1, <3>3
    <3>4. CASE j = m + 2 /\ Len(s) = 1
      BY <2>4, <2>7, <3>4
    <3>. QED BY <2>3, <3>2, <3>3, <3>4
  <2>8. ASSUME NEW f \in g.done + 1 .. new PROVE \E i \in 1 .. q : ops'[i].fence = f
    <3>0. g.done \in Nat /\ 1 .. m \subseteq 1 .. q /\ m + 1 \in 1 .. q
      <4>1. m \in Nat /\ Len(s) \in 0 .. 1
        BY <1>10
      <4>. QED BY <2>0, <4>1
    <3>1. CASE f = new
      BY <2>4, <3>0, <3>1
    <3>2. CASE f # new
      <4>1. f \in g.done + 1 .. submits
        BY <1>3, <3>0, <3>2
      <4>2. PICK i \in 1 .. m : ops[i].fence = f
        BY <2>1, <4>1 DEF Fenced, m
      <4>. QED BY <1>10, <3>0, <4>2
    <3>. QED BY <3>1, <3>2
  <2>9. copies # {} => ops' # <<>> /\ ops'[1].fence = g.done + 1 /\ copies \subseteq ops'[1].pages
    <3>. SUFFICES ASSUME copies # {}
                  PROVE  ops' # <<>> /\ ops'[1].fence = g.done + 1 /\ copies \subseteq ops'[1].pages
      OBVIOUS
    <3>1. ops # <<>> /\ ops[1].fence = g.done + 1 /\ copies \subseteq ops[1].pages
      BY <2>1 DEF Fenced
    <3>2. 1 \in 1 .. m
      BY <1>10, <3>1
    <3>. QED BY <1>10, <3>1, <3>2
  <2>10. ASSUME NEW i \in 1 .. q, ops'[i].fence = 0
         PROVE  /\ ops'[i].pages = {} /\ timeline <= ops'[i].value /\ ops'[i].value <= pass
                /\ \A j \in i + 1 .. q :
                       ops'[i].value <= IF ops'[j].fence = 0 THEN ops'[j].value
                                                             ELSE h.last[ops'[j].fence - 1]
    <3>1. CASE i \in 1 .. m
      <4>1. ops'[i] = ops[i] /\ ops[i].fence = 0 /\ ops[i].value \in Nat
        BY <1>10, <2>2, <2>10, <3>1
      <4>2. /\ ops[i].pages = {} /\ timeline <= ops[i].value /\ ops[i].value <= g.last[submits]
            /\ \A j \in i + 1 .. m :
                   ops[i].value <= IF ops[j].fence = 0 THEN ops[j].value
                                                       ELSE g.last[ops[j].fence - 1]
        BY <2>1, <3>1, <4>1 DEF Signals, m
      <4>3. ASSUME NEW j \in i + 1 .. q
            PROVE  ops[i].value <= IF ops'[j].fence = 0 THEN ops'[j].value
                                                        ELSE h.last[ops'[j].fence - 1]
        <5>0. j \in 1 .. q
          BY <1>10, <3>1
        <5>1. CASE j \in 1 .. m
          <6>1. ops'[j] = ops[j] /\ j \in i + 1 .. m
            BY <1>10, <3>1, <5>1
          <6>. QED BY <1>5, <2>5, <4>2, <5>1, <6>1
        <5>2. CASE j = m + 1
          <6>1. ops'[j].fence = new /\ new - 1 = submits /\ new # 0 /\ submits \in 0 .. submits
            BY <1>3, <2>4, <5>2
          <6>2. ops'[j].fence # 0 /\ h.last[ops'[j].fence - 1] = g.last[submits]
            BY <1>5, <6>1
          <6>. QED BY <4>2, <6>2
        <5>3. CASE j = m + 2 /\ Len(s) = 1
          BY <1>3, <1>7, <2>4, <4>1, <4>2, <5>3
        <5>. QED BY <2>3, <5>0, <5>1, <5>2, <5>3
      <4>. QED BY <1>3, <1>7, <4>1, <4>2, <4>3
    <3>2. CASE i = m + 1
      BY <1>3, <2>4, <2>10, <3>2
    <3>3. CASE i = m + 2 /\ Len(s) = 1
      <4>1. timeline \in Nat /\ timeline <= g.last[submits]
        BY <2>0
      <4>2. i + 1 .. q = {}
        BY <1>10, <3>3
      <4>3. ops'[i].pages = {} /\ ops'[i].value = pass
        BY <2>4, <3>3
      <4>4. timeline <= pass /\ pass <= pass
        BY <1>3, <1>7, <4>1
      <4>. QED BY <4>2, <4>3, <4>4
    <3>. QED BY <2>3, <3>1, <3>2, <3>3
  <2>11. Len(ops') = q /\ submits' = new /\ copies' = copies /\ passes' = passes /\ timeline' = timeline
         /\ h.last[submits'] = pass /\ h.done = g.done
    BY <1>1, <1>5, <1>6, <1>8, <1>10
  <2>. HIDE DEF q
  <2>12. Fenced(h)'
    BY <2>6, <2>7, <2>8, <2>9, <2>11 DEF Fenced
  <2>13. Signals(h)'
    BY <2>10, <2>11 DEF Signals
  <2>. QED BY <2>12, <2>13
<1>17. Counts(h)' /\ Tallied(h)'
  <2>1. Counts(g) /\ Tallied(g) /\ g.count \in [Page -> [Nat -> Nat]]
    BY DEF Inductive, Ghost
  <2>2. ASSUME NEW p \in Page
        PROVE  /\ \A f \in 1 .. new : h.count[p][f] = h.count[p][f - 1]
                                      + IF p \in Locked(passes, h, f) THEN 1 ELSE 0
               /\ \A e, f \in 0 .. new : e <= f =>
                      /\ h.count[p][e] <= h.count[p][f]
                      /\ (\A x \in e + 1 .. f : p \notin Locked(passes, h, x)) =>
                             h.count[p][e] = h.count[p][f]
    <3>1. /\ \A f \in 0 .. submits : h.count[p][f] = g.count[p][f] /\ g.count[p][f] \in Nat
          /\ h.count[p][new] = g.count[p][submits] + IF p \in locked THEN 1 ELSE 0
      <4>1. g.count[p] \in [Nat -> Nat]
        BY <2>1
      <4>2. \A f \in 0 .. submits : f \in Nat
        BY <1>3
      <4>3. \A f \in 0 .. submits : g.count[p][f] \in Nat
        BY <4>1, <4>2
      <4>. QED BY <1>5, <4>3
    <3>2. ASSUME NEW f \in 1 .. new
          PROVE  h.count[p][f] = h.count[p][f - 1] + IF p \in Locked(passes, h, f) THEN 1 ELSE 0
      <4>1. CASE f = new
        <5>1. f - 1 = submits /\ submits \in 0 .. submits
          BY <1>3, <4>1
        <5>. QED BY <1>11, <3>1, <4>1, <5>1
      <4>2. CASE f # new
        <5>1. f \in 1 .. submits /\ f - 1 \in 0 .. submits /\ f \in 0 .. submits
          BY <1>3, <4>2
        <5>2. g.count[p][f] = g.count[p][f - 1] + IF p \in Locked(passes, g, f) THEN 1 ELSE 0
          BY <2>1, <5>1 DEF Counts
        <5>3. h.count[p][f] = g.count[p][f] /\ h.count[p][f - 1] = g.count[p][f - 1]
          BY <3>1, <5>1
        <5>4. Locked(passes, h, f) = Locked(passes, g, f)
          BY <1>11, <5>1
        <5>. QED BY <5>2, <5>3, <5>4
      <4>. QED BY <4>1, <4>2
    <3>3. ASSUME NEW e \in 0 .. new, NEW f \in 0 .. new, e <= f
          PROVE  /\ h.count[p][e] <= h.count[p][f]
                 /\ (\A x \in e + 1 .. f : p \notin Locked(passes, h, x)) =>
                        h.count[p][e] = h.count[p][f]
      <4>1. CASE f # new
        <5>1. e \in 0 .. submits /\ f \in 0 .. submits /\ e + 1 .. f \subseteq 1 .. submits
          BY <1>3, <3>3, <4>1
        <5>2. \A x \in e + 1 .. f : Locked(passes, h, x) = Locked(passes, g, x)
          BY <1>11, <5>1
        <5>. QED BY <2>1, <3>1, <3>3, <5>1, <5>2 DEF Counts
      <4>2. CASE e = new
        <5>1. f = new /\ h.count[p][new] \in Nat
          BY <1>3, <3>1, <3>3, <4>2
        <5>. QED BY <4>2, <5>1
      <4>3. CASE f = new /\ e # new
        <5>1. /\ e \in 0 .. submits /\ submits \in 0 .. submits /\ e <= submits /\ new \in e + 1 .. f
              /\ e + 1 .. submits \subseteq e + 1 .. f /\ e + 1 .. submits \subseteq 1 .. submits
          BY <1>3, <4>3
        <5>2. g.count[p][e] <= g.count[p][submits]
          BY <2>1, <5>1 DEF Counts
        <5>3. ASSUME \A x \in e + 1 .. f : p \notin Locked(passes, h, x)
              PROVE  g.count[p][e] = g.count[p][submits] /\ p \notin locked
          <6>1. \A x \in e + 1 .. submits : p \notin Locked(passes, g, x)
            BY <1>11, <5>1, <5>3
          <6>2. p \notin locked
            BY <1>11, <5>1, <5>3
          <6>3. \A x, y \in 0 .. submits :
                    x <= y /\ (\A z \in x + 1 .. y : p \notin Locked(passes, g, z)) =>
                        g.count[p][x] = g.count[p][y]
            BY <2>1 DEF Counts
          <6>. QED BY <5>1, <6>1, <6>2, <6>3
        <5>4. /\ h.count[p][e] = g.count[p][e] /\ g.count[p][e] \in Nat
              /\ g.count[p][submits] \in Nat
              /\ h.count[p][f] = g.count[p][submits] + IF p \in locked THEN 1 ELSE 0
          BY <3>1, <4>3, <5>1
        <5>5. h.count[p][e] <= h.count[p][f]
          BY <5>2, <5>4
        <5>6. (\A x \in e + 1 .. f : p \notin Locked(passes, h, x)) => h.count[p][e] = h.count[p][f]
          <6>. SUFFICES ASSUME \A x \in e + 1 .. f : p \notin Locked(passes, h, x)
                        PROVE  h.count[p][e] = h.count[p][f]
            OBVIOUS
          <6>1. g.count[p][e] = g.count[p][submits] /\ p \notin locked
            BY <5>3
          <6>. QED BY <5>4, <6>1
        <5>. QED BY <5>5, <5>6
      <4>. QED BY <4>1, <4>2, <4>3
    <3>. QED BY <3>2, <3>3
  <2>3. ASSUME NEW p \in Page
        PROVE  pending_writes'[p] = h.count[p][new] - h.count[p][h.here[p]]
    <3>1. pending_writes'[p] = pending_writes[p] + IF p \in locked THEN 1 ELSE 0
      BY DEF Submit, Counted
    <3>2. g.here[p] \in 0 .. submits
      BY <1>3 DEF Ordered
    <3>3. pending_writes[p] = g.count[p][submits] - g.count[p][g.here[p]]
      BY <2>1 DEF Tallied
    <3>4. g.count[p][submits] \in Nat /\ g.count[p][g.here[p]] \in Nat
      <4>1. g.count[p] \in [Nat -> Nat]
        BY <2>1
      <4>2. submits \in Nat /\ g.here[p] \in Nat
        BY <1>3, <3>2
      <4>. QED BY <4>1, <4>2
    <3>5. /\ h.count[p][g.here[p]] = g.count[p][g.here[p]]
          /\ h.count[p][new] = g.count[p][submits] + IF p \in locked THEN 1 ELSE 0
      BY <1>5, <3>2
    <3>. QED BY <1>1, <3>1, <3>3, <3>4, <3>5
  <2>4. Counts(h)'
    <3>1. passes' = passes /\ submits' = new
      BY <1>6, <1>8
    <3>. QED BY <2>2, <3>1 DEF Counts
  <2>5. Tallied(h)'
    BY <1>8, <2>3 DEF Tallied
  <2>. QED BY <2>4, <2>5
<1>18. Marked(h)' /\ Safe(h)'
  <2>1. Marked(g) /\ Safe(g)
    BY DEF Inductive
  <2>2. h.last[submits'] = pass /\ pass + 1 .. pass = {}
    BY <1>3, <1>5, <1>8
  <2>3. Marked(h)'
    BY <1>1, <1>6, <1>8, <2>1, <2>2 DEF Marked
  <2>4. \A n \in g.rendered + 1 .. pass : g.direct[n] \subseteq Page
    <3>1. \A n \in g.rendered + 1 .. pass : n \in Nat
      BY <1>3 DEF Ordered
    <3>. QED BY <3>1 DEF Ghost
  <2>5. page_to_direct_copy \subseteq Page
    BY DEF TypeOK
  <2>6. Safe(h)'
    BY <1>1, <1>6, <1>12, <2>1, <2>4, <2>5 DEF Safe
  <2>. QED BY <2>3, <2>6
<1>19. HostHas(h)' /\ Masks(h)' /\ Overdue(h)' /\ ReadBack(h)'
  <2>1. HostHas(g) /\ Masks(g) /\ Overdue(g) /\ ReadBack(g)
    BY DEF Inductive
  <2>2. \A b \in Byte : Upto(h, b[1]) = Upto(g, b[1])
    BY <1>12, ByteHasPage
  <2>3. HostHas(h)'
    BY <1>1, <1>6, <2>1, <2>2 DEF HostHas
  <2>4. Masks(h)'
    BY <1>1, <1>6, <2>1, <2>2 DEF Masks
  <2>5. Overdue(h)'
    <3>1. \A b : Stale(h, b)' <=> Stale(g, b)
      BY <1>1, <1>6 DEF Stale
    <3>2. \A p, i, n : Until(h, p, i, n) <=> Until(g, p, i, n)
      BY <1>1 DEF Until
    <3>. QED BY <1>1, <1>6, <2>1, <2>2, <3>1, <3>2 DEF Overdue
  <2>6. ReadBack(h)'
    <3>1. gpu_done \in 0 .. submits
      BY <1>3 DEF Ordered
    <3>2. \A f \in 1 .. gpu_done : Locked(passes, h, f) = Locked(passes, g, f) /\ h.last[f] = g.last[f]
      <4>1. \A f \in 1 .. gpu_done : f \in 1 .. submits /\ f \in 0 .. submits
        BY <1>3, <3>1
      <4>. QED BY <1>5, <1>11, <4>1
    <3>3. /\ passes' = passes /\ gpu_done' = gpu_done /\ staging_readback' = staging_readback
          /\ h.here = g.here /\ h.val = g.val
      BY <1>1, <1>6
    <3>4. ASSUME NEW f \in 1 .. gpu_done, NEW b \in Byte,
                 f > h.here[b[1]], b[1] \in Locked(passes, h, f)
          PROVE  /\ b \in staging_readback[f].mask =>
                        /\ staging_readback[f].data[b] = h.val[b][h.last[f]]
                        /\ Drawn(passes, b)
                 /\ \A n \in Upto(h, b[1]) + 1 .. h.last[f] :
                        b \in passes[n].writes => b \in staging_readback[f].mask
      <4>1. f > g.here[b[1]] /\ b[1] \in Locked(passes, g, f) /\ h.last[f] = g.last[f]
            /\ Upto(h, b[1]) = Upto(g, b[1])
        BY <2>2, <3>2, <3>3, <3>4
      <4>. QED BY <2>1, <3>3, <4>1 DEF ReadBack
    <3>. QED BY <2>1, <3>3, <3>4 DEF ReadBack
  <2>. QED BY <2>3, <2>4, <2>5, <2>6
<1>20. Valued(h)' /\ Remembered(h)' /\ Staged(h)' /\ Ready(h)'
  BY <1>1, <1>6, ValuedFrame, RememberedFrame, StagedFrame, ReadyFrame DEF Inductive
<1>. QED BY <1>4, <1>13, <1>14, <1>15, <1>16, <1>17, <1>18, <1>19, <1>20 DEF Inductive

LEMMA MaintainQueuesKeeps ==
    ASSUME TypeOK, NEW g \in Ghost, Inductive(g), MaintainQueues
    PROVE  \E h \in Ghost : Inductive(h)'
<1>. PICK s : s = <<>>
  OBVIOUS
<1>1. rpc = "idle" /\ cmd # <<>> /\ Submit(s)
  BY DEF MaintainQueues
<1>2. UNCHANGED <<memory, page_to_direct_copy, page_to_masked_copy, renderer, gpu_done,
                  staging_readback, copies, timeline, history>>
  BY DEF MaintainQueues
<1>3. Queued'
  <2>1. UNCHANGED <<queue, passes, pass, rpc>>
    BY DEF MaintainQueues, renderer, history
  <2>. QED BY <2>1, QueuedFrame DEF Inductive
<1>4. /\ s \in Seq([fence : Nat, pages : SUBSET Page, value : Nat]) /\ Len(s) = 0
  OBVIOUS
<1>5. /\ Len(s) \in 0 .. 1
      /\ \A i \in 1 .. Len(s) : s[i] = [fence |-> 0, pages |-> {}, value |-> pass]
  BY <1>4
<1>. QED BY <1>1, <1>2, <1>3, <1>4, <1>5, SubmitKeeps

(* A signal goes behind the fence of what is recorded by then, which is    *)
(* every pass that it stands for.                                          *)
LEMMA FlushAndSignalKeeps ==
    ASSUME TypeOK, NEW g \in Ghost, Inductive(g), FlushAndSignal
    PROVE  \E h \in Ghost : Inductive(h)'
<1>. DEFINE Op == [fence : Nat, pages : SUBSET Page, value : Nat]
            m == Len(ops)
<1>. PICK e : e = [fence |-> 0, pages |-> {}, value |-> Head(queue).n]
  OBVIOUS
<1>. PICK s : s = <<e>>
  OBVIOUS
<1>1. /\ rpc = "idle" /\ queue # <<>> /\ Head(queue).op = "signal" /\ queue' = Tail(queue)
      /\ cmd # <<>> => Submit(s)
      /\ cmd = <<>> => /\ ops' = ops \o s
                       /\ UNCHANGED <<pending_writes, page_to_pending_readback, stream, submits, cmd>>
  BY DEF FlushAndSignal
<1>2. UNCHANGED <<memory, page_to_direct_copy, page_to_masked_copy, renderer, gpu_done,
                  staging_readback, copies, timeline, history>>
  BY DEF FlushAndSignal
<1>3. Queued' /\ Head(queue).n = pass
  <2>1. Head(queue) = queue[1] /\ pass \in Nat
    BY <1>1 DEF TypeOK
  <2>2. pass' = pass /\ rpc' = rpc /\ passes' = passes
    BY <1>2 DEF renderer, history
  <2>3. pass' = pass + Step(queue[1])
    BY <1>1, <2>1, <2>2 DEF Step
  <2>4. rpc' # "idle" => pass' > 0
    BY <1>1, <2>2
  <2>5. Queued' /\ Head(queue) = queue[1] /\ pass' = queue[1].n
    BY <1>1, <2>2, <2>3, <2>4, QueueShrinks DEF Inductive
  <2>. QED BY <2>2, <2>5
<1>4. s \in Seq(Op) /\ Len(s) = 1 /\ s[1] = [fence |-> 0, pages |-> {}, value |-> pass]
  <2>1. e = [fence |-> 0, pages |-> {}, value |-> pass] /\ e \in Op
    BY <1>3 DEF TypeOK
  <2>. QED BY <2>1
<1>5. CASE cmd # <<>>
  <2>1. /\ Len(s) \in 0 .. 1
        /\ \A i \in 1 .. Len(s) : s[i] = [fence |-> 0, pages |-> {}, value |-> pass]
    BY <1>4
  <2>2. Submit(s)
    BY <1>1, <1>5
  <2>. QED BY <1>1, <1>2, <1>3, <1>4, <1>5, <2>1, <2>2, SubmitKeeps
<1>6. CASE cmd = <<>>
  <2>1. /\ UNCHANGED <<host, staging, rdram, mask, page_to_direct_copy, page_to_masked_copy,
                       page_to_pending_readback, pending_writes, rpc, pass, todo, cmd, stream, submits,
                       gpu_done, staging_readback, copies, timeline, passes, truth>>
        /\ Recorded' = Recorded /\ Resolved' = Resolved
    BY <1>1, <1>2, <1>6 DEF memory, renderer, history, Recorded, Resolved
  <2>2. Ordered(g) /\ g.last[submits] = pass /\ pass \in Nat
    <3>1. g.last[submits] = Recorded
      BY <1>6 DEF Inductive, Submitted
    <3>. QED BY <1>1, <3>1, HowFar DEF Recorded, TypeOK
  <2>3. /\ m \in Nat /\ Len(ops') = m + 1 /\ ops' # <<>>
        /\ \A i \in 1 .. m : ops'[i] = ops[i] /\ ops[i].value \in Nat
        /\ ops'[m + 1].fence = 0 /\ ops'[m + 1].pages = {} /\ ops'[m + 1].value = pass
        /\ (m = 0 <=> ops = <<>>)
    <3>1. ops \in Seq(Op) /\ ops' = ops \o s
      BY <1>1, <1>6 DEF TypeOK
    <3>2. \A x \in Op : x.value \in Nat
      OBVIOUS
    <3>. HIDE DEF Op
    <3>3. /\ m \in Nat /\ Len(ops') = m + 1 /\ ops' # <<>>
          /\ \A i \in 1 .. m : ops'[i] = ops[i] /\ ops[i] \in Op
          /\ ops'[m + 1] = s[1] /\ (m = 0 <=> ops = <<>>)
      BY <1>4, <3>1
    <3>. QED BY <1>4, <3>2, <3>3
  <2>4. \A i \in 1 .. m + 1 : i \in 1 .. m \/ i = m + 1
    BY <2>3
  <2>5. Fenced(g)'
    <3>1. Fenced(g)
      BY DEF Inductive
    <3>2. copies # {} => ops'[1] = ops[1] /\ ops # <<>>
      <4>1. copies # {} => ops # <<>>
        BY <3>1 DEF Fenced
      <4>. QED BY <2>3, <4>1
    <3>3. \A i \in 1 .. m + 1 : ops'[i].fence # 0 => i \in 1 .. m /\ ops'[i] = ops[i]
      BY <2>3, <2>4
    <3>4. 1 .. m \subseteq 1 .. m + 1
      BY <2>3
    <3>5. /\ UNCHANGED <<submits, copies, passes>> /\ Len(ops') = m + 1 /\ ops' # <<>>
          /\ \A i \in 1 .. m : ops'[i] = ops[i]
      BY <2>1, <2>3
    <3>6. /\ \A i \in 1 .. m + 1 : ops'[i].fence # 0 =>
                 /\ ops'[i].fence \in g.done + 1 .. submits /\ ops'[i].value = 0
                 /\ ops'[i].pages = Locked(passes, g, ops'[i].fence)
      BY <3>1, <3>3 DEF Fenced
    <3>7. \A i, j \in 1 .. m + 1 :
              i < j /\ ops'[i].fence # 0 /\ ops'[j].fence # 0 => ops'[i].fence < ops'[j].fence
      BY <3>1, <3>3 DEF Fenced
    <3>8. \A f \in g.done + 1 .. submits : \E i \in 1 .. m + 1 : ops'[i].fence = f
      <4>1. \A f \in g.done + 1 .. submits : \E i \in 1 .. m : ops[i].fence = f
        BY <3>1 DEF Fenced
      <4>. QED BY <3>4, <3>5, <4>1
    <3>9. copies # {} => ops'[1].fence = g.done + 1 /\ copies \subseteq ops'[1].pages
      BY <3>1, <3>2 DEF Fenced
    <3>. HIDE DEF m
    <3>. QED BY <3>5, <3>6, <3>7, <3>8, <3>9 DEF Fenced
  <2>6. Signals(g)'
    <3>1. Signals(g) /\ Fenced(g)
      BY DEF Inductive
    <3>2. timeline <= pass
      BY <2>2, InOrder
    <3>3. ASSUME NEW i \in 1 .. m + 1, ops'[i].fence = 0
          PROVE  /\ ops'[i].pages = {} /\ timeline <= ops'[i].value /\ ops'[i].value <= pass
                 /\ \A j \in i + 1 .. m + 1 :
                        ops'[i].value <= IF ops'[j].fence = 0 THEN ops'[j].value
                                                              ELSE g.last[ops'[j].fence - 1]
      <4>1. CASE i = m + 1
        <5>1. i + 1 .. m + 1 = {}
          BY <2>3, <4>1
        <5>. QED BY <2>2, <2>3, <3>2, <4>1, <5>1
      <4>2. CASE i \in 1 .. m
        <5>1. ops'[i] = ops[i] /\ ops[i].fence = 0
          BY <2>3, <3>3, <4>2
        <5>2. /\ ops[i].pages = {} /\ timeline <= ops[i].value /\ ops[i].value <= pass
              /\ \A j \in i + 1 .. m :
                     ops[i].value <= IF ops[j].fence = 0 THEN ops[j].value
                                                         ELSE g.last[ops[j].fence - 1]
          BY <2>2, <3>1, <4>2, <5>1 DEF Signals
        <5>3. ASSUME NEW j \in i + 1 .. m + 1
              PROVE  ops'[i].value <= IF ops'[j].fence = 0 THEN ops'[j].value
                                                           ELSE g.last[ops'[j].fence - 1]
          <6>1. CASE j = m + 1
            BY <2>3, <5>1, <5>2, <6>1
          <6>2. CASE j # m + 1
            <7>0. m \in Nat
              BY <2>3
            <7>1. j \in 1 .. m /\ j \in i + 1 .. m
              BY <4>2, <6>2, <7>0
            <7>2. ops'[j] = ops[j]
              BY <2>3, <7>1
            <7>. QED BY <5>1, <5>2, <7>1, <7>2
          <6>. QED BY <6>1, <6>2
        <5>. QED BY <5>1, <5>2, <5>3
      <4>. QED BY <2>4, <4>1, <4>2
    <3>4. UNCHANGED <<submits, timeline>> /\ Len(ops') = m + 1 /\ g.last[submits] = pass
      BY <2>1, <2>2, <2>3
    <3>. HIDE DEF m
    <3>. QED BY <3>3, <3>4 DEF Signals
  <2>7. /\ Valued(g)' /\ Remembered(g)' /\ Submitted(g)' /\ Rendered(g)' /\ Arrived(g)' /\ Streamed(g)'
        /\ Opened(g)' /\ Counts(g)' /\ Tallied(g)'
    BY <2>1, ValuedFrame, RememberedFrame, SubmittedFrame, RenderedFrame, ArrivedFrame, StreamedFrame,
       OpenedFrame, CountsFrame, TalliedFrame
    DEF Inductive
  <2>8. /\ Marked(g)' /\ Safe(g)' /\ HostHas(g)' /\ ReadBack(g)' /\ Masks(g)' /\ Overdue(g)'
        /\ Staged(g)' /\ Ready(g)'
    BY <2>1, MarkedFrame, SafeFrame, HostHasFrame, ReadBackFrame, MasksFrame, OverdueFrame,
       StagedFrame, ReadyFrame
    DEF Inductive
  <2>. QED BY <1>3, <2>5, <2>6, <2>7, <2>8 DEF Inductive
<1>. QED BY <1>5, <1>6
-----------------------------------------------------------------------------
(* The GPU. *)

\* The next command of the GPU, and the pass that it is for.
LEMMA NextCommand ==
    ASSUME TypeOK, NEW g \in Ghost, Inductive(g), stream # <<>>
    PROVE  /\ First = stream[1] /\ First.n \in Nat /\ gpu_done < submits
           /\ IsNext(g, gpu_done, First) /\ Carries(g, First)
           /\ First.op = "end" => First.n <= submits
           /\ First.op # "end" => /\ First.n = g.rendered + 1 /\ First.n \in 1 .. N
                                  /\ First.n \in g.rendered + 1 .. Recorded
                                  /\ First.n \in g.rendered + 1 .. Resolved
                                  /\ First.n > timeline
                                  /\ rpc = "resolve" => First.n # pass
<1>1. /\ gpu_done < submits /\ 1 \in 1 .. Len(stream) /\ stream[1].n \in Nat
  BY SomethingToDo
<1>2. First = stream[1]
  <2>1. stream \in Seq(Commands)
    BY DEF TypeOK
  <2>. QED BY <2>1 DEF First
<1>3. /\ IsNext(g, gpu_done, First) /\ Carries(g, First)
      /\ First.n <= IF First.op = "end" THEN submits ELSE g.last[submits]
  BY <1>1, <1>2 DEF Inductive, Streamed
<1>4. ASSUME First.op # "end"
      PROVE  /\ First.n = g.rendered + 1 /\ First.n \in 1 .. N
             /\ First.n \in g.rendered + 1 .. Recorded /\ First.n \in g.rendered + 1 .. Resolved
             /\ First.n > timeline /\ (rpc = "resolve" => First.n # pass)
  <2>1. First.n = g.rendered + 1 /\ First.n <= g.last[submits]
    BY <1>3, <1>4 DEF IsNext
  <2>2. Ordered(g) /\ pass \in Nat
    BY HowFar DEF TypeOK
  <2>3. /\ g.last[submits] <= Recorded /\ Recorded <= Resolved /\ Resolved <= N /\ g.rendered \in Nat
        /\ Recorded \in Nat /\ Resolved \in Nat /\ N \in Nat /\ g.last[gpu_done] <= g.rendered
    BY <2>2 DEF Ordered
  <2>4. g.last[submits] \in Nat /\ g.last[gpu_done] \in Nat /\ timeline \in Nat /\ timeline <= g.rendered
    <3>1. /\ g.last[submits] \in Nat /\ g.last[gpu_done] \in Nat /\ timeline \in Nat
          /\ timeline <= g.last[g.done] /\ g.last[g.done] <= g.last[gpu_done] /\ g.last[g.done] \in Nat
      BY <2>2, InOrder
    <3>. QED BY <2>3, <3>1
  <2>5. rpc = "resolve" => Recorded = pass - 1
    BY DEF Recorded
  <2>. QED BY <2>1, <2>2, <2>3, <2>4, <2>5
<1>. QED BY <1>1, <1>2, <1>3, <1>4

LEMMA StreamAdvances ==
    ASSUME TypeOK, NEW g \in Ghost, Inductive(g), stream # <<>>, stream' = Tail(stream),
           NEW h, h.last = g.last, h.masked = g.masked, h.direct = g.direct, submits' = submits,
           \A d : /\ Follows(g, submits, stream[1], d) /\ d.n \in Nat
                  /\ d.n <= IF d.op = "end" THEN submits ELSE g.last[submits]
                  => IsNext(h, gpu_done', d),
           stream[1].op = "end" => gpu_done' = stream[1].n
    PROVE  Streamed(h)'
<1>. DEFINE n == Len(stream)
<1>1. Streamed(g)
  BY DEF Inductive
<1>2. /\ n \in Nat /\ n # 0 /\ n \in 1 .. n /\ Len(stream') = n - 1
      /\ \A i \in 1 .. n - 1 : stream'[i] = stream[i + 1] /\ i + 1 \in 1 .. n
      /\ n - 1 = 0 <=> stream' = <<>>
      /\ \A i \in 1 .. n : stream[i].n \in Nat
  <2>1. stream \in Seq(Commands)
    BY DEF TypeOK
  <2>2. \A c \in Commands : c.n \in Nat
    BY DEF Commands
  <2>3. n \in Nat /\ n # 0 /\ n \in 1 .. n
    BY <2>1
  <2>4. stream' \in Seq(Commands) /\ Len(stream') = n - 1
    BY <2>1, <2>3
  <2>5. \A i \in 1 .. n - 1 : stream'[i] = stream[i + 1] /\ i + 1 \in 1 .. n
    BY <2>1, <2>3
  <2>6. n - 1 = 0 <=> stream' = <<>>
    <3>1. \A s \in Seq(Commands) : Len(s) = 0 <=> s = <<>>
      OBVIOUS
    <3>. QED BY <2>4, <3>1
  <2>7. \A i \in 1 .. n : stream[i].n \in Nat
    <3>1. \A i \in 1 .. n : stream[i] \in Commands
      BY <2>1
    <3>. QED BY <2>2, <3>1
  <2>. QED BY <2>3, <2>4, <2>5, <2>6, <2>7
<1>. HIDE DEF n
<1>3. stream' = <<>> => gpu_done' = submits'
  <2>. SUFFICES ASSUME stream' = <<>> PROVE gpu_done' = submits
    OBVIOUS
  <2>1. n = 1
    BY <1>2
  <2>. QED BY <1>1, <2>1 DEF Streamed, n
<1>4. stream' # <<>> => /\ IsNext(h, gpu_done', stream'[1])
                        /\ stream'[n - 1].op = "end" /\ stream'[n - 1].n = submits
  <2>. SUFFICES ASSUME stream' # <<>>
                PROVE  /\ IsNext(h, gpu_done', stream'[1])
                       /\ stream'[n - 1].op = "end" /\ stream'[n - 1].n = submits
    OBVIOUS
  <2>1. 1 \in 1 .. n - 1 /\ n - 1 \in 1 .. n - 1 /\ (n - 1) + 1 = n /\ 1 + 1 = 2 /\ 2 \in 1 .. n
    BY <1>2
  <2>2. stream'[1] = stream[2] /\ stream'[n - 1] = stream[n]
    BY <1>2, <2>1
  <2>3. Follows(g, submits, stream[1], stream[2])
    BY <1>1, <2>1 DEF Streamed, n
  <2>4. stream[2].n \in Nat /\ stream[2].n <= IF stream[2].op = "end" THEN submits ELSE g.last[submits]
    BY <1>1, <1>2, <2>1 DEF Streamed, n
  <2>5. stream[n].op = "end" /\ stream[n].n = submits
    BY <1>1 DEF Streamed, n
  <2>. QED BY <2>2, <2>3, <2>4, <2>5
<1>5. \A i \in 1 .. n - 1 : /\ Carries(h, stream'[i])
                            /\ stream'[i].n <= IF stream'[i].op = "end" THEN submits ELSE h.last[submits]
  <2>1. \A c : Carries(h, c) <=> Carries(g, c)
    BY DEF Carries
  <2>. QED BY <1>1, <1>2, <2>1 DEF Streamed, n
<1>6. \A i \in 1 .. (n - 1) - 1 : Follows(h, submits, stream'[i], stream'[i + 1])
  <2>. SUFFICES ASSUME NEW i \in 1 .. (n - 1) - 1
                PROVE  Follows(h, submits, stream'[i], stream'[i + 1])
    OBVIOUS
  <2>1. i \in 1 .. n - 1 /\ i + 1 \in 1 .. n - 1
    BY <1>2
  <2>2. stream'[i] = stream[i + 1] /\ stream'[i + 1] = stream[(i + 1) + 1]
    BY <1>2, <2>1
  <2>3. Follows(g, submits, stream[i + 1], stream[(i + 1) + 1])
    BY <1>1, <2>1 DEF Streamed, n
  <2>. QED BY <2>2, <2>3 DEF Follows
<1>. QED BY <1>2, <1>3, <1>4, <1>5, <1>6 DEF Streamed

(* What the host has gets to the bytes that the GPU has not written; what  *)
(* it has written is what the pass wants, or the page is not copied so.    *)
LEMMA MaskedResolveKeeps ==
    ASSUME TypeOK, NEW g \in Ghost, Inductive(g), MaskedResolve
    PROVE  \E h \in Ghost : Inductive(h)'
<1>h. PICK h : h = [g EXCEPT !.step = 1]
  OBVIOUS
<1>. DEFINE n == First.n
<1>1. /\ h \in Ghost /\ h.step = 1
      /\ h.val = g.val /\ h.last = g.last /\ h.sub = g.sub /\ h.here = g.here /\ h.count = g.count
      /\ h.done = g.done /\ h.rendered = g.rendered /\ h.direct = g.direct /\ h.masked = g.masked
  <2>1. /\ h.step = 1
        /\ h.val = g.val /\ h.last = g.last /\ h.sub = g.sub /\ h.here = g.here /\ h.count = g.count
        /\ h.done = g.done /\ h.rendered = g.rendered /\ h.direct = g.direct /\ h.masked = g.masked
    BY <1>h DEF Ghost
  <2>2. 1 \in 0 .. 2
    OBVIOUS
  <2>3. h \in Ghost
    BY <1>h, <2>2 DEF Ghost
  <2>. QED BY <2>1, <2>3
<1>2. /\ stream # <<>> /\ First.op = "masked" /\ stream' = Tail(stream)
      /\ rdram' = Overlay(rdram, Bytes(First.pages) \ mask, staging)
      /\ UNCHANGED <<host, staging, mask, marks, pending_writes, queue, renderer, cmd, submits,
                     gpu_done, staging_readback, worker, history>>
  BY DEF MaskedResolve, GpuStep
<1>3. /\ N' = N /\ Recorded' = Recorded /\ Resolved' = Resolved
      /\ UNCHANGED <<host, staging, mask, page_to_direct_copy, page_to_masked_copy,
                     page_to_pending_readback, pending_writes, queue, rpc, pass, todo, cmd, submits,
                     gpu_done, staging_readback, ops, copies, timeline, passes, truth>>
  BY <1>2 DEF N, Recorded, Resolved, marks, renderer, worker, history
<1>4. /\ First = stream[1] /\ gpu_done < submits /\ IsNext(g, gpu_done, First) /\ Carries(g, First)
      /\ n = g.rendered + 1 /\ n \in 1 .. N /\ n \in g.rendered + 1 .. Recorded
      /\ n \in g.rendered + 1 .. Resolved /\ (rpc = "resolve" => n # pass)
  BY <1>2, NextCommand
<1>5. Ordered(g) /\ First.pages = g.masked[n] /\ First.pages \in SUBSET Page
  <2>1. First.pages = g.masked[n] /\ n \in Nat
    BY <1>2, <1>4 DEF Carries
  <2>. QED BY <2>1, HowFar DEF Ghost
<1>6. \A b \in Byte : rdram'[b] = IF b[1] \in g.masked[n] /\ b \notin mask THEN staging[b] ELSE rdram[b]
  BY <1>2, <1>5, ByteHasPage DEF Overlay
<1>7. Rendered(h)'
  <2>1. g.last[gpu_done + 1] \in Nat /\ g.rendered < g.last[gpu_done + 1]
    <3>1. n <= g.last[gpu_done + 1]
      BY <1>2, <1>4 DEF IsNext
    <3>2. g.rendered \in Nat /\ gpu_done + 1 \in Nat /\ \A f \in Nat : g.last[f] \in Nat
      BY <1>5 DEF Ordered
    <3>. QED BY <1>4, <3>1, <3>2
  <2>2. Rendered(g) /\ gpu_done # submits
    BY <1>4, <1>5 DEF Inductive, Ordered
  <2>. QED BY <1>1, <1>3, <2>1, <2>2 DEF Rendered
<1>8. Streamed(h)'
  <2>1. \A d : Follows(g, submits, First, d) => d.op = "copy" /\ d.n = n
    BY <1>2 DEF Follows
  <2>2. \A d : Follows(g, submits, First, d) => IsNext(h, gpu_done, d)
    BY <1>1, <1>4, <2>1 DEF IsNext
  <2>. QED BY <1>1, <1>2, <1>3, <1>4, <2>2, StreamAdvances
<1>9. Masks(h)' /\ Overdue(h)'
  <2>1. Masks(g) /\ Overdue(g)
    BY DEF Inductive
  <2>2. \A b \in Byte : Stale(h, b)' => Stale(g, b)
    BY <1>1, <1>3, <1>6 DEF Stale
  <2>3. Masks(h)'
    BY <1>1, <1>3, <2>1 DEF Masks, Upto, Drawn
  <2>4. Overdue(h)'
    BY <1>1, <1>3, <2>1, <2>2 DEF Overdue, Upto, Until, Concerns
  <2>. QED BY <2>3, <2>4
<1>10. Ready(h)'
  <2>1. ASSUME NEW b \in Touched(passes, n), b[1] \notin g.direct[n] PROVE rdram'[b] = g.val[b][g.rendered]
    <3>1. b \in Byte /\ n - 1 = g.rendered /\ g.rendered \in Nat
      BY <1>4, <1>5, PassType DEF Ordered
    <3>2. b[1] \in g.masked[n]
      BY <1>4, <2>1 DEF Inductive, Marked
    <3>3. CASE b \notin mask
      <4>1. staging[b] = g.val[b][n - 1] \/ Kept(g, b, n)
        BY <1>4, <2>1 DEF Inductive, Staged
      <4>2. ~Kept(g, b, n)
        BY <1>4, <3>1, <3>3 DEF Kept
      <4>. QED BY <1>6, <3>1, <3>2, <3>3, <4>1, <4>2
    <3>4. CASE b \in mask
      <4>1. ASSUME Stale(g, b) PROVE FALSE
        <5>1. Concerns(passes, n, b)
          BY <2>1 DEF Concerns, Dirties, Touched
        <5>2. Until(g, b[1], g.rendered, n)
          BY <1>4, <3>1, <4>1, <5>1 DEF Inductive, Overdue
        <5>. QED BY <1>4, <2>1, <3>1, <5>2 DEF Until
      <4>. QED BY <1>6, <3>1, <3>4, <4>1 DEF Stale
    <3>. QED BY <3>3, <3>4
  <2>. QED BY <1>1, <1>3, <1>4, <2>1 DEF Ready
<1>11. /\ Valued(h)' /\ Remembered(h)' /\ Queued' /\ Submitted(h)' /\ Arrived(h)' /\ Opened(h)'
       /\ Fenced(h)' /\ Signals(h)' /\ Counts(h)' /\ Tallied(h)'
  BY <1>1, <1>3, ValuedFrame, RememberedFrame, QueuedFrame, SubmittedFrame, ArrivedFrame,
     OpenedFrame, FencedFrame, SignalsFrame, CountsFrame, TalliedFrame
  DEF Inductive
<1>12. Marked(h)' /\ Safe(h)' /\ HostHas(h)' /\ ReadBack(h)' /\ Staged(h)'
  BY <1>1, <1>3, MarkedFrame, SafeFrame, HostHasFrame, ReadBackFrame, StagedFrame DEF Inductive
<1>. QED BY <1>1, <1>7, <1>8, <1>9, <1>10, <1>11, <1>12 DEF Inductive

(* A page is copied directly when the host has all that the GPU wrote to   *)
(* it, so that no result is lost with its mask.                            *)
LEMMA CopyKeeps ==
    ASSUME TypeOK, NEW g \in Ghost, Inductive(g), Copy
    PROVE  \E h \in Ghost : Inductive(h)'
<1>h. PICK h : h = [g EXCEPT !.step = 2]
  OBVIOUS
<1>. DEFINE n == First.n
<1>1. /\ h \in Ghost /\ h.step = 2
      /\ h.val = g.val /\ h.last = g.last /\ h.sub = g.sub /\ h.here = g.here /\ h.count = g.count
      /\ h.done = g.done /\ h.rendered = g.rendered /\ h.direct = g.direct /\ h.masked = g.masked
  <2>1. /\ h.step = 2
        /\ h.val = g.val /\ h.last = g.last /\ h.sub = g.sub /\ h.here = g.here /\ h.count = g.count
        /\ h.done = g.done /\ h.rendered = g.rendered /\ h.direct = g.direct /\ h.masked = g.masked
    BY <1>h DEF Ghost
  <2>2. 2 \in 0 .. 2
    OBVIOUS
  <2>3. h \in Ghost
    BY <1>h, <2>2 DEF Ghost
  <2>. QED BY <2>1, <2>3
<1>2. /\ stream # <<>> /\ First.op = "copy" /\ stream' = Tail(stream)
      /\ rdram' = Overlay(rdram, Bytes(First.pages), staging)
      /\ mask' = mask \ Bytes(First.pages)
      /\ UNCHANGED <<host, staging, marks, pending_writes, queue, renderer, cmd, submits,
                     gpu_done, staging_readback, worker, history>>
  BY DEF Copy, GpuStep
<1>3. /\ N' = N /\ Recorded' = Recorded /\ Resolved' = Resolved
      /\ UNCHANGED <<host, staging, page_to_direct_copy, page_to_masked_copy,
                     page_to_pending_readback, pending_writes, queue, rpc, pass, todo, cmd, submits,
                     gpu_done, staging_readback, ops, copies, timeline, passes, truth>>
  BY <1>2 DEF N, Recorded, Resolved, marks, renderer, worker, history
<1>4. /\ First = stream[1] /\ gpu_done < submits /\ IsNext(g, gpu_done, First) /\ Carries(g, First)
      /\ n = g.rendered + 1 /\ n \in 1 .. N /\ n \in g.rendered + 1 .. Recorded
      /\ n \in g.rendered + 1 .. Resolved /\ (rpc = "resolve" => n # pass)
      /\ g.step = 1
  <2>1. IsNext(g, gpu_done, First)
    BY <1>2, NextCommand
  <2>. QED BY <1>2, <2>1, NextCommand DEF IsNext
<1>5. Ordered(g) /\ First.pages = g.direct[n] /\ First.pages \in SUBSET Page
  <2>1. First.pages = g.direct[n] /\ n \in Nat
    BY <1>2, <1>4 DEF Carries
  <2>. QED BY <2>1, HowFar DEF Ghost
<1>6. /\ \A b \in Byte : rdram'[b] = IF b[1] \in g.direct[n] THEN staging[b] ELSE rdram[b]
      /\ \A b \in Byte : b \in mask' <=> b \in mask /\ b[1] \notin g.direct[n]
      /\ mask' \subseteq mask /\ mask \subseteq Byte
  <2>1. \A b \in Byte : b \in Bytes(First.pages) <=> b[1] \in g.direct[n]
    BY <1>5, ByteHasPage
  <2>2. mask \subseteq Byte
    BY DEF TypeOK
  <2>. QED BY <1>2, <2>1, <2>2 DEF Overlay
<1>7. Rendered(h)'
  <2>1. Rendered(g) /\ gpu_done # submits
    BY <1>4, <1>5 DEF Inductive, Ordered
  <2>. QED BY <1>1, <1>3, <1>4, <2>1 DEF Rendered
<1>8. Streamed(h)'
  <2>1. \A d : Follows(g, submits, First, d) => d.op = "render" /\ d.n = n
    BY <1>2 DEF Follows
  <2>2. \A d : Follows(g, submits, First, d) => IsNext(h, gpu_done, d)
    BY <1>1, <1>4, <2>1 DEF IsNext
  <2>. QED BY <1>1, <1>2, <1>3, <1>4, <2>2, StreamAdvances
<1>9. Masks(h)'
  <2>1. Masks(g) /\ Safe(g)
    BY DEF Inductive
  <2>2. ASSUME NEW b \in Byte, NEW m \in Upto(g, b[1]) + 1 .. g.rendered, b \in passes[m].writes
        PROVE  b \in mask'
    <3>1. b \in mask
      BY <2>1, <2>2 DEF Masks
    <3>2. ASSUME b[1] \in g.direct[n] PROVE FALSE
      <4>1. b[1] \in Page /\ Upto(g, b[1]) \in Nat /\ g.rendered \in Nat
        BY <1>5, ByteHasPage DEF Ordered
      <4>2. m \in 1 .. n - 1 /\ ~(m <= Upto(g, b[1]))
        BY <1>4, <4>1
      <4>3. Dirties(passes, m, b[1])
        BY <2>2 DEF Dirties
      <4>. QED BY <1>4, <2>1, <3>2, <4>2, <4>3 DEF Safe
    <3>. QED BY <1>6, <3>1, <3>2
  <2>3. \A b \in mask' : b[1] \notin g.direct[g.rendered + 1]
    BY <1>4, <1>6
  <2>. QED BY <1>1, <1>3, <1>6, <2>1, <2>2, <2>3 DEF Masks, Upto, Drawn
<1>10. Overdue(h)'
  <2>1. \A b \in Byte : Stale(h, b)' => Stale(g, b)
    BY <1>1, <1>3, <1>6 DEF Stale
  <2>2. Overdue(g)
    BY DEF Inductive
  <2>. QED BY <1>1, <1>3, <2>1, <2>2 DEF Overdue, Upto, Until, Concerns
<1>11. Staged(h)'
  <2>1. ASSUME NEW k \in g.rendered + 1 .. Resolved, NEW b \in Touched(passes, k), Kept(g, b, k)
        PROVE  Kept(h, b, k)'
    <3>1. PICK m \in 1 .. k - 1 : /\ b \in passes[m].writes /\ (m > g.rendered \/ b \in mask)
                                 /\ ~Until(g, b[1], m, k)
      BY <2>1 DEF Kept
    <3>2. ASSUME m <= g.rendered, b[1] \in g.direct[n] PROVE FALSE
      <4>1. n \in m + 1 .. k /\ n > g.rendered
        BY <1>4, <1>5, <3>2 DEF Ordered
      <4>. QED BY <3>1, <3>2, <4>1 DEF Until
    <3>3. m > g.rendered \/ b \in mask'
      <4>1. m > g.rendered \/ m <= g.rendered
        BY <1>5 DEF Ordered
      <4>. QED BY <1>6, <3>1, <3>2, <4>1
    <3>. QED BY <1>1, <1>3, <3>1, <3>3 DEF Kept, Until
  <2>2. Staged(g)
    BY DEF Inductive
  <2>. QED BY <1>1, <1>3, <2>1, <2>2 DEF Staged
<1>12. Ready(h)'
  <2>1. ASSUME NEW b \in Touched(passes, n) PROVE rdram'[b] = g.val[b][g.rendered]
    <3>1. b \in Byte /\ n - 1 = g.rendered /\ g.rendered \in Nat
      BY <1>4, <1>5, PassType DEF Ordered
    <3>2. CASE b[1] \notin g.direct[n]
      BY <1>4, <1>6, <2>1, <3>1, <3>2 DEF Inductive, Ready
    <3>3. CASE b[1] \in g.direct[n]
      <4>1. staging[b] = g.val[b][n - 1] \/ Kept(g, b, n)
        BY <1>4, <2>1 DEF Inductive, Staged
      <4>2. ASSUME NEW m \in 1 .. n - 1 PROVE Until(g, b[1], m, n)
        <5>1. n \in m + 1 .. n /\ n > g.rendered
          BY <1>4, <3>1
        <5>. QED BY <3>3, <5>1 DEF Until
      <4>3. ~Kept(g, b, n)
        BY <4>2 DEF Kept
      <4>. QED BY <1>6, <3>1, <3>3, <4>1, <4>3
    <3>. QED BY <3>2, <3>3
  <2>. QED BY <1>1, <1>3, <1>4, <2>1 DEF Ready
<1>13. /\ Valued(h)' /\ Remembered(h)' /\ Queued' /\ Submitted(h)' /\ Arrived(h)' /\ Opened(h)'
       /\ Fenced(h)' /\ Signals(h)' /\ Counts(h)' /\ Tallied(h)'
  BY <1>1, <1>3, ValuedFrame, RememberedFrame, QueuedFrame, SubmittedFrame, ArrivedFrame,
     OpenedFrame, FencedFrame, SignalsFrame, CountsFrame, TalliedFrame
  DEF Inductive
<1>14. Marked(h)' /\ Safe(h)' /\ HostHas(h)' /\ ReadBack(h)'
  BY <1>1, <1>3, MarkedFrame, SafeFrame, HostHasFrame, ReadBackFrame DEF Inductive
<1>. QED BY <1>1, <1>7, <1>8, <1>9, <1>10, <1>11, <1>12, <1>13, <1>14 DEF Inductive

(* A pass writes; what the host wrote over what it reads or writes has     *)
(* been copied before.                                                     *)
LEMMA RenderKeeps ==
    ASSUME TypeOK, NEW g \in Ghost, Inductive(g), Render
    PROVE  \E h \in Ghost : Inductive(h)'
<1>. DEFINE n == First.n
<1>h. PICK h : h = [g EXCEPT !.rendered = First.n, !.step = 0]
  OBVIOUS
<1>1. /\ stream # <<>> /\ First.op = "render" /\ stream' = Tail(stream)
      /\ rdram' = [b \in Byte |-> IF b \in passes[n].writes THEN passes[n].value ELSE rdram[b]]
      /\ mask' = mask \union passes[n].writes
      /\ UNCHANGED <<host, staging, marks, pending_writes, queue, renderer, cmd, submits, gpu_done,
                     staging_readback, worker, history>>
  BY DEF Render, GpuStep
<1>2. /\ First = stream[1] /\ gpu_done < submits
      /\ n = g.rendered + 1 /\ n \in 1 .. N /\ n \in g.rendered + 1 .. Recorded
      /\ n \in g.rendered + 1 .. Resolved /\ (rpc = "resolve" => n # pass) /\ n > timeline
      /\ g.step = 2 /\ n \in Nat
  <2>1. IsNext(g, gpu_done, First)
    BY <1>1, NextCommand
  <2>. QED BY <1>1, <2>1, NextCommand DEF IsNext
<1>3. /\ h \in Ghost /\ h.step = 0 /\ h.rendered = n
      /\ h.val = g.val /\ h.last = g.last /\ h.sub = g.sub /\ h.here = g.here /\ h.count = g.count
      /\ h.done = g.done /\ h.direct = g.direct /\ h.masked = g.masked
  <2>1. /\ h.step = 0 /\ h.rendered = n
        /\ h.val = g.val /\ h.last = g.last /\ h.sub = g.sub /\ h.here = g.here /\ h.count = g.count
        /\ h.done = g.done /\ h.direct = g.direct /\ h.masked = g.masked
    BY <1>h DEF Ghost
  <2>2. 0 \in 0 .. 2 /\ n \in Nat
    BY <1>2
  <2>3. h \in Ghost
    BY <1>h, <2>2 DEF Ghost
  <2>. QED BY <2>1, <2>3
<1>4. /\ N' = N /\ Recorded' = Recorded /\ Resolved' = Resolved
      /\ UNCHANGED <<host, staging, page_to_direct_copy, page_to_masked_copy,
                     page_to_pending_readback, pending_writes, queue, rpc, pass, todo, cmd, submits,
                     gpu_done, staging_readback, ops, copies, timeline, passes, truth>>
  BY <1>1 DEF N, Recorded, Resolved, marks, renderer, worker, history
<1>5. Ordered(g) /\ g.rendered \in Nat /\ n - 1 = g.rendered /\ g.rendered < n
  BY <1>2, HowFar DEF Ordered
<1>6. /\ \A b \in Byte : /\ b \in passes[n].writes => rdram'[b] = g.val[b][n]
                         /\ b \notin passes[n].writes => rdram'[b] = rdram[b]
      /\ passes[n].writes \subseteq Byte
  <2>1. \A b \in passes[n].writes : g.val[b][n] = passes[n].value
    BY <1>2 DEF Inductive, Remembered
  <2>2. passes[n].writes \subseteq Byte
    BY <1>2, PassType
  <2>. QED BY <1>1, <2>1, <2>2
<1>7. ASSUME NEW b \in Byte, b \notin passes[n].writes PROVE g.val[b][n] = g.val[b][g.rendered]
  <2>1. Alone(passes, b, g.rendered, n)
    BY <1>2, <1>5, <1>7 DEF Alone
  <2>2. g.rendered \in 0 .. N /\ n \in 0 .. N /\ g.rendered <= n
    <3>1. N \in Nat
      BY <1>5 DEF Ordered
    <3>. QED BY <1>2, <1>5, <3>1
  <2>. QED BY <1>7, <2>1, <2>2 DEF Inductive, Valued
<1>8. g.last[gpu_done + 1] \in Nat /\ n <= g.last[gpu_done + 1] /\ g.last[gpu_done] \in Nat
      /\ g.last[gpu_done] <= g.rendered /\ gpu_done \in 0 .. submits /\ submits \in Nat
  <2>1. gpu_done + 1 \in Nat /\ gpu_done \in Nat
    BY <1>5, InOrder
  <2>. QED BY <1>2, <1>5, <2>1 DEF Ordered
<1>9. Rendered(h)'
  <2>1. Rendered(g) /\ gpu_done # submits
    BY <1>2, <1>8 DEF Inductive
  <2>2. g.last[gpu_done] <= n
    BY <1>2, <1>5, <1>8
  <2>. QED BY <1>2, <1>3, <1>4, <1>8, <2>1, <2>2 DEF Rendered
<1>10. Streamed(h)'
  <2>1. ASSUME NEW d, Follows(g, submits, First, d), d.n \in Nat,
               d.n <= IF d.op = "end" THEN submits ELSE g.last[submits]
        PROVE  IsNext(h, gpu_done, d)
    <3>1. CASE d.op = "masked"
      <4>1. d.n = n + 1 /\ \A f \in 0 .. submits : g.last[f] # n
        BY <1>1, <2>1, <3>1 DEF Follows
      <4>2. gpu_done + 1 \in 0 .. submits
        BY <1>2, <1>8
      <4>. QED BY <1>2, <1>3, <1>8, <3>1, <4>1, <4>2 DEF IsNext
    <3>2. CASE d.op # "masked"
      <4>1. d.op = "end" /\ d.n \in 1 .. submits /\ g.last[d.n] = n
        BY <1>1, <2>1, <3>2 DEF Follows
      <4>2. \A e, f \in 0 .. submits : e < f => g.last[e] < g.last[f]
        BY DEF Inductive, Submitted
      <4>3. gpu_done + 1 \in 0 .. submits /\ d.n \in 0 .. submits
        BY <1>2, <1>8, <4>1
      <4>4. ~(gpu_done + 1 < d.n)
        BY <1>2, <1>8, <4>1, <4>2, <4>3
      <4>5. ~(d.n <= gpu_done)
        <5>1. d.n < gpu_done => n < g.last[gpu_done]
          BY <1>8, <4>1, <4>2, <4>3
        <5>2. d.n = gpu_done => n = g.last[gpu_done]
          BY <4>1
        <5>3. ~(n <= g.last[gpu_done])
          BY <1>2, <1>5, <1>8
        <5>. QED BY <1>2, <1>8, <4>3, <5>1, <5>2, <5>3
      <4>6. d.n = gpu_done + 1
        BY <1>8, <4>3, <4>4, <4>5
      <4>7. h.step = 0 /\ h.rendered = n /\ h.last = g.last
        BY <1>3
      <4>. QED BY <4>1, <4>6, <4>7 DEF IsNext
    <3>. QED BY <3>1, <3>2
  <2>. QED BY <1>1, <1>2, <1>3, <1>4, <2>1, StreamAdvances
<1>11. Marked(h)' /\ Safe(h)'
  <2>1. Marked(g) /\ Safe(g)
    BY DEF Inductive
  <2>2. \A k : n + 1 .. k \subseteq g.rendered + 1 .. k
    BY <1>2, <1>5
  <2>3. Marked(h)'
    BY <1>3, <1>4, <2>1, <2>2 DEF Marked
  <2>4. Safe(h)'
    BY <1>3, <1>4, <2>1, <2>2 DEF Safe, Upto
  <2>. QED BY <2>3, <2>4
<1>12. Masks(h)'
  <2>1. Masks(g)
    BY DEF Inductive
  <2>2. \A b \in mask' : Drawn(passes, b)
    <3>1. \A b \in passes[n].writes : Drawn(passes, b)
      BY <1>2 DEF Drawn, N
    <3>. QED BY <1>1, <2>1, <3>1 DEF Masks
  <2>3. ASSUME NEW b \in Byte, NEW m \in Upto(g, b[1]) + 1 .. n, b \in passes[m].writes
        PROVE  b \in mask'
    <3>1. CASE m = n
      BY <1>1, <2>3, <3>1
    <3>2. CASE m # n
      <4>1. Upto(g, b[1]) \in Nat
        BY <1>5, ByteHasPage DEF Ordered
      <4>2. m \in Upto(g, b[1]) + 1 .. g.rendered
        BY <1>2, <1>5, <3>2, <4>1
      <4>. QED BY <1>1, <2>1, <2>3, <4>2 DEF Masks
    <3>. QED BY <3>1, <3>2
  <2>4. passes' = passes /\ h.step # 2 /\ h.rendered = n /\ \A p : Upto(h, p) = Upto(g, p)
    BY <1>3, <1>4 DEF Upto
  <2>. QED BY <2>2, <2>3, <2>4 DEF Masks
<1>13. Overdue(h)'
  <2>1. Overdue(g) /\ Masks(g)
    BY DEF Inductive
  <2>2. ASSUME NEW b \in Byte, Stale(h, b)'
        PROVE  b \notin passes[n].writes /\ Stale(g, b) /\ b[1] \notin g.direct[n]
    <3>1. b \notin passes[n].writes
      BY <1>3, <1>6, <2>2 DEF Stale
    <3>2. Stale(g, b)
      BY <1>1, <1>3, <1>6, <1>7, <2>2, <3>1 DEF Stale
    <3>3. b[1] \notin g.direct[n]
      BY <1>2, <2>1, <3>2 DEF Stale, Masks
    <3>. QED BY <3>1, <3>2, <3>3
  <2>3. ASSUME NEW p, p \notin g.direct[n], NEW k, Until(g, p, g.rendered, k) PROVE Until(h, p, n, k)
    <3>1. PICK j \in g.rendered + 1 .. k : j > g.rendered /\ p \in g.direct[j]
      BY <2>3 DEF Until
    <3>2. j \in n + 1 .. k /\ j > n
      BY <1>2, <1>5, <2>3, <3>1
    <3>. QED BY <1>3, <3>1, <3>2 DEF Until
  <2>4. ASSUME NEW b \in Byte, Stale(h, b)', NEW m \in Upto(g, b[1]) + 1 .. n PROVE ~Dirties(passes, m, b[1])
    <3>0. Stale(g, b) /\ b[1] \notin g.direct[n]
      BY <2>2, <2>4
    <3>1. CASE m = n
      <4>1. ~Concerns(passes, n, b)
        <5>1. Concerns(passes, n, b) => Until(g, b[1], g.rendered, n)
          BY <1>2, <2>1, <3>0 DEF Overdue
        <5>2. ~Until(g, b[1], g.rendered, n)
          BY <1>2, <1>5, <3>0 DEF Until
        <5>. QED BY <5>1, <5>2
      <4>. QED BY <3>1, <4>1 DEF Concerns
    <3>2. CASE m # n
      <4>1. Upto(g, b[1]) \in Nat
        BY <1>5, ByteHasPage DEF Ordered
      <4>2. m \in Upto(g, b[1]) + 1 .. g.rendered
        BY <1>2, <1>5, <3>2, <4>1
      <4>. QED BY <2>1, <3>0, <4>2 DEF Overdue
    <3>. QED BY <3>1, <3>2
  <2>5. ASSUME NEW b \in Byte, Stale(h, b)', NEW m \in n + 1 .. Recorded, Concerns(passes, m, b)
        PROVE  Until(h, b[1], n, m)
    <3>1. m \in g.rendered + 1 .. Recorded
      BY <1>2, <1>5
    <3>2. Until(g, b[1], g.rendered, m)
      BY <2>1, <2>2, <2>5, <3>1 DEF Overdue
    <3>. QED BY <2>2, <2>3, <2>5, <3>2
  <2>6. ASSUME NEW b \in Byte, Stale(h, b)', rpc # "idle", Concerns(passes, pass, b),
               b[1] \in page_to_masked_copy
        PROVE  Until(h, b[1], n, Recorded)
    <3>1. Until(g, b[1], g.rendered, Recorded)
      BY <2>1, <2>2, <2>6 DEF Overdue
    <3>. QED BY <2>2, <2>3, <2>6, <3>1
  <2>7. /\ h.rendered = n /\ (\A p : Upto(h, p) = Upto(g, p))
        /\ UNCHANGED <<passes, rpc, pass, page_to_masked_copy, Recorded>>
    BY <1>3, <1>4 DEF Upto
  <2>. QED BY <2>4, <2>5, <2>6, <2>7 DEF Overdue
<1>14. Staged(h)'
  <2>1. ASSUME NEW k \in n + 1 .. Resolved, NEW b \in Touched(passes, k), Kept(g, b, k)
        PROVE  Kept(h, b, k)'
    <3>1. PICK m \in 1 .. k - 1 : /\ b \in passes[m].writes /\ (m > g.rendered \/ b \in mask)
                                 /\ ~Until(g, b[1], m, k)
      BY <2>1 DEF Kept
    <3>2. m > n \/ b \in mask'
      <4>1. m > n \/ m = n \/ ~(m > g.rendered)
        BY <1>2, <1>5
      <4>2. m = n => b \in mask'
        BY <1>1, <3>1
      <4>3. b \in mask => b \in mask'
        BY <1>1
      <4>. QED BY <3>1, <4>1, <4>2, <4>3
    <3>3. ~Until(h, b[1], m, k)
      <4>1. \A j \in m + 1 .. k : j > n => j > g.rendered
        BY <1>2, <1>5
      <4>. QED BY <1>3, <3>1, <4>1 DEF Until
    <3>. QED BY <1>3, <1>4, <3>1, <3>2, <3>3 DEF Kept
  <2>2. Staged(g) /\ n + 1 .. Resolved \subseteq g.rendered + 1 .. Resolved
    BY <1>2, <1>5 DEF Inductive
  <2>3. /\ h.rendered = n /\ h.val = g.val
        /\ UNCHANGED <<passes, rpc, pass, todo, staging, Resolved>>
    BY <1>3, <1>4
  <2>. QED BY <2>1, <2>2, <2>3 DEF Staged
<1>15. Ready(h)'
  BY <1>3 DEF Ready
<1>16. /\ Valued(h)' /\ Remembered(h)' /\ Queued' /\ Submitted(h)' /\ Arrived(h)' /\ Opened(h)'
       /\ Fenced(h)' /\ Signals(h)' /\ Counts(h)' /\ Tallied(h)' /\ HostHas(h)' /\ ReadBack(h)'
  BY <1>3, <1>4, ValuedFrame, RememberedFrame, QueuedFrame, SubmittedFrame, ArrivedFrame, OpenedFrame,
     FencedFrame, SignalsFrame, CountsFrame, TalliedFrame, HostHasFrame, ReadBackFrame
  DEF Inductive
<1>. QED BY <1>3, <1>9, <1>10, <1>11, <1>12, <1>13, <1>14, <1>15, <1>16 DEF Inductive

(* What is read back of a page that the submission locked is right where   *)
(* the mask says so.                                                       *)
LEMMA EndKeeps ==
    ASSUME ~Mapped, TypeOK, NEW g \in Ghost, Inductive(g), End PROVE Inductive(g)'
<1>. PICK e : e = First.n
  OBVIOUS
<1>. PICK r : r = [data |-> rdram, mask |-> mask]
  OBVIOUS
<1>1. /\ stream # <<>> /\ First.op = "end" /\ stream' = Tail(stream)
      /\ gpu_done' = e /\ staging_readback' = Append(staging_readback, r)
      /\ UNCHANGED <<memory, marks, pending_writes, queue, renderer, cmd, submits, worker, history>>
  BY DEF End, GpuStep
<1>2. /\ N' = N /\ Recorded' = Recorded /\ Resolved' = Resolved
      /\ UNCHANGED <<host, staging, rdram, mask, page_to_direct_copy, page_to_masked_copy,
                     page_to_pending_readback, pending_writes, queue, rpc, pass, todo, cmd, submits,
                     ops, copies, timeline, passes, truth>>
  BY <1>1 DEF N, Recorded, Resolved, memory, marks, renderer, worker, history
<1>3. /\ First = stream[1] /\ e = gpu_done + 1 /\ e \in 1 .. submits /\ gpu_done < submits
      /\ g.step = 0 /\ g.last[e] = g.rendered /\ gpu_done \in Nat /\ submits \in Nat /\ e \in Nat
  <2>1. /\ First = stream[1] /\ IsNext(g, gpu_done, First) /\ First.n <= submits /\ gpu_done < submits
    BY <1>1, NextCommand
  <2>2. gpu_done \in Nat /\ submits \in Nat
    BY DEF TypeOK
  <2>. QED BY <1>1, <2>1, <2>2 DEF IsNext
<1>4. Ordered(g) /\ g.rendered \in Nat
  BY HowFar DEF Ordered
<1>5. \A x, y \in 0 .. submits : x < y => g.last[x] < g.last[y]
  BY DEF Inductive, Submitted
<1>6. Rendered(g)'
  <2>1. e < submits => g.rendered <= g.last[e + 1]
    <3>. SUFFICES ASSUME e < submits PROVE g.rendered <= g.last[e + 1]
      OBVIOUS
    <3>1. e \in 0 .. submits /\ e + 1 \in 0 .. submits /\ e < e + 1 /\ e + 1 \in Nat
      BY <1>3
    <3>2. g.last[e] < g.last[e + 1]
      BY <1>5, <3>1
    <3>3. g.last[e + 1] \in Nat
      BY <1>4, <3>1 DEF Ordered
    <3>. QED BY <1>3, <1>4, <3>2, <3>3
  <2>2. g.last[e] <= g.rendered
    BY <1>3, <1>4
  <2>3. e = submits => g.rendered = g.last[submits] /\ g.step = 0
    BY <1>3
  <2>. QED BY <1>1, <1>2, <1>3, <2>1, <2>2, <2>3 DEF Rendered
<1>7. Arrived(g)'
  <2>1. Arrived(g) /\ g.done \in Nat
    BY DEF Inductive, Ghost
  <2>2. g.done <= e /\ (copies # {} => g.done < e)
    BY <1>3, <2>1 DEF Arrived
  <2>. QED BY <1>1, <1>2, <2>1, <2>2 DEF Arrived
<1>8. Streamed(g)'
  <2>1. ASSUME NEW d, Follows(g, submits, First, d), d.n \in Nat,
               d.n <= IF d.op = "end" THEN submits ELSE g.last[submits]
        PROVE  IsNext(g, e, d)
    <3>1. d.op = "masked" /\ d.n = g.rendered + 1 /\ d.n <= g.last[submits]
      BY <1>1, <1>3, <2>1 DEF Follows
    <3>2. e < submits
      <4>1. g.last[submits] # g.rendered
        BY <1>4, <3>1
      <4>. QED BY <1>3, <4>1
    <3>3. e \in 0 .. submits /\ e + 1 \in 0 .. submits /\ e < e + 1 /\ e + 1 \in Nat
      BY <1>3, <3>2
    <3>4. g.last[e] < g.last[e + 1]
      BY <1>5, <3>3
    <3>5. g.last[e + 1] \in Nat
      BY <1>4, <3>3 DEF Ordered
    <3>. QED BY <1>3, <1>4, <3>1, <3>4, <3>5 DEF IsNext
  <2>. QED BY <1>1, <1>2, <1>3, <2>1, StreamAdvances
<1>9. ReadBack(g)'
  <2>1. ReadBack(g) /\ Masks(g) /\ Overdue(g)
    BY DEF Inductive
  <2>2. /\ Len(staging_readback) = gpu_done /\ Len(staging_readback') = e /\ staging_readback'[e] = r
        /\ \A f \in 1 .. gpu_done : staging_readback'[f] = staging_readback[f]
    <3>1. Len(staging_readback) = gpu_done
      BY <2>1 DEF ReadBack
    <3>2. \E T : staging_readback \in Seq(T)
      BY DEF TypeOK
    <3>. QED BY <1>1, <1>3, <3>1, <3>2
  <2>3. ASSUME NEW b \in Byte, e > g.here[b[1]], b[1] \in Locked(passes, g, e)
        PROVE  /\ b \in mask => rdram[b] = g.val[b][g.last[e]] /\ Drawn(passes, b)
               /\ \A n \in Upto(g, b[1]) + 1 .. g.last[e] : b \in passes[n].writes => b \in mask
    <3>1. \A n \in Upto(g, b[1]) + 1 .. g.last[e] : b \in passes[n].writes => b \in mask
      BY <1>3, <2>1 DEF Masks
    <3>2. b \in mask => Drawn(passes, b)
      BY <2>1 DEF Masks
    <3>3. ASSUME Stale(g, b) PROVE FALSE
      <4>1. PICK n \in g.last[e - 1] + 1 .. g.last[e] : Dirties(passes, n, b[1])
        BY <2>3 DEF Locked
      <4>2. Upto(g, b[1]) <= g.last[gpu_done] /\ Upto(g, b[1]) \in Nat /\ g.last[gpu_done] \in Nat
        BY <1>3, <1>4, ByteHasPage DEF Ordered
      <4>3. n \in Upto(g, b[1]) + 1 .. g.rendered
        <5>1. e - 1 = gpu_done
          BY <1>3
        <5>. QED BY <1>3, <1>4, <4>1, <4>2, <5>1
      <4>. QED BY <2>1, <3>3, <4>1, <4>3 DEF Overdue
    <3>. QED BY <1>3, <3>1, <3>2, <3>3 DEF Stale
  <2>4. \A f \in 1 .. e : f = e \/ f \in 1 .. gpu_done
    BY <1>3
  <2>5. ASSUME NEW f \in 1 .. e, NEW b \in Byte, f > g.here[b[1]], b[1] \in Locked(passes, g, f)
        PROVE  /\ b \in staging_readback'[f].mask =>
                      /\ staging_readback'[f].data[b] = g.val[b][g.last[f]]
                      /\ Drawn(passes, b)
               /\ \A n \in Upto(g, b[1]) + 1 .. g.last[f] :
                      b \in passes[n].writes => b \in staging_readback'[f].mask
    <3>1. CASE f = e
      BY <2>2, <2>3, <2>5, <3>1
    <3>2. CASE f \in 1 .. gpu_done
      BY <2>1, <2>2, <2>5, <3>2 DEF ReadBack
    <3>. QED BY <2>4, <3>1, <3>2
  <2>6. passes' = passes /\ gpu_done' = e
    BY <1>1, <1>2
  <2>. QED BY <2>2, <2>5, <2>6 DEF ReadBack
<1>10. /\ Valued(g)' /\ Remembered(g)' /\ Queued' /\ Submitted(g)' /\ Opened(g)' /\ Fenced(g)'
       /\ Signals(g)' /\ Counts(g)' /\ Tallied(g)'
  BY <1>2, ValuedFrame, RememberedFrame, QueuedFrame, SubmittedFrame, OpenedFrame, FencedFrame,
     SignalsFrame, CountsFrame, TalliedFrame
  DEF Inductive
<1>11. /\ Marked(g)' /\ Safe(g)' /\ HostHas(g)' /\ Masks(g)' /\ Overdue(g)' /\ Staged(g)' /\ Ready(g)'
  BY <1>2, MarkedFrame, SafeFrame, HostHasFrame, MasksFrame, OverdueFrame, StagedFrame, ReadyFrame
  DEF Inductive
<1>. QED BY <1>6, <1>7, <1>8, <1>9, <1>10, <1>11 DEF Inductive
-----------------------------------------------------------------------------
(* The worker. *)

(* When the host gets further, what is said of the pages that it does not  *)
(* have yet holds of fewer passes.                                         *)
LEMMA HostAdvances ==
    ASSUME TypeOK, NEW g \in Ghost, NEW h \in Ghost, Inductive(g),
           h.val = g.val, h.last = g.last, h.rendered = g.rendered, h.step = g.step,
           h.direct = g.direct,
           \A p \in Page : g.here[p] <= h.here[p] /\ h.here[p] <= gpu_done,
           UNCHANGED <<rdram, mask, page_to_direct_copy, page_to_masked_copy, rpc, pass, gpu_done,
                       staging_readback, passes>>
    PROVE  Safe(h)' /\ ReadBack(h)' /\ Masks(h)' /\ Overdue(h)'
<1>1. Recorded' = Recorded /\ Resolved' = Resolved
  BY DEF Recorded, Resolved
<1>2. ASSUME NEW p \in Page
      PROVE  /\ g.here[p] \in Nat /\ h.here[p] \in Nat /\ g.here[p] <= h.here[p]
             /\ Upto(g, p) \in Nat /\ Upto(h, p) \in Nat /\ Upto(g, p) <= Upto(h, p)
  <2>1. g.here[p] \in Nat /\ h.here[p] \in Nat /\ g.last \in [Nat -> Nat] /\ h.last \in [Nat -> Nat]
    BY DEF Ghost
  <2>2. gpu_done \in Nat /\ submits \in Nat /\ gpu_done <= submits
    BY HowFar, InOrder
  <2>3. g.here[p] \in 0 .. submits /\ h.here[p] \in 0 .. submits /\ g.here[p] <= h.here[p]
    BY <2>1, <2>2
  <2>4. g.last[g.here[p]] <= g.last[h.here[p]]
    BY <2>3, HowFar DEF Ordered
  <2>. QED BY <2>1, <2>3, <2>4 DEF Upto
<1>3. \A p \in Page : \A k : Upto(h, p) + 1 .. k \subseteq Upto(g, p) + 1 .. k
  BY <1>2
<1>4. \A b \in Byte : b[1] \in Page
  BY ByteHasPage
<1>5. Safe(h)'
  <2>1. Safe(g) /\ page_to_direct_copy \subseteq Page
    BY DEF Inductive, TypeOK
  <2>2. \A n \in g.rendered + 1 .. Resolved : g.direct[n] \subseteq Page
    <3>1. \A n \in g.rendered + 1 .. Resolved : n \in Nat
      BY DEF Ghost
    <3>. QED BY <3>1 DEF Ghost
  <2>3. ASSUME NEW p \in Page, NEW m \in Nat, m <= Upto(g, p) PROVE m <= Upto(h, p)
    BY <1>2, <2>3
  <2>4. \A n \in g.rendered + 1 .. Resolved : 1 .. n - 1 \subseteq Nat
    OBVIOUS
  <2>5. \A n \in g.rendered + 1 .. Resolved : \A p \in g.direct[n] : \A m \in 1 .. n - 1 :
            Dirties(passes, m, p) => m <= Upto(h, p)
    BY <2>1, <2>2, <2>3, <2>4 DEF Safe
  <2>6. \A p \in page_to_direct_copy : \A m \in 1 .. Recorded :
            Dirties(passes, m, p) => m <= Upto(h, p)
    <3>1. 1 .. Recorded \subseteq Nat
      OBVIOUS
    <3>. QED BY <2>1, <2>3, <3>1 DEF Safe
  <2>7. Recorded' = Recorded /\ Resolved' = Resolved /\ h.rendered = g.rendered /\ h.direct = g.direct
        /\ passes' = passes /\ page_to_direct_copy' = page_to_direct_copy
    BY <1>1
  <2>8. \A p : Upto(h, p)' = Upto(h, p)
    BY DEF Upto
  <2>. QED BY <2>5, <2>6, <2>7, <2>8 DEF Safe
<1>6. ReadBack(h)'
  <2>1. ReadBack(g)
    BY DEF Inductive
  <2>2. \A f : Locked(passes, h, f) = Locked(passes, g, f)
    BY DEF Locked
  <2>3. ASSUME NEW f \in 1 .. gpu_done, NEW b \in Byte,
               f > h.here[b[1]], b[1] \in Locked(passes, h, f)
        PROVE  /\ b \in staging_readback[f].mask =>
                      /\ staging_readback[f].data[b] = h.val[b][h.last[f]]
                      /\ Drawn(passes, b)
               /\ \A n \in Upto(h, b[1]) + 1 .. h.last[f] :
                      b \in passes[n].writes => b \in staging_readback[f].mask
    <3>1. f > g.here[b[1]] /\ b[1] \in Locked(passes, g, f) /\ h.last[f] = g.last[f] /\ h.val = g.val
          /\ Upto(h, b[1]) + 1 .. h.last[f] \subseteq Upto(g, b[1]) + 1 .. g.last[f]
      <4>1. g.here[b[1]] \in Nat /\ h.here[b[1]] \in Nat /\ g.here[b[1]] <= h.here[b[1]]
        BY <1>2, <1>4
      <4>2. f > g.here[b[1]]
        BY <2>3, <4>1
      <4>. QED BY <1>3, <1>4, <2>2, <2>3, <4>2
    <3>. QED BY <2>1, <3>1 DEF ReadBack
  <2>4. UNCHANGED <<passes, gpu_done, staging_readback>> /\ Len(staging_readback) = gpu_done
    BY <2>1 DEF ReadBack
  <2>. QED BY <2>3, <2>4 DEF ReadBack
<1>7. Masks(h)'
  <2>1. Masks(g)
    BY DEF Inductive
  <2>2. \A b \in Byte : \A n \in Upto(h, b[1]) + 1 .. g.rendered : b \in passes[n].writes => b \in mask
    BY <1>3, <1>4, <2>1 DEF Masks
  <2>3. /\ h.rendered = g.rendered /\ h.step = g.step /\ h.direct = g.direct
        /\ UNCHANGED <<mask, passes>> /\ \A p : Upto(h, p)' = Upto(h, p)
    BY DEF Upto
  <2>. QED BY <2>1, <2>2, <2>3 DEF Masks, Drawn
<1>8. Overdue(h)'
  <2>1. Overdue(g)
    BY DEF Inductive
  <2>2. \A b : Stale(h, b)' <=> Stale(g, b)
    BY DEF Stale
  <2>3. \A p, i, k : Until(h, p, i, k) <=> Until(g, p, i, k)
    BY DEF Until
  <2>4. \A b \in Byte : Stale(g, b) =>
            \A n \in Upto(h, b[1]) + 1 .. g.rendered : ~Dirties(passes, n, b[1])
    BY <1>3, <1>4, <2>1 DEF Overdue
  <2>5. /\ h.rendered = g.rendered /\ Recorded' = Recorded
        /\ UNCHANGED <<passes, rpc, pass, page_to_masked_copy>> /\ \A p : Upto(h, p)' = Upto(h, p)
    BY <1>1 DEF Upto
  <2>. QED BY <2>1, <2>2, <2>3, <2>4, <2>5 DEF Overdue
<1>. QED BY <1>5, <1>6, <1>7, <1>8

\* The queue of the worker loses its head, a signal or the next fence.
LEMMA OpsShrink ==
    ASSUME TypeOK, NEW g \in Ghost, NEW h, Inductive(g), h.last = g.last,
           ops # <<>>, ops' = Tail(ops), copies' = {}, UNCHANGED <<submits, passes>>,
           \/ ops[1].fence = 0 /\ h.done = g.done /\ timeline' = ops[1].value
           \/ ops[1].fence = g.done + 1 /\ h.done = g.done + 1 /\ timeline' = timeline
    PROVE  Fenced(h)' /\ Signals(h)'
<1>. DEFINE m == Len(ops)
            Op == [fence : Nat, pages : SUBSET Page, value : Nat]
<1>1. Fenced(g) /\ Signals(g) /\ g.done \in Nat /\ submits \in Nat
  BY DEF Inductive, Ghost, TypeOK
<1>2. /\ m \in Nat /\ m # 0 /\ 1 \in 1 .. m /\ Len(ops') = m - 1
      /\ \A i \in 1 .. m - 1 : ops'[i] = ops[i + 1]
      /\ \A i \in 1 .. m : ops[i].fence \in Nat
  <2>1. ops \in Seq(Op)
    BY DEF TypeOK
  <2>2. \A x \in Op : x.fence \in Nat
    OBVIOUS
  <2>. HIDE DEF Op
  <2>3. m \in Nat /\ m # 0 /\ 1 \in 1 .. m /\ Len(ops') = m - 1 /\ \A i \in 1 .. m : ops[i] \in Op
    BY <2>1
  <2>4. \A i \in 1 .. m - 1 : ops'[i] = ops[i + 1]
    BY <2>1, <2>3
  <2>. QED BY <2>2, <2>3, <2>4
<1>3. \A i \in 1 .. m - 1 : i + 1 \in 1 .. m /\ 1 < i + 1
  BY <1>2
<1>4. ASSUME NEW i \in 1 .. m - 1, ops'[i].fence # 0
      PROVE  /\ ops'[i].fence \in h.done + 1 .. submits /\ ops'[i].value = 0
             /\ ops'[i].pages = Locked(passes, h, ops'[i].fence)
  <2>1. ops'[i] = ops[i + 1] /\ i + 1 \in 1 .. m /\ 1 < i + 1 /\ 1 \in 1 .. m
    BY <1>2, <1>3
  <2>2. /\ ops[i + 1].fence \in g.done + 1 .. submits /\ ops[i + 1].value = 0
        /\ ops[i + 1].pages = Locked(passes, g, ops[i + 1].fence)
    BY <1>1, <1>4, <2>1 DEF Fenced, m
  <2>3. ops[i + 1].fence \in h.done + 1 .. submits
    <3>1. CASE h.done = g.done
      BY <2>2, <3>1
    <3>2. CASE ops[1].fence = g.done + 1 /\ h.done = g.done + 1
      <4>1. ops[1].fence # 0
        BY <1>1, <3>2
      <4>2. ops[1].fence < ops[i + 1].fence
        BY <1>1, <1>4, <2>1, <4>1 DEF Fenced, m
      <4>. QED BY <1>1, <2>2, <3>2, <4>2
    <3>. QED BY <3>1, <3>2
  <2>4. Locked(passes, h, ops[i + 1].fence) = Locked(passes, g, ops[i + 1].fence)
    BY DEF Locked
  <2>. QED BY <2>1, <2>2, <2>3, <2>4
<1>5. ASSUME NEW i \in 1 .. m - 1, NEW j \in 1 .. m - 1, i < j, ops'[i].fence # 0, ops'[j].fence # 0
      PROVE  ops'[i].fence < ops'[j].fence
  <2>1. /\ ops'[i] = ops[i + 1] /\ i + 1 \in 1 .. m /\ ops'[j] = ops[j + 1] /\ j + 1 \in 1 .. m
        /\ i + 1 < j + 1
    BY <1>2, <1>3, <1>5
  <2>. QED BY <1>1, <1>5, <2>1 DEF Fenced, m
<1>6. ASSUME NEW f \in h.done + 1 .. submits PROVE \E i \in 1 .. m - 1 : ops'[i].fence = f
  <2>1. f \in g.done + 1 .. submits /\ f # ops[1].fence
    BY <1>1
  <2>2. PICK i \in 1 .. m : ops[i].fence = f
    BY <1>1, <2>1 DEF Fenced, m
  <2>3. i # 1
    BY <2>1, <2>2
  <2>4. i - 1 \in 1 .. m - 1 /\ (i - 1) + 1 = i
    BY <1>2, <2>3
  <2>. QED BY <1>2, <2>2, <2>4
<1>7. ASSUME NEW i \in 1 .. m - 1, ops'[i].fence = 0
      PROVE  /\ ops'[i].pages = {} /\ timeline' <= ops'[i].value /\ ops'[i].value <= g.last[submits]
             /\ \A j \in i + 1 .. m - 1 :
                    ops'[i].value <= IF ops'[j].fence = 0 THEN ops'[j].value
                                                          ELSE g.last[ops'[j].fence - 1]
  <2>1. ops'[i] = ops[i + 1] /\ i + 1 \in 1 .. m /\ i + 1 \in 1 + 1 .. m /\ 1 \in 1 .. m
    BY <1>2, <1>3
  <2>2. /\ ops[i + 1].pages = {} /\ timeline <= ops[i + 1].value /\ ops[i + 1].value <= g.last[submits]
        /\ \A j \in (i + 1) + 1 .. m :
               ops[i + 1].value <= IF ops[j].fence = 0 THEN ops[j].value
                                                       ELSE g.last[ops[j].fence - 1]
    BY <1>1, <1>7, <2>1 DEF Signals, m
  <2>3. timeline' <= ops[i + 1].value
    <3>1. CASE timeline' = timeline
      BY <2>2, <3>1
    <3>2. CASE ops[1].fence = 0 /\ timeline' = ops[1].value
      <4>1. \A j \in 1 + 1 .. m : ops[1].value <= IF ops[j].fence = 0 THEN ops[j].value
                                                                    ELSE g.last[ops[j].fence - 1]
        BY <1>1, <2>1, <3>2 DEF Signals, m
      <4>. QED BY <1>7, <2>1, <3>2, <4>1
    <3>. QED BY <3>1, <3>2
  <2>4. ASSUME NEW j \in i + 1 .. m - 1
        PROVE  ops'[i].value <= IF ops'[j].fence = 0 THEN ops'[j].value ELSE g.last[ops'[j].fence - 1]
    <3>1. j \in 1 .. m - 1 /\ j + 1 \in (i + 1) + 1 .. m
      BY <1>2
    <3>2. ops'[j] = ops[j + 1]
      BY <1>2, <3>1
    <3>. QED BY <2>1, <2>2, <3>1, <3>2
  <2>. QED BY <2>1, <2>2, <2>3, <2>4
<1>. HIDE DEF m
<1>8. Len(ops') = m - 1 /\ submits' = submits /\ passes' = passes /\ copies' = {} /\ h.last = g.last
  BY <1>2
<1>9. Fenced(h)'
  BY <1>4, <1>5, <1>6, <1>8 DEF Fenced
<1>10. Signals(h)'
  <2>1. \A i \in 1 .. Len(ops') : ops'[i].fence = 0 =>
            /\ ops'[i].pages = {} /\ timeline' <= ops'[i].value
            /\ ops'[i].value <= h.last[submits']
            /\ \A j \in i + 1 .. Len(ops') :
                   ops'[i].value <= IF ops'[j].fence = 0 THEN ops'[j].value
                                                         ELSE h.last[ops'[j].fence - 1]
    BY ONLY <1>7, <1>8
  <2>. QED BY ONLY <2>1 DEF Signals
<1>. QED BY <1>9, <1>10

\* The head of the queue of the worker.
LEMMA HeadOp ==
    ASSUME TypeOK, NEW g \in Ghost, Inductive(g), ops # <<>>
    PROVE  /\ Head(ops) = ops[1] /\ 1 \in 1 .. Len(ops)
           /\ ops[1].fence # 0 => /\ ops[1].fence = g.done + 1 /\ g.done + 1 \in 1 .. submits
                                  /\ ops[1].value = 0
                                  /\ ops[1].pages = Locked(passes, g, g.done + 1)
           /\ ops[1].fence = 0 => /\ ops[1].pages = {} /\ copies = {}
                                  /\ ops[1].value \in Nat /\ timeline <= ops[1].value
                                  /\ ops[1].value <= g.last[g.done]
<1>. DEFINE Op == [fence : Nat, pages : SUBSET Page, value : Nat]
<1>1. /\ Fenced(g) /\ Signals(g) /\ g.done \in Nat /\ submits \in Nat /\ g.done <= submits
  BY HowFar, InOrder DEF Inductive
<1>2. Head(ops) = ops[1] /\ Len(ops) \in Nat /\ 1 \in 1 .. Len(ops) /\ ops[1] \in Op
      /\ \A i \in 1 .. Len(ops) : ops[i] \in Op
  <2>1. ops \in Seq(Op)
    BY DEF TypeOK
  <2>. HIDE DEF Op
  <2>. QED BY <2>1
<1>3. ops[1].value \in Nat /\ \A i \in 1 .. Len(ops) : ops[i].fence \in Nat
  BY <1>2
<1>. HIDE DEF Op
<1>4. ASSUME g.done # submits
      PROVE  \E i \in 1 .. Len(ops) : ops[i].fence = g.done + 1
  <2>1. g.done + 1 \in g.done + 1 .. submits
    BY <1>1, <1>4
  <2>. QED BY <1>1, <2>1 DEF Fenced
<1>5. CASE ops[1].fence # 0
  <2>1. ops[1].fence \in g.done + 1 .. submits /\ ops[1].value = 0
        /\ ops[1].pages = Locked(passes, g, ops[1].fence)
    BY <1>1, <1>2, <1>5 DEF Fenced
  <2>2. PICK i \in 1 .. Len(ops) : ops[i].fence = g.done + 1
    BY <1>1, <1>4, <2>1
  <2>3. i = 1
    <3>. SUFFICES ASSUME i # 1 PROVE FALSE
      OBVIOUS
    <3>1. 1 < i /\ ops[i].fence # 0
      BY <1>1, <2>2
    <3>2. ops[1].fence < ops[i].fence
      BY <1>1, <1>2, <1>5, <3>1 DEF Fenced
    <3>. QED BY <1>1, <2>1, <2>2, <3>2
  <2>. QED BY <1>1, <1>2, <1>5, <2>1, <2>2, <2>3
<1>6. CASE ops[1].fence = 0
  <2>1. /\ ops[1].pages = {} /\ timeline <= ops[1].value /\ ops[1].value <= g.last[submits]
        /\ \A j \in 1 + 1 .. Len(ops) :
               ops[1].value <= IF ops[j].fence = 0 THEN ops[j].value ELSE g.last[ops[j].fence - 1]
    BY <1>1, <1>2, <1>6 DEF Signals
  <2>2. copies = {}
    <3>1. copies # {} => ops[1].fence = g.done + 1
      BY <1>1 DEF Fenced
    <3>. QED BY <1>1, <1>6, <3>1
  <2>3. ops[1].value <= g.last[g.done]
    <3>1. CASE g.done = submits
      BY <2>1, <3>1
    <3>2. CASE g.done # submits
      <4>1. PICK i \in 1 .. Len(ops) : ops[i].fence = g.done + 1
        BY <1>4, <3>2
      <4>2. i # 1 /\ ops[i].fence # 0 /\ ops[i].fence - 1 = g.done
        BY <1>1, <1>6, <4>1
      <4>3. i \in 1 + 1 .. Len(ops)
        BY <1>2, <4>2
      <4>. QED BY <2>1, <4>2, <4>3
    <3>. QED BY <3>1, <3>2
  <2>. QED BY <1>2, <1>3, <1>6, <2>1, <2>2, <2>3
<1>. QED BY <1>5, <1>6

(* Once a fence has signalled, the host has what its submission left in    *)
(* the pages that this did not lock.                                       *)
LEMMA WaitFenceKeeps ==
    ASSUME TypeOK, NEW g \in Ghost, Inductive(g), WaitFence
    PROVE  \E h \in Ghost : Inductive(h)'
<1>. DEFINE L == Locked(passes, g, g.done + 1)
<1>. PICK here : here = [p \in Page |-> IF p \in L THEN g.done ELSE g.done + 1]
  OBVIOUS
<1>h. PICK h : h = [g EXCEPT !.here = here]
  OBVIOUS
<1>1. /\ h.here = here
      /\ h.val = g.val /\ h.last = g.last /\ h.sub = g.sub /\ h.count = g.count /\ h.done = g.done
      /\ h.rendered = g.rendered /\ h.step = g.step /\ h.direct = g.direct /\ h.masked = g.masked
  BY <1>h DEF Ghost
<1>2. h \in Ghost /\ g.done \in Nat
  <2>1. g.done \in Nat
    BY DEF Ghost
  <2>2. here \in [Page -> Nat]
    BY <2>1
  <2>. QED BY <1>h, <2>1, <2>2 DEF Ghost
<1>3. /\ ops # <<>> /\ copies = {} /\ Head(ops).pages # {} /\ Head(ops).fence <= gpu_done
      /\ copies' = Head(ops).pages
      /\ UNCHANGED <<memory, marks, pending_writes, queue, renderer, cmd, submits, gpu, ops, timeline,
                     history>>
  BY DEF WaitFence
<1>4. /\ N' = N /\ Recorded' = Recorded /\ Resolved' = Resolved
      /\ UNCHANGED <<host, staging, rdram, mask, page_to_direct_copy, page_to_masked_copy,
                     page_to_pending_readback, pending_writes, queue, rpc, pass, todo, cmd, stream,
                     submits, gpu_done, staging_readback, ops, timeline, passes, truth>>
  BY <1>3 DEF N, Recorded, Resolved, memory, marks, renderer, gpu, history
<1>5. /\ ops[1].fence = g.done + 1 /\ ops[1].pages = L /\ copies' = L /\ L # {}
      /\ g.done + 1 \in 1 .. submits /\ g.done + 1 <= gpu_done
  <2>1. /\ Head(ops) = ops[1]
        /\ ops[1].fence # 0 => /\ ops[1].fence = g.done + 1 /\ g.done + 1 \in 1 .. submits
                               /\ ops[1].pages = L
        /\ ops[1].fence = 0 => ops[1].pages = {}
    BY <1>3, HeadOp
  <2>. QED BY <1>3, <2>1
<1>6. Ordered(g) /\ gpu_done \in Nat /\ submits \in Nat /\ gpu_done <= submits
  BY HowFar, InOrder
<1>7. \A p \in Page : g.here[p] = g.done
  BY <1>3 DEF Inductive, Arrived
<1>8. \A p \in Page : g.here[p] <= h.here[p] /\ h.here[p] <= gpu_done
  BY <1>1, <1>2, <1>5, <1>6, <1>7
<1>. HIDE DEF L
<1>9. Arrived(h)'
  <2>1. Arrived(g) /\ g.done < gpu_done
    BY <1>2, <1>5, <1>6 DEF Inductive
  <2>. QED BY <1>1, <1>4, <1>5, <2>1 DEF Arrived
<1>10. Fenced(h)'
  <2>1. Fenced(g)
    BY DEF Inductive
  <2>. QED BY <1>1, <1>3, <1>4, <1>5, <2>1 DEF Fenced, Locked
<1>11. Tallied(h)'
  <2>1. ASSUME NEW p \in Page PROVE g.count[p][h.here[p]] = g.count[p][g.here[p]]
    <3>1. CASE p \in L
      BY <1>1, <1>7, <3>1
    <3>2. CASE p \notin L
      <4>1. h.here[p] = g.done + 1 /\ (g.done + 1) - 1 = g.done
        BY <1>1, <1>2, <3>2
      <4>2. g.count[p][g.done + 1] = g.count[p][(g.done + 1) - 1]
                                     + IF p \in Locked(passes, g, g.done + 1) THEN 1 ELSE 0
        BY <1>5 DEF Inductive, Counts
      <4>3. g.count[p][g.done] \in Nat
        <5>1. g.count[p] \in [Nat -> Nat]
          BY DEF Ghost
        <5>. QED BY <1>2, <5>1
      <4>. QED BY <1>7, <3>2, <4>1, <4>2, <4>3 DEF L
    <3>. QED BY <3>1, <3>2
  <2>2. Tallied(g)
    BY DEF Inductive
  <2>. QED BY <1>1, <1>4, <2>1, <2>2 DEF Tallied
<1>12. HostHas(h)'
  <2>1. ASSUME NEW b \in Byte PROVE host[b] = g.val[b][Upto(h, b[1])]
    <3>1. b[1] \in Page /\ host[b] = g.val[b][g.last[g.done]]
      BY <1>7, ByteHasPage DEF Inductive, HostHas, Upto
    <3>2. CASE b[1] \in L
      BY <1>1, <3>1, <3>2 DEF Upto
    <3>3. CASE b[1] \notin L
      <4>1. Upto(h, b[1]) = g.last[g.done + 1]
        BY <1>1, <3>1, <3>3 DEF Upto
      <4>2. \A n \in g.last[g.done] + 1 .. g.last[g.done + 1] : b \notin passes[n].writes
        <5>1. (g.done + 1) - 1 = g.done
          BY <1>2
        <5>2. \A n \in g.last[g.done] + 1 .. g.last[g.done + 1] : ~Dirties(passes, n, b[1])
          BY <3>1, <3>3, <5>1 DEF L, Locked
        <5>. QED BY <5>2 DEF Dirties
      <4>3. g.last[g.done] \in 0 .. N /\ g.last[g.done + 1] \in 0 .. N /\ g.last[g.done] <= g.last[g.done + 1]
        <5>1. /\ g.done \in 0 .. submits /\ g.done + 1 \in 0 .. submits /\ g.done <= g.done + 1
              /\ submits \in 0 .. submits /\ g.done + 1 <= submits /\ g.done + 1 \in Nat
          BY <1>2, <1>5, <1>6
        <5>2. \A x, y \in 0 .. submits : x <= y => g.last[x] <= g.last[y]
          BY <1>6 DEF Ordered
        <5>3. /\ g.last[g.done] \in Nat /\ g.last[g.done + 1] \in Nat /\ g.last[submits] \in Nat
              /\ g.last[submits] <= N /\ N \in Nat
          <6>1. \A f \in Nat : g.last[f] \in Nat
            BY <1>6 DEF Ordered
          <6>2. /\ Recorded \in Nat /\ Resolved \in Nat /\ N \in Nat
                /\ g.last[submits] <= Recorded /\ Recorded <= Resolved /\ Resolved <= N
            BY <1>6 DEF Ordered
          <6>. QED BY <1>2, <1>6, <5>1, <6>1, <6>2
        <5>. QED BY <5>1, <5>2, <5>3
      <4>4. g.val[b][g.last[g.done]] = g.val[b][g.last[g.done + 1]]
        BY <4>2, <4>3 DEF Inductive, Valued, Alone
      <4>. QED BY <3>1, <4>1, <4>4
    <3>. QED BY <3>2, <3>3
  <2>. QED BY <1>1, <1>4, <2>1 DEF HostHas, Upto
<1>13. Safe(h)' /\ ReadBack(h)' /\ Masks(h)' /\ Overdue(h)'
  BY <1>1, <1>2, <1>4, <1>8, HostAdvances
<1>14. /\ Valued(h)' /\ Remembered(h)' /\ Queued' /\ Submitted(h)' /\ Rendered(h)' /\ Streamed(h)'
       /\ Opened(h)' /\ Signals(h)' /\ Counts(h)' /\ Marked(h)' /\ Staged(h)' /\ Ready(h)'
  BY <1>1, <1>4, ValuedFrame, RememberedFrame, QueuedFrame, SubmittedFrame, RenderedFrame,
     StreamedFrame, OpenedFrame, SignalsFrame, CountsFrame, MarkedFrame, StagedFrame, ReadyFrame
  DEF Inductive
<1>. QED BY <1>2, <1>9, <1>10, <1>11, <1>12, <1>13, <1>14 DEF Inductive

(* A page is copied with the mask of its submission, and counted off.      *)
LEMMA CopyPageKeeps ==
    ASSUME ~Mapped, TypeOK, NEW g \in Ghost, Inductive(g), NEW p \in Page, CopyPage(p)
    PROVE  \E h \in Ghost : Inductive(h)'
<1>. PICK e : e = g.done + 1
  OBVIOUS
<1>here. PICK here : here = [g.here EXCEPT ![p] = e]
  OBVIOUS
<1>done. PICK done : done = IF copies' = {} THEN e ELSE g.done
  OBVIOUS
<1>h. PICK h : h = [g EXCEPT !.here = here, !.done = done]
  OBVIOUS
<1>from. PICK from : from = staging_readback[Head(ops).fence]
  OBVIOUS
<1>1. /\ h.here = here /\ h.done = done
      /\ h.val = g.val /\ h.last = g.last /\ h.sub = g.sub /\ h.count = g.count
      /\ h.rendered = g.rendered /\ h.step = g.step /\ h.direct = g.direct /\ h.masked = g.masked
  BY <1>h DEF Ghost
<1>2. /\ g.done \in Nat /\ e \in Nat /\ e = g.done + 1 /\ e - 1 = g.done
      /\ g.here \in [Page -> Nat] /\ h \in Ghost
      /\ here[p] = e /\ \A q \in Page \ {p} : here[q] = g.here[q]
  <2>1. g.done \in Nat /\ g.here \in [Page -> Nat]
    BY DEF Ghost
  <2>2. e \in Nat /\ e = g.done + 1 /\ e - 1 = g.done
    BY <2>1
  <2>3. here \in [Page -> Nat] /\ here[p] = e /\ \A q \in Page \ {p} : here[q] = g.here[q]
    BY <1>here, <2>1, <2>2
  <2>4. done \in Nat
    BY <1>done, <2>1, <2>2
  <2>5. h \in Ghost
    BY <1>h, <2>3, <2>4 DEF Ghost
  <2>. QED BY <2>1, <2>2, <2>3, <2>5
<1>3. /\ p \in copies /\ copies' = copies \ {p}
      /\ host' = Overlay(host, Bytes({p}) \intersect from.mask, from.data)
      /\ pending_writes' = [pending_writes EXCEPT ![p] = @ - 1]
      /\ ops' = IF copies' = {} THEN Tail(ops) ELSE ops
      /\ UNCHANGED <<staging, rdram, mask, marks, queue, renderer, cmd, submits, gpu, timeline, history>>
  BY <1>from DEF CopyPage
<1>4. /\ N' = N /\ Recorded' = Recorded /\ Resolved' = Resolved
      /\ UNCHANGED <<staging, rdram, mask, page_to_direct_copy, page_to_masked_copy,
                     page_to_pending_readback, queue, rpc, pass, todo, cmd, stream,
                     submits, gpu_done, staging_readback, timeline, passes, truth>>
  BY <1>3 DEF N, Recorded, Resolved, marks, renderer, gpu, history
<1>5. /\ ops # <<>> /\ ops[1].fence = e /\ ops[1].fence # 0 /\ copies \subseteq ops[1].pages
      /\ copies # {}
  BY <1>2, <1>3 DEF Inductive, Fenced
<1>6. Ordered(g) /\ gpu_done \in Nat /\ submits \in Nat /\ gpu_done <= submits /\ g.done < gpu_done
  BY <1>5, HowFar, InOrder DEF Inductive, Arrived
<1>7. /\ Head(ops) = ops[1] /\ from = staging_readback[e] /\ e \in 1 .. gpu_done /\ e \in 1 .. submits
      /\ p \in Locked(passes, g, e)
  <2>1. Head(ops) = ops[1] /\ ops[1].pages = Locked(passes, g, e)
    BY <1>2, <1>5, HeadOp
  <2>2. from = staging_readback[e]
    BY <1>5, <1>from, <2>1
  <2>. QED BY <1>2, <1>3, <1>5, <1>6, <2>1, <2>2
<1>8. /\ g.here[p] = g.done /\ e > g.here[p] /\ Upto(h, p) = g.last[e] /\ Upto(g, p) = g.last[g.done]
      /\ \A q \in Page \ {p} : Upto(h, q) = Upto(g, q)
      /\ \A q \in Page : g.here[q] = IF q \notin copies THEN e ELSE g.done
  <2>1. \A q \in Page : g.here[q] = IF q \notin copies THEN e ELSE g.done
    BY <1>2, <1>5 DEF Inductive, Arrived
  <2>2. g.here[p] = g.done /\ e > g.here[p]
    BY <1>2, <1>3, <2>1
  <2>. QED BY <1>1, <1>2, <2>1, <2>2 DEF Upto
<1>9. \A q \in Page : g.here[q] <= h.here[q] /\ h.here[q] <= gpu_done
  <2>. SUFFICES ASSUME NEW q \in Page PROVE g.here[q] <= h.here[q] /\ h.here[q] <= gpu_done
    OBVIOUS
  <2>1. g.done <= e /\ e <= gpu_done /\ g.done <= gpu_done /\ g.done <= g.done /\ e <= e
    BY <1>2, <1>6, <1>7
  <2>2. g.here[q] = e \/ g.here[q] = g.done
    BY <1>8
  <2>3. h.here[q] = IF q = p THEN e ELSE g.here[q]
    BY <1>1, <1>2
  <2>. QED BY <1>8, <2>1, <2>2, <2>3
<1>10. /\ g.last[g.done] \in Nat /\ g.last[e] \in Nat /\ g.last[g.done] <= g.last[e] /\ g.last[e] <= N
       /\ N \in Nat
  <2>1. /\ g.done \in 0 .. submits /\ e \in 0 .. submits /\ g.done <= e /\ submits \in 0 .. submits
        /\ e <= submits
    BY <1>2, <1>6, <1>7
  <2>2. \A x, y \in 0 .. submits : x <= y => g.last[x] <= g.last[y]
    BY <1>6 DEF Ordered
  <2>3. \A f \in Nat : g.last[f] \in Nat
    BY <1>6 DEF Ordered
  <2>4. /\ Recorded \in Nat /\ Resolved \in Nat /\ N \in Nat
        /\ g.last[submits] <= Recorded /\ Recorded <= Resolved /\ Resolved <= N
    BY <1>6 DEF Ordered
  <2>5. g.last[g.done] <= g.last[e] /\ g.last[e] <= g.last[submits]
    BY <2>1, <2>2
  <2>. QED BY <1>2, <1>6, <2>3, <2>4, <2>5
<1>11. HostHas(h)'
  <2>1. ReadBack(g) /\ HostHas(g)
    BY DEF Inductive
  <2>2. ASSUME NEW b \in Byte PROVE host'[b] = g.val[b][Upto(h, b[1])]
    <3>0. /\ b[1] \in Page
          /\ host'[b] = IF b[1] = p /\ b \in from.mask THEN from.data[b] ELSE host[b]
          /\ host[b] = g.val[b][Upto(g, b[1])]
      <4>1. {p} \in SUBSET Page
        OBVIOUS
      <4>. QED BY <1>3, <2>1, <4>1, ByteHasPage DEF Overlay, HostHas
    <3>1. CASE b[1] # p
      BY <1>8, <3>0, <3>1
    <3>2. CASE b[1] = p
      <4>1. /\ b \in from.mask => from.data[b] = g.val[b][g.last[e]]
            /\ \A n \in g.last[g.done] + 1 .. g.last[e] : b \in passes[n].writes => b \in from.mask
        BY <1>7, <1>8, <2>1, <3>2 DEF ReadBack
      <4>2. CASE b \in from.mask
        BY <1>8, <3>0, <3>2, <4>1, <4>2
      <4>3. CASE b \notin from.mask
        <5>1. Alone(passes, b, g.last[g.done], g.last[e])
          BY <4>1, <4>3 DEF Alone
        <5>2. g.last[g.done] \in 0 .. N /\ g.last[e] \in 0 .. N /\ g.last[g.done] <= g.last[e]
          BY <1>10
        <5>3. g.val[b][g.last[g.done]] = g.val[b][g.last[e]]
          BY <5>1, <5>2 DEF Inductive, Valued
        <5>. QED BY <1>8, <3>0, <3>2, <4>3, <5>3
      <4>. QED BY <4>2, <4>3
    <3>. QED BY <3>1, <3>2
  <2>. QED BY <1>1, <2>2 DEF HostHas, Upto
<1>12. Tallied(h)'
  <2>1. Tallied(g) /\ Counts(g) /\ g.count \in [Page -> [Nat -> Nat]] /\ pending_writes \in [Page -> Int]
    BY DEF Inductive, Ghost, TypeOK
  <2>2. g.count[p][e] = g.count[p][g.done] + 1
    <3>1. g.count[p][e] = g.count[p][e - 1] + IF p \in Locked(passes, g, e) THEN 1 ELSE 0
      BY <1>7, <2>1 DEF Counts
    <3>. QED BY <1>2, <1>7, <3>1
  <2>3. g.count[p][submits] \in Nat /\ g.count[p][g.done] \in Nat
    <3>1. g.count[p] \in [Nat -> Nat]
      BY <2>1
    <3>. QED BY <1>2, <1>6, <3>1
  <2>4. \A q \in Page : pending_writes[q] = g.count[q][submits] - g.count[q][g.here[q]]
    BY <2>1 DEF Tallied
  <2>5. pending_writes'[p] = pending_writes[p] - 1
        /\ \A q \in Page \ {p} : pending_writes'[q] = pending_writes[q]
    BY <1>3, <2>1
  <2>6. pending_writes'[p] = g.count[p][submits] - g.count[p][e]
    <3>1. pending_writes[p] = g.count[p][submits] - g.count[p][g.done]
      BY <1>8, <2>4
    <3>2. pending_writes'[p] = pending_writes[p] - 1
      BY <2>5
    <3>. QED BY <2>2, <2>3, <3>1, <3>2
  <2>7. \A q \in Page : pending_writes'[q] = g.count[q][submits] - g.count[q][h.here[q]]
    BY <1>1, <1>2, <2>4, <2>5, <2>6
  <2>. QED BY <1>1, <1>4, <2>7 DEF Tallied
<1>13. Arrived(h)'
  <2>1. Arrived(g) /\ timeline \in Nat
    BY DEF Inductive, TypeOK
  <2>2. timeline <= g.last[g.done] /\ timeline <= g.last[e]
    BY <1>10, <2>1 DEF Arrived
  <2>3. \A q \in Page : here[q] = IF copies' # {} /\ q \notin copies' THEN done + 1 ELSE done
    <3>. SUFFICES ASSUME NEW q \in Page
                  PROVE  here[q] = IF copies' # {} /\ q \notin copies' THEN done + 1 ELSE done
      OBVIOUS
    <3>1. CASE copies' = {}
      <4>1. done = e
        BY <1>done, <3>1
      <4>2. q # p => q \notin copies
        BY <1>3, <3>1
      <4>. QED BY <1>2, <1>8, <3>1, <4>1, <4>2
    <3>2. CASE copies' # {}
      <4>1. done = g.done
        BY <1>done, <3>2
      <4>2. q \in copies' <=> q \in copies /\ q # p
        BY <1>3
      <4>. QED BY <1>2, <1>8, <3>2, <4>1, <4>2
    <3>. QED BY <3>1, <3>2
  <2>4. done <= gpu_done /\ (copies' # {} => done < gpu_done) /\ timeline <= g.last[done]
    <3>1. CASE copies' = {}
      BY <1>2, <1>6, <1>7, <1>done, <2>2, <3>1
    <3>2. CASE copies' # {}
      BY <1>2, <1>6, <1>done, <2>2, <3>2
    <3>. QED BY <3>1, <3>2
  <2>. QED BY <1>1, <1>4, <2>3, <2>4 DEF Arrived
<1>14. Fenced(h)' /\ Signals(h)'
  <2>1. CASE copies' = {}
    <3>1. h.done = g.done + 1 /\ ops' = Tail(ops)
      BY <1>1, <1>2, <1>3, <1>done, <2>1
    <3>. QED BY <1>1, <1>2, <1>4, <1>5, <2>1, <3>1, OpsShrink
  <2>2. CASE copies' # {}
    <3>1. h.done = g.done /\ ops' = ops /\ copies' \subseteq copies
      BY <1>1, <1>3, <1>done, <2>2
    <3>2. Fenced(g)
      BY DEF Inductive
    <3>3. Fenced(h)'
      BY <1>1, <1>2, <1>4, <1>5, <3>1, <3>2 DEF Fenced, Locked
    <3>4. Signals(h)'
      BY <1>1, <1>4, <3>1, SignalsFrame DEF Inductive
    <3>. QED BY <3>3, <3>4
  <2>. QED BY <2>1, <2>2
<1>15. Safe(h)' /\ ReadBack(h)' /\ Masks(h)' /\ Overdue(h)'
  BY <1>1, <1>2, <1>4, <1>9, HostAdvances
<1>16. /\ Valued(h)' /\ Remembered(h)' /\ Queued' /\ Submitted(h)' /\ Rendered(h)' /\ Streamed(h)'
       /\ Opened(h)' /\ Counts(h)' /\ Marked(h)' /\ Staged(h)' /\ Ready(h)'
  BY <1>1, <1>4, ValuedFrame, RememberedFrame, QueuedFrame, SubmittedFrame, RenderedFrame,
     StreamedFrame, OpenedFrame, CountsFrame, MarkedFrame, StagedFrame, ReadyFrame
  DEF Inductive
<1>. QED BY <1>2, <1>11, <1>12, <1>13, <1>14, <1>15, <1>16 DEF Inductive

\* The timeline goes forward, and not past what the host has.
LEMMA NotifyTimelineKeeps ==
    ASSUME TypeOK, NEW g \in Ghost, Inductive(g), NotifyTimeline PROVE Inductive(g)'
<1>1. /\ ops # <<>> /\ Head(ops).value # 0 /\ timeline' = Head(ops).value /\ ops' = Tail(ops)
      /\ UNCHANGED <<memory, marks, pending_writes, queue, renderer, cmd, submits, gpu, copies, history>>
  BY DEF NotifyTimeline
<1>2. /\ N' = N /\ Recorded' = Recorded /\ Resolved' = Resolved
      /\ UNCHANGED <<host, staging, rdram, mask, page_to_direct_copy, page_to_masked_copy,
                     page_to_pending_readback, pending_writes, queue, rpc, pass, todo, cmd, stream,
                     submits, gpu_done, staging_readback, copies, passes, truth>>
  BY <1>1 DEF N, Recorded, Resolved, memory, marks, renderer, gpu, history
<1>3. /\ ops[1].fence = 0 /\ timeline' = ops[1].value /\ copies = {} /\ timeline' \in Nat
      /\ timeline <= timeline' /\ timeline' <= g.last[g.done]
  BY <1>1, HeadOp
<1>4. Fenced(g)' /\ Signals(g)'
  BY <1>1, <1>2, <1>3, OpsShrink
<1>5. Remembered(g)'
  <2>1. Remembered(g) /\ timeline \in Nat /\ N \in Nat
    BY DEF Inductive, TypeOK, N
  <2>2. \A n \in 1 .. N : n > timeline' => n > timeline
    BY <1>3, <2>1
  <2>. QED BY <1>2, <2>1, <2>2 DEF Remembered
<1>6. Arrived(g)'
  BY <1>2, <1>3 DEF Inductive, Arrived
<1>7. /\ Valued(g)' /\ Queued' /\ Submitted(g)' /\ Rendered(g)' /\ Streamed(g)' /\ Opened(g)'
      /\ Counts(g)' /\ Tallied(g)'
  BY <1>2, ValuedFrame, QueuedFrame, SubmittedFrame, RenderedFrame, StreamedFrame, OpenedFrame,
     CountsFrame, TalliedFrame
  DEF Inductive
<1>8. /\ Marked(g)' /\ Safe(g)' /\ HostHas(g)' /\ ReadBack(g)' /\ Masks(g)' /\ Overdue(g)'
      /\ Staged(g)' /\ Ready(g)'
  BY <1>2, MarkedFrame, SafeFrame, HostHasFrame, ReadBackFrame, MasksFrame, OverdueFrame, StagedFrame,
     ReadyFrame
  DEF Inductive
<1>. QED BY <1>4, <1>5, <1>6, <1>7, <1>8 DEF Inductive
-----------------------------------------------------------------------------
LEMMA StepKeeps ==
    ASSUME ~Mapped, Careful, TypeOK, NEW g \in Ghost, Inductive(g), Next
    PROVE  \E h \in Ghost : Inductive(h)'
<1>1. CASE \E b \in Byte : HostWrite(b)
  BY <1>1, HostWriteKeeps
<1>2. CASE \E R \in Texture, W \in Framebuffer : Enqueue(R, W)
  BY <1>2, EnqueueKeeps
<1>3. CASE Signal
  BY <1>3, SignalKeeps
<1>4. CASE LoadTile
  BY <1>4, LoadTileKeeps
<1>5. CASE Lock
  BY <1>5, LockKeeps
<1>6. CASE Record
  BY <1>6, RecordKeeps
<1>7. CASE MaintainQueues
  BY <1>7, MaintainQueuesKeeps
<1>8. CASE FlushAndSignal
  BY <1>8, FlushAndSignalKeeps
<1>9. CASE \E p \in Page : ResolvePage(p)
  BY <1>9, ResolvePageKeeps
<1>10. CASE \E p \in Page : CopyPage(p)
  BY <1>10, CopyPageKeeps
<1>11. CASE MaskedResolve
  BY <1>11, MaskedResolveKeeps
<1>12. CASE Copy
  BY <1>12, CopyKeeps
<1>13. CASE Render
  BY <1>13, RenderKeeps
<1>14. CASE End
  BY <1>14, EndKeeps
<1>15. CASE WaitFence
  BY <1>15, WaitFenceKeeps
<1>16. CASE NotifyTimeline
  BY <1>16, NotifyTimelineKeeps
<1>. QED BY <1>1, <1>2, <1>3, <1>4, <1>5, <1>6, <1>7, <1>8, <1>9, <1>10, <1>11, <1>12, <1>13, <1>14,
            <1>15, <1>16 DEF Next

LEMMA StutterKeeps ==
    ASSUME TypeOK, NEW g, Inductive(g), UNCHANGED vars PROVE TypeOK' /\ Inductive(g)'
<1>1. /\ N' = N /\ Recorded' = Recorded /\ Resolved' = Resolved
      /\ UNCHANGED <<host, staging, rdram, mask, page_to_direct_copy, page_to_masked_copy,
                     page_to_pending_readback, pending_writes, queue, rpc, pass, todo, cmd, stream,
                     submits, gpu_done, staging_readback, ops, copies, timeline, passes, truth, writes>>
  BY DEF N, Recorded, Resolved, vars, memory, marks, renderer, gpu, worker, history
<1>2. TypeOK'
  BY <1>1 DEF TypeOK, Touched
<1>3. /\ Valued(g)' /\ Remembered(g)' /\ Queued' /\ Submitted(g)' /\ Rendered(g)' /\ Arrived(g)'
      /\ Streamed(g)' /\ Opened(g)' /\ Fenced(g)' /\ Signals(g)' /\ Counts(g)' /\ Tallied(g)'
  BY <1>1, ValuedFrame, RememberedFrame, QueuedFrame, SubmittedFrame, RenderedFrame, ArrivedFrame,
     StreamedFrame, OpenedFrame, FencedFrame, SignalsFrame, CountsFrame, TalliedFrame
  DEF Inductive
<1>4. /\ Marked(g)' /\ Safe(g)' /\ HostHas(g)' /\ ReadBack(g)' /\ Masks(g)' /\ Overdue(g)'
      /\ Staged(g)' /\ Ready(g)'
  BY <1>1, MarkedFrame, SafeFrame, HostHasFrame, ReadBackFrame, MasksFrame, OverdueFrame, StagedFrame,
     ReadyFrame
  DEF Inductive
<1>. QED BY <1>2, <1>3, <1>4 DEF Inductive

(* The inductive invariant of page coherency: whatever the renderer, the   *)
(* GPU, the worker and a careful host do, and in whatever order, there is  *)
(* a ghost that accounts for every byte on its way between the copies.     *)
THEOREM CoherencyInvariant == ASSUME ~Mapped, Careful PROVE Spec => []IInv
<1>1. Init => IInv
  BY TypeInit, GhostInit DEF IInv
<1>2. IInv /\ [Next]_vars => IInv'
  <2>. SUFFICES ASSUME TypeOK, NEW g \in Ghost, Inductive(g), [Next]_vars PROVE IInv'
    BY DEF IInv
  <2>1. CASE Next
    <3>1. TypeOK'
      BY <2>1, TypeSteps
    <3>2. \E h \in Ghost : Inductive(h)'
      BY <2>1, StepKeeps
    <3>. QED BY <3>1, <3>2 DEF IInv
  <2>2. CASE UNCHANGED vars
    BY <2>2, StutterKeeps DEF IInv
  <2>. QED BY <2>1, <2>2
<1>. QED BY <1>1, <1>2, PTL DEF Spec

(* Every pass finds in the RDRAM of the GPU what the program last wrote    *)
(* there (mark_pages_for_gpu_read, resolve_coherency_host_to_gpu and the   *)
(* shaders that it dispatches), when the RDRAM is not mapped and the host  *)
(* is careful; without the one or the other it is not so.                  *)
THEOREM PassesReadCurrent == ASSUME ~Mapped, Careful PROVE Spec => []ReadsCurrent
<1>1. IInv => ReadsCurrent
  <2>. SUFFICES ASSUME TypeOK, NEW g \in Ghost, Inductive(g), stream # <<>>, First.op = "render",
                       NEW b \in DOMAIN passes[First.n].expected
                PROVE  rdram[b] = passes[First.n].expected[b]
    BY DEF IInv, ReadsCurrent
  <2>. PICK n : n = First.n
    OBVIOUS
  <2>1. g.step = 2 /\ n = g.rendered + 1 /\ n \in 1 .. N /\ n > timeline
    <3>1. IsNext(g, gpu_done, First)
      BY NextCommand
    <3>. QED BY <3>1, NextCommand DEF IsNext
  <2>2. b \in Touched(passes, n) /\ n - 1 = g.rendered
    <3>1. \A k \in 1 .. N : DOMAIN passes[k].expected = Touched(passes, k)
      BY DEF TypeOK
    <3>2. g.rendered \in Nat
      BY DEF Ghost
    <3>. QED BY <2>1, <3>1, <3>2
  <2>3. rdram[b] = g.val[b][n - 1]
    BY <2>1, <2>2 DEF Inductive, Ready
  <2>4. CASE b \in passes[n].writes
    BY <2>1, <2>3, <2>4 DEF Inductive, Valued
  <2>5. CASE b \in passes[n].reads
    BY <2>1, <2>3, <2>5 DEF Inductive, Remembered
  <2>. QED BY <2>2, <2>4, <2>5 DEF Touched
<1>. QED BY <1>1, CoherencyInvariant, PTL

(* The host finds in its memory what was last written to every byte that   *)
(* no pass it has not waited for writes (resolve_coherency_gpu_to_host and *)
(* the copies of the timeline worker): a result of the GPU is there before *)
(* the timeline is signalled, and never undoes a later write of the host.  *)
THEOREM HostIsCurrent == ASSUME ~Mapped, Careful PROVE Spec => []HostCurrent
<1>1. IInv => HostCurrent
  <2>. SUFFICES ASSUME TypeOK, NEW g \in Ghost, Inductive(g), NEW b \in Byte \ WrittenBy(Unfinished)
                PROVE  host[b] = truth[b]
    BY DEF IInv, HostCurrent
  <2>. PICK u : u = Upto(g, b[1])
    OBVIOUS
  <2>1. host[b] = g.val[b][u] /\ truth[b] = g.val[b][N]
    BY DEF Inductive, HostHas, Valued
  <2>2. u \in Nat /\ timeline \in Nat /\ timeline <= u /\ u \in 0 .. N /\ N \in 0 .. N /\ u <= N
    <3>1. Ordered(g) /\ b[1] \in Page
      BY HowFar, ByteHasPage
    <3>2. u \in Nat /\ timeline <= u /\ u <= g.last[gpu_done]
      BY <3>1 DEF Ordered
    <3>3. g.last[gpu_done] \in Nat /\ g.last[submits] \in Nat /\ g.last[gpu_done] <= g.last[submits]
          /\ timeline \in Nat
      BY <3>1, InOrder
    <3>4. /\ Recorded \in Nat /\ Resolved \in Nat /\ N \in Nat
          /\ g.last[submits] <= Recorded /\ Recorded <= Resolved /\ Resolved <= N
      BY <3>1 DEF Ordered
    <3>. QED BY <3>2, <3>3, <3>4
  <2>3. Alone(passes, b, u, N)
    <3>1. \A m \in u + 1 .. N : m \in Unfinished
      BY <2>2 DEF Unfinished, N
    <3>. QED BY <3>1 DEF Alone, WrittenBy
  <2>4. g.val[b][u] = g.val[b][N]
    BY <2>2, <2>3 DEF Inductive, Valued
  <2>. QED BY <2>1, <2>4
<1>. QED BY <1>1, CoherencyInvariant, PTL
=============================================================================
