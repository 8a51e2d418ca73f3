------------------------- MODULE RenderQueue_proofs -------------------------
(***************************************************************************)
(* Proofs about the render queue, for every number of buffer instances,    *)
(* every limit and every device configuration.                             *)
(***************************************************************************)
EXTENDS RenderQueue, TLAPS

-----------------------------------------------------------------------------
(* Counting modulo n. *)
LEMMA RemainderSuccessor ==
    ASSUME NEW n \in Nat \ {0}, NEW a \in Int
    PROVE  ((a % n) + 1) % n = (a + 1) % n
<1>1. PICK p \in Int, s \in 0 .. n - 1 : a = p * n + s
  <2>1. a \div n \in Int /\ a % n \in 0 .. n - 1 /\ a = (a \div n) * n + (a % n)
    OBVIOUS
  <2>. QED BY <2>1
<1>2. a % n = s
  BY <1>1
<1>3. CASE s + 1 < n
  <2>1. (p * n + (s + 1)) % n = s + 1 /\ (s + 1) % n = s + 1
    BY <1>3
  <2>. QED BY <1>1, <1>2, <2>1
<1>4. CASE s + 1 = n
  <2>1. ((p + 1) * n + 0) % n = 0 /\ (s + 1) % n = 0
    BY <1>4
  <2>. QED BY <1>1, <1>2, <1>4, <2>1
<1>. QED BY <1>3, <1>4

(* Two integers less than n apart have different remainders. *)
LEMMA RemaindersDiffer ==
    ASSUME NEW n \in Nat \ {0}, NEW a \in Int, NEW j \in 1 .. n - 1
    PROVE  (a - j) % n # a % n
<1>1. PICK p \in Int, s \in 0 .. n - 1 : a = p * n + s
  <2>1. a \div n \in Int /\ a % n \in 0 .. n - 1 /\ a = (a \div n) * n + (a % n)
    OBVIOUS
  <2>. QED BY <2>1
<1>2. a % n = s
  BY <1>1
<1>3. CASE j <= s
  <2>1. (p * n + (s - j)) % n = s - j
    BY <1>3
  <2>2. a - j = p * n + (s - j)
    BY <1>1
  <2>. QED BY <1>2, <1>3, <2>1, <2>2
<1>4. CASE j > s
  <2>1. PICK q \in Int : q = p - 1
    OBVIOUS
  <2>2. PICK r \in 0 .. n - 1 : r = n + s - j
    BY <1>4
  <2>3. (q * n + r) % n = r
    OBVIOUS
  <2>4. a - j = q * n + r
    <3>1. q * n = p * n - n
      BY <2>1
    <3>. QED BY <1>1, <2>2, <3>1
  <2>. QED BY <1>2, <2>2, <2>3, <2>4
<1>. QED BY <1>3, <1>4
-----------------------------------------------------------------------------
(* The inductive invariant, in parts. *)

(* Who may still read an instance: a pass in the open command buffer has   *)
(* its bit set in needs_flush, one in flight is covered by the fence.      *)
Protected ==
    /\ \A r \in recorded : content[r.inst] = r.pass /\ r.inst \in needs_flush
    /\ \A s \in gpu_done + 1 .. Len(submissions) :
           \A r \in submissions[s].reads :
               content[r.inst] = r.pass /\ s <= sync_fence[r.inst]
    /\ \A i \in Instance : sync_fence[i] <= Len(submissions)
    /\ gpu_done <= Len(submissions)

\* The instance that is being filled.
Claimed ==
    /\ phase = "wait" => buffer_instance \notin needs_flush
    /\ phase \in {"single", "between", "upscaled", "end"} =>
           content[buffer_instance] = passes + 1
    /\ phase \in {"single", "between", "end"} \/ (phase = "upscaled" /\ Ssaa) =>
           buffer_instance \in needs_flush

(* When the command buffer is open, and what the counters say about it. *)
Opened ==
    /\ recorded # {} \/ needs_flush # {} => cmd
    /\ phase \in {"single", "between", "end"} \/ (phase = "upscaled" /\ Ssaa) => cmd
    /\ phase = "external" => ~cmd
    /\ phase = "between" \/ phase = "single" => ~Ssaa
    /\ PendingExact /\ VisibleIsFenced

(* The visible part of the pass that is being flushed is on record before  *)
(* the pass ends.                                                          *)
Kept ==
    /\ NoPassLost
    /\ phase \in {"between", "end"} \/ (phase = "upscaled" /\ ~Ssaa) => OnRecord(passes + 1)

(* What flush_and_signal leaves when it submits. *)
Flushed ==
    /\ PrimitiveIndexExact
    /\ phase \in {"submit", "external", "maintain"} => stream.triangles = 0
    /\ Incoherent \/ locked = {}
    /\ HostVisible = 0 /\ locked # {} =>
           phase \in {"forced", "wait", "single"} \/ (phase = "upscaled" /\ Ssaa)

IInv == TypeOK /\ Protected /\ Claimed /\ Opened /\ Kept /\ Flushed

\* The instances of the passes from the lo-th to the hi-th last.
Recent(lo, hi) == \A i \in needs_flush : \E j \in lo .. hi : i = (passes - j) % NumSyncStates

\* There are more instances than passes may pend, in every configuration: 32 and 8.
EnoughInstances == NumSyncStates > MaxPending /\ \A c \in Modes : "unlimited" \notin c

(* How many passes can wait for a submission, and therefore instances: at  *)
(* most MaxPending - 1 that are counted when a flush begins, and one more  *)
(* whose visible part was submitted without its upscaled part.             *)
Bounded ==
    /\ buffer_instance = passes % NumSyncStates
    /\ phase \in {"idle", "upload", "framebuffer", "submit", "external", "flush", "wait"} =>
           HostVisible < MaxPending /\ Recent(1, HostVisible + 1)
    /\ phase = "maintain" => Recent(1, HostVisible + 1)
    /\ phase = "single" \/ (phase = "upscaled" /\ Ssaa) => Recent(0, HostVisible + 1)
    /\ phase \in {"between", "end"} \/ (phase = "upscaled" /\ ~Ssaa) => Recent(0, HostVisible)
    /\ NeverForced

(* The pages of every visible pass are locked until they are copied back.  *)
Copied ==
    /\ CopiedWithPass
    /\ Incoherent =>
        /\ \A r \in recorded : r.visible => r.pass \in locked
        /\ phase \in {"wait", "single"} \/ (phase = "upscaled" /\ Ssaa) => passes + 1 \in locked
-----------------------------------------------------------------------------

\* What the queue of the GPU holds.
Submission == [reads : SUBSET Read, copied : SUBSET Nat, fenced : BOOLEAN]

(* submit_to_queue keeps the types of what it assigns.                     *)
LEMMA SubmitType ==
    ASSUME TypeOK, SubmitToQueue
    PROVE  /\ submissions' \in Seq(Submission) /\ fences' \in Seq(Nat)
           /\ sync_fence' \in [Instance -> Nat] /\ needs_flush' \subseteq Instance
           /\ locked' \in SUBSET Nat
<1>. DEFINE visible == HostVisible # 0
            copied == IF visible /\ cmd /\ Incoherent THEN locked ELSE {}
            e == [reads |-> recorded, copied |-> copied, fenced |-> visible]
            S == Submission
<1>1. submissions \in Seq(S) /\ fences \in Seq(Nat) /\ Len(submissions) + 1 \in Nat
  BY DEF TypeOK, Submission
<1>2. e \in S
  BY DEF TypeOK, Submission
<1>3. submissions' = Append(submissions, e) \/ submissions' = submissions
  BY DEF SubmitToQueue
<1>4. fences' = Append(fences, Len(submissions) + 1) \/ fences' = fences
  BY DEF SubmitToQueue
<1>5. sync_fence' \in [Instance -> Nat]
  BY <1>1 DEF SubmitToQueue, TypeOK
<1>6. needs_flush' \subseteq Instance /\ locked' \in SUBSET Nat
  BY DEF SubmitToQueue, TypeOK
<1>. HIDE DEF e, S
<1>7. submissions' \in Seq(S)
  BY <1>1, <1>2, <1>3
<1>8. fences' \in Seq(Nat)
  BY <1>1, <1>4
<1>9. submissions' \in Seq(Submission)
  BY <1>7 DEF S
<1>. QED BY <1>5, <1>6, <1>8, <1>9

(* So does recording a render pass.                                        *)
LEMMA RecordType ==
    ASSUME TypeOK, NEW visible \in BOOLEAN, Record(visible)
    PROVE  recorded' \in SUBSET Read
<1>. DEFINE r == [pass |-> passes + 1, inst |-> buffer_instance, visible |-> visible]
<1>1. passes + 1 \in Nat /\ buffer_instance \in Instance
  BY DEF TypeOK
<1>2. r \in Read
  BY <1>1, Zenon DEF Read
<1>3. recorded' = recorded \union {r}
  BY DEF Record
<1>. HIDE DEF r
<1>. QED BY <1>2, <1>3 DEF TypeOK

(* Type correctness of every step.                                         *)
LEMMA TypeStep == TypeOK /\ [Next]_vars => TypeOK'
<1>. SUFFICES ASSUME TypeOK, [Next]_vars PROVE TypeOK'
  OBVIOUS
<1>. USE SizeAssumption
<1>0. CASE UNCHANGED vars
  BY <1>0 DEF TypeOK, vars, pendings, sync, command, gpu, history
<1>r. ASSUME Return PROVE phase' \in Phase /\ then' \in Continuation
  BY <1>r DEF Return, TypeOK, Phase, Continuation
<1>s. ASSUME SubmitToQueue, phase' \in Phase, then' \in Continuation
      PROVE  TypeOK'
  BY <1>s, SubmitType DEF SubmitToQueue, TypeOK, Submission, history
<1>1. CASE MaintainSubmit
  <2>1. phase' \in Phase /\ then' \in Continuation
    BY <1>1, <1>r DEF MaintainSubmit, Maintained, TypeOK, Phase
  <2>. QED BY <1>1, <1>s, <2>1 DEF MaintainSubmit
<1>2. CASE MaintainSkip
  <2>1. phase' \in Phase /\ then' \in Continuation
    BY <1>2, <1>r DEF MaintainSkip, Maintained, TypeOK, Phase
  <2>. QED BY <1>2, <2>1 DEF TypeOK, MaintainSkip, pendings, sync, command, gpu, history
<1>3. CASE SubmitFlushed
  BY <1>3, <1>s DEF SubmitFlushed, Phase, Continuation
<1>4. CASE ResolveExternal
  <2>. DEFINE e == [reads |-> recorded, copied |-> {}, fenced |-> FALSE]
              S == Submission
  <2>1. submissions \in Seq(S) /\ e \in S /\ submissions' = Append(submissions, e)
    BY <1>4 DEF ResolveExternal, TypeOK, Submission
  <2>. HIDE DEF e, S
  <2>2. submissions' \in Seq(S)
    BY <2>1
  <2>. QED BY <1>4, <2>2 DEF S, Submission, TypeOK, ResolveExternal, Phase, pendings, sync,
              history
<1>5. CASE FlushEmpty
  <2>1. phase' \in Phase /\ then' \in Continuation
    BY <1>5, <1>r DEF FlushEmpty
  <2>2. stream' \in [triangles : Nat, jobs : BOOLEAN, uploads : BOOLEAN]
    BY <1>5 DEF FlushEmpty, Empty
  <2>3. base_primitive_index' \in Nat
    BY <1>5 DEF FlushEmpty, TypeOK
  <2>. QED BY <1>5, <2>1, <2>2, <2>3
           DEF TypeOK, FlushEmpty, pendings, sync, command, gpu, history
<1>6. CASE FlushLock
  BY <1>6 DEF TypeOK, FlushLock, Phase, pendings, sync, command, gpu, history
<1>7. CASE FlushForced
  BY <1>7, <1>s DEF FlushForced, TypeOK, Phase
<1>8. CASE FlushUpload
  BY <1>8 DEF TypeOK, FlushUpload, Phase, pendings, gpu, history
<1>9. CASE RenderSingle
  <2>1. pending_render_passes' \in Nat /\ phase' \in Phase
    BY <1>9 DEF RenderSingle, TypeOK, Phase
  <2>2. recorded' \in SUBSET Read
    <3>1. Record(TRUE)
      BY <1>9 DEF RenderSingle
    <3>. QED BY <3>1, RecordType
  <2>. QED BY <1>9, <2>1, <2>2 DEF TypeOK, RenderSingle, sync, gpu, history
<1>10. CASE RenderUpscaled
  <2>1. recorded' \in SUBSET Read
    <3>1. Record(Ssaa) /\ Ssaa \in BOOLEAN
      BY <1>10 DEF RenderUpscaled, Ssaa
    <3>. QED BY <3>1, RecordType
  <2>3. needs_flush' \subseteq Instance
    BY <1>10 DEF RenderUpscaled, TypeOK
  <2>2. /\ pending_render_passes_upscaled' \in Nat /\ pending_primitives_upscaled' \in Nat
        /\ phase' \in Phase /\ cmd' \in BOOLEAN
    BY <1>10 DEF RenderUpscaled, TypeOK, Phase
  <2>. QED BY <1>10, <2>1, <2>2, <2>3 DEF TypeOK, RenderUpscaled, gpu, history
<1>11. CASE EndPass
  <2>1. stream' \in [triangles : Nat, jobs : BOOLEAN, uploads : BOOLEAN]
    BY <1>11 DEF EndPass, Empty
  <2>2. /\ base_primitive_index' \in Nat /\ buffer_instance' \in Instance
        /\ passes' \in Nat /\ phase' \in Phase
    BY <1>11 DEF EndPass, NextInstance, TypeOK, Instance, Phase
  <2>. QED BY <1>11, <2>1, <2>2 DEF TypeOK, EndPass, pendings, sync, command, gpu
<1>12. CASE \E full \in BOOLEAN : AddUpload(full)
  BY <1>12 DEF TypeOK, AddUpload, Flush, Phase, Continuation, pendings, sync, command, gpu,
               history
<1>13. CASE BindFramebuffer
  BY <1>13 DEF TypeOK, BindFramebuffer, Phase, pendings, sync, command, gpu, history
<1>14. CASE \E jobs, full \in BOOLEAN : Draw(jobs, full)
  <2>. PICK jobs \in BOOLEAN, full \in BOOLEAN : Draw(jobs, full)
    BY <1>14
  <2>1. stream' \in [triangles : Nat, jobs : BOOLEAN, uploads : BOOLEAN]
    <3>1. stream \in [triangles : Nat, jobs : BOOLEAN, uploads : BOOLEAN]
      BY DEF TypeOK
    <3>2. stream.triangles + 1 \in Nat /\ (stream.jobs \/ jobs) \in BOOLEAN
      BY <3>1
    <3>3. stream' = [stream EXCEPT !.triangles = stream.triangles + 1,
                                   !.jobs = stream.jobs \/ jobs]
      BY DEF Draw
    <3>. QED BY <3>1, <3>2, <3>3, Zenon
  <2>2. phase' \in Phase /\ then' \in Continuation
    BY DEF Draw, Flush, TypeOK, Phase, Continuation
  <2>3. pending_primitives' \in Nat /\ drawn' \in Nat
    <3>1. pending_primitives' = pending_primitives + 1 /\ drawn' = drawn + 1
      BY DEF Draw
    <3>. QED BY <3>1 DEF TypeOK
  <2>. QED BY <2>1, <2>2, <2>3 DEF TypeOK, Draw, sync, command, gpu
<1>15. CASE LoadTile
  BY <1>15 DEF TypeOK, LoadTile, Flush, Phase, Continuation, pendings, sync, command, gpu,
               history
<1>16. CASE SetFramebuffer
  BY <1>16 DEF TypeOK, SetFramebuffer, Flush, Phase, Continuation, pendings, sync, command,
               gpu, history
<1>17. CASE FlushAndSignal
  BY <1>17 DEF TypeOK, FlushAndSignal, Flush, Phase, Continuation, pendings, sync, command, gpu
<1>18. CASE MaintainIdle
  BY <1>18 DEF TypeOK, MaintainIdle, Flush, Phase, Continuation, pendings, sync, command, gpu,
               history
<1>19. CASE Complete
  BY <1>19 DEF TypeOK, Complete, pendings, sync, command, history
<1>20. CASE Release
  <2>1. fences' \in Seq(Nat)
    BY <1>20 DEF Release, TypeOK
  <2>. QED BY <1>20, <2>1 DEF TypeOK, Release, pendings, sync, command, gpu, history
<1>. QED
  BY <1>0, <1>1, <1>2, <1>3, <1>4, <1>5, <1>6, <1>7, <1>8, <1>9, <1>10, <1>11, <1>12,
     <1>13, <1>14, <1>15, <1>16, <1>17, <1>18, <1>19, <1>20 DEF Next, Handler, Command
-----------------------------------------------------------------------------
(* What submit_to_queue does when it is called in a state the Renderer can *)
(* be in: with a command buffer there is one more submission, without one  *)
(* nothing happens, since then no visible pass is counted either.          *)
LEMMA SubmitEffect ==
    ASSUME TypeOK, Opened, SubmitToQueue
    PROVE  /\ recorded' = {} /\ needs_flush' = {} /\ cmd' = FALSE /\ HostVisible' = 0
           /\ ~cmd => /\ submissions' = submissions /\ sync_fence' = sync_fence
                      /\ locked' = locked /\ recorded = {} /\ HostVisible = 0
           /\ cmd => /\ Len(submissions') = Len(submissions) + 1
                     /\ \A s \in 1 .. Len(submissions) : submissions'[s] = submissions[s]
                     /\ submissions'[Len(submissions) + 1] =
                            [reads |-> recorded,
                             copied |-> IF HostVisible # 0 /\ Incoherent THEN locked ELSE {},
                             fenced |-> HostVisible # 0]
                     /\ sync_fence' = [i \in Instance |-> IF i \in needs_flush
                                          THEN Len(submissions) + 1 ELSE sync_fence[i]]
                     /\ locked' = IF HostVisible # 0 /\ Incoherent THEN {} ELSE locked
<1>. DEFINE S == Submission
<1>1. submissions \in Seq(S)
  BY DEF TypeOK, Submission
<1>2. recorded' = {} /\ cmd' = FALSE /\ HostVisible' = 0
  BY DEF SubmitToQueue, HostVisible, Ssaa
<1>3. needs_flush' = {}
  BY DEF SubmitToQueue, Opened
<1>4. ASSUME ~cmd
      PROVE  /\ submissions' = submissions /\ sync_fence' = sync_fence
             /\ locked' = locked /\ recorded = {} /\ HostVisible = 0
  <2>1. recorded = {} /\ HostVisible = 0
    BY <1>4 DEF Opened, PendingExact, Visible
  <2>2. sync_fence' = [i \in Instance |-> sync_fence[i]]
    BY <1>4 DEF SubmitToQueue
  <2>. QED BY <1>4, <2>1, <2>2 DEF SubmitToQueue, TypeOK
<1>5. ASSUME cmd
      PROVE  /\ Len(submissions') = Len(submissions) + 1
             /\ \A s \in 1 .. Len(submissions) : submissions'[s] = submissions[s]
             /\ submissions'[Len(submissions) + 1] =
                    [reads |-> recorded,
                     copied |-> IF HostVisible # 0 /\ Incoherent THEN locked ELSE {},
                     fenced |-> HostVisible # 0]
             /\ sync_fence' = [i \in Instance |-> IF i \in needs_flush
                                  THEN Len(submissions) + 1 ELSE sync_fence[i]]
             /\ locked' = IF HostVisible # 0 /\ Incoherent THEN {} ELSE locked
  <2>. DEFINE e == [reads |-> recorded,
                    copied |-> IF HostVisible # 0 /\ Incoherent THEN locked ELSE {},
                    fenced |-> HostVisible # 0]
  <2>1. submissions' = Append(submissions, e)
    BY <1>5 DEF SubmitToQueue
  <2>2. locked' = IF HostVisible # 0 /\ Incoherent THEN {} ELSE locked
    BY <1>5 DEF SubmitToQueue
  <2>3. sync_fence' = [i \in Instance |-> IF i \in needs_flush
                           THEN Len(submissions) + 1 ELSE sync_fence[i]]
    BY <1>5 DEF SubmitToQueue
  <2>4. /\ Len(submissions') = Len(submissions) + 1
        /\ \A s \in 1 .. Len(submissions) : submissions'[s] = submissions[s]
        /\ submissions'[Len(submissions) + 1] = e
    <3>. HIDE DEF e, S
    <3>. QED BY <1>1, <2>1
  <2>. QED BY <2>2, <2>3, <2>4
<1>. QED BY <1>2, <1>3, <1>4, <1>5

(* What a submission reads is a set of render passes.                      *)
LEMMA ReadType ==
    ASSUME TypeOK
    PROVE  \A s \in 1 .. Len(submissions) :
               /\ submissions[s] \in Submission
               /\ \A r \in submissions[s].reads : r \in Read /\ r.inst \in Instance
<1>. DEFINE S == Submission
<1>1. submissions \in Seq(S)
  BY DEF TypeOK, Submission
<1>2. SUFFICES ASSUME NEW s \in 1 .. Len(submissions)
               PROVE  /\ submissions[s] \in Submission
                      /\ \A r \in submissions[s].reads : r \in Read /\ r.inst \in Instance
  OBVIOUS
<1>3. submissions[s] \in S
  <2>. HIDE DEF S
  <2>. QED BY <1>1
<1>. QED BY <1>3 DEF Submission, Read

(* submit_to_queue gives the fence of the submission to every instance in  *)
(* it.                                                                     *)
LEMMA ProtectedSubmit ==
    ASSUME TypeOK, Opened, Protected, SubmitToQueue
    PROVE  Protected' /\ content' = content /\ passes' = passes
           /\ buffer_instance' = buffer_instance
<1>0. gpu_done' = gpu_done /\ content' = content /\ passes' = passes
      /\ buffer_instance' = buffer_instance
  BY DEF SubmitToQueue, history
<1>n. gpu_done \in Nat /\ Len(submissions) \in Nat
  BY DEF TypeOK
<1>1. CASE ~cmd
  BY <1>0, <1>1, SubmitEffect DEF Protected
<1>2. CASE cmd
  <2>. DEFINE f == Len(submissions) + 1
  <2>1. /\ Len(submissions') = f /\ submissions'[f].reads = recorded
        /\ \A s \in 1 .. Len(submissions) : submissions'[s] = submissions[s]
        /\ sync_fence' = [i \in Instance |-> IF i \in needs_flush THEN f ELSE sync_fence[i]]
    BY <1>2, SubmitEffect
  <2>2. \A r \in recorded' : content'[r.inst] = r.pass /\ r.inst \in needs_flush'
    BY SubmitEffect
  <2>3. ASSUME NEW s \in gpu_done + 1 .. f, NEW r \in submissions'[s].reads
        PROVE  content'[r.inst] = r.pass /\ s <= sync_fence'[r.inst]
    <3>1. CASE s = f
      <4>1. r \in recorded /\ r.inst \in Instance /\ r.inst \in needs_flush
        BY <2>1, <2>3, <3>1 DEF Protected, TypeOK, Read
      <4>. QED BY <1>0, <1>n, <2>1, <3>1, <4>1 DEF Protected
    <3>2. CASE s # f
      <4>1. s \in gpu_done + 1 .. Len(submissions) /\ s \in 1 .. Len(submissions)
        BY <1>n, <3>2
      <4>2. r \in submissions[s].reads
        BY <2>1, <2>3, <4>1
      <4>3. r.inst \in Instance
        BY <4>1, <4>2, ReadType
      <4>4. content[r.inst] = r.pass /\ s <= sync_fence[r.inst]
        BY <4>1, <4>2 DEF Protected
      <4>. QED BY <1>0, <1>n, <2>1, <4>1, <4>3, <4>4
    <3>. QED BY <3>1, <3>2
  <2>4. \A i \in Instance : sync_fence'[i] <= f
    BY <1>n, <2>1 DEF Protected, TypeOK
  <2>. QED BY <1>0, <1>n, <2>1, <2>2, <2>3, <2>4 DEF Protected
<1>. QED BY <1>0, <1>1, <1>2

(* No step lets go of an instance that is still read. *)
LEMMA ProtectedStep ==
    ASSUME TypeOK, Opened, Protected, Claimed, [Next]_vars
    PROVE  Protected'
<1>0. CASE UNCHANGED vars
  BY <1>0 DEF Protected, vars, sync, command, gpu
<1>1. CASE MaintainSubmit \/ SubmitFlushed \/ FlushForced
  BY <1>1, ProtectedSubmit DEF MaintainSubmit, SubmitFlushed, FlushForced
<1>2. CASE ResolveExternal
  <2>. DEFINE e == [reads |-> recorded, copied |-> {}, fenced |-> FALSE]
              S == Submission
              f == Len(submissions) + 1
  <2>0. submissions \in Seq(S) /\ gpu_done \in Nat /\ sync_fence \in [Instance -> Nat]
    BY DEF TypeOK, Submission
  <2>1. /\ submissions' = Append(submissions, e) /\ e.reads = {}
        /\ recorded' = {} /\ UNCHANGED <<content, sync_fence, gpu_done>>
    BY <1>2 DEF ResolveExternal, Opened, sync
  <2>2. /\ Len(submissions) \in Nat /\ Len(submissions') = f /\ submissions'[f] = e
        /\ \A s \in 1 .. Len(submissions) : submissions'[s] = submissions[s]
    <3>. HIDE DEF e, S
    <3>. QED BY <2>0, <2>1
  <2>3. ASSUME NEW s \in gpu_done + 1 .. f, NEW r \in submissions'[s].reads
        PROVE  content[r.inst] = r.pass /\ s <= sync_fence[r.inst]
    <3>1. s # f
      BY <2>1, <2>2, <2>3
    <3>2. s \in gpu_done + 1 .. Len(submissions) /\ s \in 1 .. Len(submissions)
      BY <2>0, <2>2, <3>1
    <3>. QED BY <2>2, <2>3, <3>2 DEF Protected
  <2>4. \A i \in Instance : sync_fence[i] <= f
    BY <2>0, <2>2 DEF Protected
  <2>. QED BY <2>0, <2>1, <2>2, <2>3, <2>4 DEF Protected
<1>3. CASE FlushUpload
  <2>1. /\ UNCHANGED <<recorded, submissions, gpu_done>>
        /\ buffer_instance \notin needs_flush /\ sync_fence[buffer_instance] <= gpu_done
        /\ needs_flush' = needs_flush \union {buffer_instance}
        /\ sync_fence' = [sync_fence EXCEPT ![buffer_instance] = 0]
        /\ content' = [content EXCEPT ![buffer_instance] = passes + 1]
    BY <1>3 DEF FlushUpload, InstanceFree, Claimed, gpu
  <2>2. /\ sync_fence \in [Instance -> Nat] /\ content \in [Instance -> Nat]
        /\ gpu_done \in Nat /\ recorded \in SUBSET Read /\ buffer_instance \in Instance
    BY DEF TypeOK
  <2>3. ASSUME NEW r \in recorded
        PROVE  content'[r.inst] = r.pass /\ r.inst \in needs_flush'
    <3>1. r.inst \in Instance /\ r.inst \in needs_flush
      BY <2>2 DEF Protected, Read
    <3>. QED BY <2>1, <2>2, <3>1 DEF Protected
  <2>4. ASSUME NEW s \in gpu_done + 1 .. Len(submissions), NEW r \in submissions[s].reads
        PROVE  content'[r.inst] = r.pass /\ s <= sync_fence'[r.inst]
    <3>1. content[r.inst] = r.pass /\ s <= sync_fence[r.inst]
      BY DEF Protected
    <3>2. r.inst \in Instance
      BY ReadType DEF TypeOK
    <3>3. r.inst # buffer_instance
      BY <2>1, <2>2, <3>1 DEF TypeOK
    <3>. QED BY <2>1, <2>2, <3>1, <3>2, <3>3
  <2>. QED BY <2>1, <2>2, <2>3, <2>4 DEF Protected
<1>4. CASE RenderSingle \/ RenderUpscaled
  <2>1. Record(TRUE) \/ Record(Ssaa)
    BY <1>4 DEF RenderSingle, RenderUpscaled
  <2>2. /\ UNCHANGED <<submissions, gpu_done, content, sync_fence>>
        /\ needs_flush \subseteq needs_flush' /\ buffer_instance \in needs_flush'
        /\ content[buffer_instance] = passes + 1
    BY <1>4 DEF RenderSingle, RenderUpscaled, Claimed, sync, gpu
  <2>. QED BY <2>1, <2>2 DEF Protected, Record
<1>5. CASE \/ MaintainSkip \/ FlushEmpty \/ FlushLock \/ EndPass \/ BindFramebuffer
           \/ \E full \in BOOLEAN : AddUpload(full)
  BY <1>5 DEF Protected, MaintainSkip, FlushEmpty, FlushLock, EndPass, BindFramebuffer,
              AddUpload, sync, command, gpu
<1>6. CASE Command \/ MaintainIdle \/ Release
  BY <1>6 DEF Protected, Command, Draw, LoadTile, SetFramebuffer, FlushAndSignal, MaintainIdle,
              Release, sync, command, gpu
<1>7. CASE Complete
  <2>1. UNCHANGED <<recorded, content, needs_flush, sync_fence, submissions>>
    BY <1>7 DEF Complete, sync, command
  <2>2. /\ gpu_done \in Nat /\ gpu_done' = gpu_done + 1 /\ gpu_done < Len(submissions)
        /\ Len(submissions) \in Nat
    BY <1>7 DEF Complete, TypeOK
  <2>3. gpu_done' + 1 .. Len(submissions) \subseteq gpu_done + 1 .. Len(submissions)
    BY <2>2
  <2>. QED BY <2>1, <2>2, <2>3 DEF Protected
<1>. QED BY <1>0, <1>1, <1>2, <1>3, <1>4, <1>5, <1>6, <1>7 DEF Next, Handler

(* The instance that is being filled stays claimed until the pass ends. *)
LEMMA ClaimedStep ==
    ASSUME TypeOK, Opened, Claimed, [Next]_vars
    PROVE  Claimed'
<1>0. CASE UNCHANGED vars
  BY <1>0 DEF Claimed, Ssaa, vars, sync, history
<1>r. ASSUME Return PROVE phase' \in {"submit", "idle", "upload", "framebuffer", "external"}
  BY <1>r DEF Return, TypeOK, Continuation
<1>s. ASSUME SubmitToQueue
      PROVE  needs_flush' = {} /\ UNCHANGED <<content, buffer_instance, passes, caps>>
  BY <1>s, SubmitEffect DEF SubmitToQueue, history
<1>1. CASE MaintainSubmit
  BY <1>1, <1>r, <1>s DEF MaintainSubmit, Maintained, Claimed, Opened, Ssaa
<1>2. CASE SubmitFlushed
  BY <1>2 DEF SubmitFlushed, Claimed
<1>3. CASE FlushForced
  BY <1>3, <1>s DEF FlushForced, Claimed
<1>4. CASE MaintainSkip
  BY <1>4, <1>r DEF MaintainSkip, Maintained, Claimed, Opened, Ssaa, sync, history
<1>5. CASE FlushEmpty
  BY <1>5, <1>r DEF FlushEmpty, Claimed
<1>6. CASE FlushLock
  BY <1>6 DEF FlushLock, Claimed, sync
<1>7. CASE FlushUpload
  BY <1>7 DEF FlushUpload, Claimed, TypeOK, history
<1>8. CASE RenderSingle \/ RenderUpscaled
  BY <1>8 DEF RenderSingle, RenderUpscaled, Claimed, sync, history
<1>9. CASE \/ ResolveExternal \/ EndPass \/ BindFramebuffer
           \/ \E full \in BOOLEAN : AddUpload(full)
  BY <1>9 DEF ResolveExternal, EndPass, BindFramebuffer, AddUpload, Flush, Claimed
<1>10. CASE Command \/ MaintainIdle
  BY <1>10 DEF Claimed, Command, Draw, LoadTile, SetFramebuffer, FlushAndSignal, MaintainIdle,
               Flush, sync
<1>11. CASE Complete \/ Release
  BY <1>11 DEF Complete, Release, Claimed, Ssaa, sync, history
<1>. QED BY <1>0, <1>1, <1>2, <1>3, <1>4, <1>5, <1>6, <1>7, <1>8, <1>9, <1>10, <1>11
         DEF Next, Handler

(* Recording a pass makes the command buffer visible exactly if the pass   *)
(* is.                                                                     *)
LEMMA VisibleRecord ==
    ASSUME NEW visible, visible, Record(visible)
    PROVE  recorded' # {} /\ Visible(recorded')
<1>. DEFINE r == [pass |-> passes + 1, inst |-> buffer_instance, visible |-> visible]
<1>1. recorded' = recorded \union {r}
  BY DEF Record
<1>2. r \in recorded' /\ r.visible
  BY <1>1, Zenon
<1>. HIDE DEF r
<1>. QED BY <1>2, Zenon DEF Visible

(* The command buffer is open when something is recorded, and the counter  *)
(* of visible passes agrees with what it holds.                            *)
LEMMA OpenedStep ==
    ASSUME TypeOK, Opened, Claimed, [Next]_vars
    PROVE  Opened'
<1>. DEFINE Phases == /\ phase \in {"single", "between", "end"} \/ (phase = "upscaled" /\ Ssaa)
                             => cmd
                      /\ phase = "external" => ~cmd
                      /\ phase = "between" \/ phase = "single" => ~Ssaa
            Buffer == recorded # {} \/ needs_flush # {} => cmd
<1>0. CASE UNCHANGED vars
  BY <1>0 DEF Opened, PendingExact, VisibleIsFenced, HostVisible, Visible, Ssaa, vars, pendings,
              command, sync, gpu
<1>r. ASSUME Return PROVE phase' \in {"submit", "idle", "upload", "framebuffer"}
  BY <1>r DEF Return, TypeOK, Continuation
<1>s. ASSUME SubmitToQueue
      PROVE  /\ Buffer' /\ PendingExact' /\ VisibleIsFenced' /\ ~cmd' /\ caps' = caps
  <2>1. recorded' = {} /\ needs_flush' = {} /\ ~cmd' /\ HostVisible' = 0 /\ caps' = caps
    BY <1>s, SubmitEffect DEF SubmitToQueue
  <2>2. PendingExact'
    BY <2>1 DEF PendingExact, Visible
  <2>3. VisibleIsFenced'
    <3>1. CASE ~cmd
      BY <1>s, <3>1, SubmitEffect DEF VisibleIsFenced, Opened
    <3>2. CASE cmd
      <4>. DEFINE f == Len(submissions) + 1
      <4>1. /\ Len(submissions) \in Nat /\ Len(submissions') = f
            /\ \A s \in 1 .. Len(submissions) : submissions'[s] = submissions[s]
        <5>1. Len(submissions) \in Nat
          BY DEF TypeOK
        <5>. QED BY <1>s, <3>2, <5>1, SubmitEffect
      <4>2. Visible(submissions'[f].reads) => submissions'[f].fenced
        <5>1. submissions'[f] = [reads |-> recorded,
                                 copied |-> IF HostVisible # 0 /\ Incoherent THEN locked ELSE {},
                                 fenced |-> HostVisible # 0]
          BY <1>s, <3>2, SubmitEffect
        <5>2. submissions'[f].reads = recorded
          BY <5>1
        <5>3. submissions'[f].fenced <=> HostVisible # 0
          <6>. DEFINE visible == HostVisible # 0
                      c == IF HostVisible # 0 /\ Incoherent THEN locked ELSE {}
          <6>1. submissions'[f] = [reads |-> recorded, copied |-> c, fenced |-> visible]
            BY <5>1
          <6>. HIDE DEF visible, c
          <6>2. submissions'[f].fenced = visible
            BY <6>1
          <6>. QED BY <6>2 DEF visible
        <5>. QED BY <5>2, <5>3 DEF Opened, PendingExact
      <4>3. ASSUME NEW s \in 1 .. f, s # f
            PROVE  Visible(submissions'[s].reads) => submissions'[s].fenced
        <5>1. s \in 1 .. Len(submissions)
          BY <4>1, <4>3
        <5>. QED BY <4>1, <5>1 DEF Opened, VisibleIsFenced
      <4>. QED BY <4>1, <4>2, <4>3 DEF VisibleIsFenced
    <3>. QED BY <3>1, <3>2
  <2>. QED BY <2>1, <2>2, <2>3
<1>1. CASE MaintainSubmit
  <2>1. Phases'
    BY <1>1, <1>r, <1>s DEF MaintainSubmit, Maintained, Opened, Ssaa
  <2>. QED BY <1>1, <1>s, <2>1 DEF MaintainSubmit, Opened
<1>2. CASE SubmitFlushed
  <2>1. Phases'
    BY <1>2, <1>s DEF SubmitFlushed
  <2>. QED BY <1>2, <1>s, <2>1 DEF SubmitFlushed, Opened
<1>3. CASE FlushForced
  <2>1. Phases'
    BY <1>3 DEF FlushForced
  <2>. QED BY <1>3, <1>s, <2>1 DEF FlushForced, Opened
<1>4. CASE ResolveExternal
  <2>1. recorded = {} /\ needs_flush = {}
    BY <1>4 DEF ResolveExternal, Opened
  <2>2. /\ recorded' = {} /\ needs_flush' = {} /\ HostVisible' = HostVisible /\ phase' = "idle"
        /\ submissions' = Append(submissions, [reads |-> {}, copied |-> {}, fenced |-> FALSE])
    BY <1>4, <2>1 DEF ResolveExternal, sync, pendings, HostVisible, Ssaa
  <2>3. VisibleIsFenced'
    <3>. DEFINE e == [reads |-> {}, copied |-> {}, fenced |-> FALSE]
                S == Submission
    <3>0. submissions' = Append(submissions, e)
      BY <2>2
    <3>1. submissions \in Seq(S) /\ e \in S /\ ~Visible(e.reads)
      BY DEF TypeOK, Submission, Visible
    <3>2. \A s \in 1 .. Len(submissions') :
              \/ submissions'[s] = e
              \/ s \in 1 .. Len(submissions) /\ submissions'[s] = submissions[s]
      <4>. HIDE DEF e, S
      <4>1. /\ Len(submissions) \in Nat /\ Len(submissions') = Len(submissions) + 1
            /\ submissions'[Len(submissions) + 1] = e
            /\ \A s \in 1 .. Len(submissions) : submissions'[s] = submissions[s]
        BY <3>0, <3>1
      <4>2. ASSUME NEW s \in 1 .. Len(submissions'), s # Len(submissions) + 1
            PROVE  s \in 1 .. Len(submissions)
        BY <4>1, <4>2
      <4>3. ASSUME NEW s \in 1 .. Len(submissions')
            PROVE  \/ submissions'[s] = e
                   \/ s \in 1 .. Len(submissions) /\ submissions'[s] = submissions[s]
        <5>1. CASE s = Len(submissions) + 1
          BY <4>1, <5>1
        <5>2. CASE s # Len(submissions) + 1
          BY <4>1, <4>2, <5>2
        <5>. QED BY <5>1, <5>2
      <4>. QED BY <4>3
    <3>. HIDE DEF e
    <3>. QED BY <3>1, <3>2 DEF VisibleIsFenced, Opened
  <2>. QED BY <2>1, <2>2, <2>3 DEF Opened, PendingExact
<1>5. CASE RenderSingle
  <2>0. Record(TRUE)
    BY <1>5 DEF RenderSingle
  <2>3. recorded' # {} /\ Visible(recorded')
    BY <2>0, VisibleRecord
  <2>1. /\ recorded' # {} /\ Visible(recorded') /\ cmd' = cmd /\ cmd /\ ~Ssaa /\ caps' = caps
        /\ submissions' = submissions /\ phase' \in {"between", "end"}
        /\ pending_render_passes' = pending_render_passes + 1
    BY <1>5, <2>3 DEF RenderSingle, Opened, gpu
  <2>2. HostVisible' # 0
    BY <2>1 DEF HostVisible, Ssaa, TypeOK
  <2>. QED BY <2>1, <2>2 DEF Opened, PendingExact, VisibleIsFenced, Ssaa
<1>6. CASE RenderUpscaled
  <2>1. /\ cmd' = TRUE /\ caps' = caps /\ submissions' = submissions /\ phase' = "end"
        /\ pending_render_passes_upscaled' = pending_render_passes_upscaled + 1
        /\ pending_render_passes' = pending_render_passes
    BY <1>6 DEF RenderUpscaled, gpu
  <2>2. PendingExact'
    <3>1. CASE Ssaa
      <4>1. Record(Ssaa)
        BY <1>6 DEF RenderUpscaled
      <4>2. Visible(recorded')
        BY <3>1, <4>1, VisibleRecord
      <4>3. HostVisible' # 0
        BY <2>1, <3>1 DEF HostVisible, Ssaa, TypeOK
      <4>. QED BY <4>2, <4>3 DEF PendingExact
    <3>2. CASE ~Ssaa
      <4>1. Visible(recorded') <=> Visible(recorded)
        BY <1>6, <3>2 DEF RenderUpscaled, Record, Visible
      <4>. QED BY <2>1, <3>2, <4>1 DEF Opened, PendingExact, HostVisible, Ssaa
    <3>. QED BY <3>1, <3>2
  <2>. QED BY <2>1, <2>2 DEF Opened, VisibleIsFenced
<1>7. ASSUME UNCHANGED <<caps, pendings, recorded, submissions>>
      PROVE  PendingExact' /\ VisibleIsFenced'
  BY <1>7 DEF Opened, PendingExact, VisibleIsFenced, HostVisible, Visible, Ssaa, pendings
<1>8. CASE FlushUpload
  BY <1>7, <1>8 DEF FlushUpload, Opened, Ssaa, gpu
<1>9. CASE EndPass
  BY <1>7, <1>9 DEF EndPass, Opened, Ssaa, gpu, command, sync
<1>10. CASE MaintainSkip
  BY <1>7, <1>10, <1>r DEF MaintainSkip, Maintained, Opened, Ssaa, gpu, command, sync
<1>11. CASE FlushEmpty
  BY <1>7, <1>11, <1>r DEF FlushEmpty, Opened, Ssaa, gpu, command, sync
<1>12. CASE FlushLock \/ BindFramebuffer \/ \E full \in BOOLEAN : AddUpload(full)
  BY <1>7, <1>12 DEF FlushLock, BindFramebuffer, AddUpload, Flush, Opened, Ssaa, gpu, command,
                     sync
<1>13. CASE \E jobs, full \in BOOLEAN : Draw(jobs, full)
  <2>1. /\ UNCHANGED <<caps, recorded, submissions, cmd, needs_flush, pending_render_passes,
                       pending_render_passes_upscaled>>
        /\ phase' \in {"idle", "flush"}
    BY <1>13 DEF Draw, Flush, gpu, command, sync
  <2>. QED BY <2>1 DEF Opened, PendingExact, VisibleIsFenced, HostVisible, Visible, Ssaa
<1>14. CASE LoadTile \/ SetFramebuffer \/ FlushAndSignal \/ MaintainIdle
  BY <1>7, <1>14 DEF LoadTile, SetFramebuffer, FlushAndSignal, MaintainIdle, Flush, Opened, Ssaa,
                     gpu, command, sync
<1>15. CASE Complete \/ Release
  BY <1>7, <1>15 DEF Complete, Release, Opened, Ssaa, gpu, command, sync
<1>. QED BY <1>0, <1>1, <1>2, <1>3, <1>4, <1>5, <1>6, <1>8, <1>9, <1>10, <1>11, <1>12, <1>13,
            <1>14, <1>15 DEF Next, Handler, Command

(* What is on record stays on record. *)
LEMMA OnRecordStays ==
    ASSUME TypeOK, Opened, [Next]_vars, NEW p, OnRecord(p)
    PROVE  OnRecord(p)'
<1>s. ASSUME SubmitToQueue PROVE OnRecord(p)'
  <2>1. CASE ~cmd
    BY <1>s, <2>1, SubmitEffect DEF OnRecord
  <2>2. CASE cmd
    <3>. DEFINE f == Len(submissions) + 1
    <3>0. Len(submissions) \in Nat
      BY DEF TypeOK
    <3>1. /\ Len(submissions') = f
          /\ \A s \in 1 .. Len(submissions) : submissions'[s] = submissions[s]
          /\ submissions'[f].reads = recorded
      BY <1>s, <2>2, SubmitEffect
    <3>2. f \in 1 .. Len(submissions') /\ 1 .. Len(submissions) \subseteq 1 .. Len(submissions')
      BY <3>0, <3>1
    <3>. HIDE DEF f
    <3>. QED BY <3>1, <3>2 DEF OnRecord
  <2>. QED BY <2>1, <2>2
<1>a. ASSUME recorded \subseteq recorded', submissions' = submissions
      PROVE  OnRecord(p)'
  BY <1>a DEF OnRecord
<1>0. CASE UNCHANGED vars
  BY <1>0, <1>a DEF vars, command, gpu
<1>1. CASE MaintainSubmit \/ SubmitFlushed \/ FlushForced
  BY <1>1, <1>s DEF MaintainSubmit, SubmitFlushed, FlushForced
<1>2. CASE ResolveExternal
  <2>. DEFINE e == [reads |-> recorded, copied |-> {}, fenced |-> FALSE]
              S == Submission
  <2>1. submissions \in Seq(S) /\ recorded = {} /\ submissions' = Append(submissions, e)
    BY <1>2 DEF ResolveExternal, Opened, TypeOK, Submission
  <2>2. /\ Len(submissions) \in Nat /\ Len(submissions') = Len(submissions) + 1
        /\ \A s \in 1 .. Len(submissions) : submissions'[s] = submissions[s]
    <3>. HIDE DEF e, S
    <3>. QED BY <2>1
  <2>3. 1 .. Len(submissions) \subseteq 1 .. Len(submissions')
    BY <2>2
  <2>. QED BY <2>1, <2>2, <2>3 DEF OnRecord
<1>3. CASE RenderSingle \/ RenderUpscaled
  BY <1>3, <1>a DEF RenderSingle, RenderUpscaled, Record, gpu
<1>4. CASE \/ MaintainSkip \/ FlushEmpty \/ FlushLock \/ FlushUpload \/ EndPass
           \/ BindFramebuffer \/ \E full \in BOOLEAN : AddUpload(full)
  BY <1>4, <1>a DEF MaintainSkip, FlushEmpty, FlushLock, FlushUpload, EndPass, BindFramebuffer,
                    AddUpload, command, gpu
<1>5. CASE Command \/ MaintainIdle \/ Complete \/ Release
  BY <1>5, <1>a DEF Command, Draw, LoadTile, SetFramebuffer, FlushAndSignal, MaintainIdle,
                    Complete, Release, command, gpu
<1>. QED BY <1>0, <1>1, <1>2, <1>3, <1>4, <1>5 DEF Next, Handler

(* No step loses a pass or a primitive.                                    *)
LEMMA KeptStep ==
    ASSUME TypeOK, Opened, Opened', Kept, [Next]_vars
    PROVE  Kept'
<1>. DEFINE Rest == phase \in {"between", "end"} \/ (phase = "upscaled" /\ ~Ssaa)
                       => OnRecord(passes + 1)
<1>1. recorded' # {} => cmd'
  BY DEF Opened
<1>2. \A p : OnRecord(p) => OnRecord(p)'
  BY OnRecordStays
<1>3. CASE EndPass
  <2>1. passes' = passes + 1 /\ passes \in Nat /\ phase' = "maintain"
    BY <1>3 DEF EndPass, TypeOK
  <2>2. ASSUME NEW p \in 1 .. passes' PROVE OnRecord(p)
    <3>1. CASE p = passes + 1
      BY <1>3, <3>1 DEF EndPass, Kept
    <3>2. CASE p # passes + 1
      BY <2>1, <3>2 DEF Kept, NoPassLost
    <3>. QED BY <3>1, <3>2
  <2>. QED BY <1>1, <1>2, <2>1, <2>2 DEF Kept, NoPassLost
<1>4. ASSUME ~EndPass PROVE passes' = passes
  BY <1>4 DEF Next, Handler, Command, MaintainSubmit, MaintainSkip, SubmitFlushed, SubmitToQueue,
     ResolveExternal, FlushEmpty, FlushLock, FlushForced, FlushUpload, RenderSingle,
     RenderUpscaled, AddUpload, BindFramebuffer, Draw, LoadTile, SetFramebuffer, FlushAndSignal,
     MaintainIdle, Complete, Release, vars, history
<1>5. ASSUME ~EndPass PROVE (\A p \in 1 .. passes : OnRecord(p))'
  BY <1>2, <1>4, <1>5 DEF Kept, NoPassLost
<1>6. CASE RenderSingle
  <2>1. Record(TRUE) /\ passes' = passes /\ ~EndPass
    BY <1>6 DEF RenderSingle, EndPass, history
  <2>2. OnRecord(passes + 1)'
    <3>. DEFINE r == [pass |-> passes + 1, inst |-> buffer_instance, visible |-> TRUE]
    <3>1. r \in recorded' /\ r.pass = passes' + 1 /\ r.visible
      BY <2>1 DEF Record
    <3>. HIDE DEF r
    <3>. QED BY <3>1 DEF OnRecord
  <2>. QED BY <1>1, <1>5, <2>1, <2>2 DEF Kept, NoPassLost
<1>7. CASE RenderUpscaled
  <2>1. Record(Ssaa) /\ passes' = passes /\ ~EndPass /\ phase = "upscaled"
    BY <1>7 DEF RenderUpscaled, EndPass, history
  <2>2. CASE Ssaa
    <3>. DEFINE r == [pass |-> passes + 1, inst |-> buffer_instance, visible |-> Ssaa]
    <3>1. r \in recorded' /\ r.pass = passes' + 1 /\ r.visible
      BY <2>1, <2>2 DEF Record
    <3>. HIDE DEF r
    <3>2. OnRecord(passes + 1)'
      BY <3>1 DEF OnRecord
    <3>. QED BY <1>1, <1>5, <2>1, <3>2 DEF Kept, NoPassLost
  <2>3. CASE ~Ssaa
    <3>1. OnRecord(passes + 1)'
      BY <1>2, <2>1, <2>3 DEF Kept
    <3>. QED BY <1>1, <1>5, <2>1, <3>1 DEF Kept, NoPassLost
  <2>. QED BY <2>2, <2>3
<1>8. CASE ~EndPass /\ ~RenderSingle /\ ~RenderUpscaled
  <2>1. ASSUME Rest' PROVE Kept'
    BY <1>1, <1>5, <1>8, <2>1 DEF Kept, NoPassLost
  <2>r. ASSUME Return PROVE phase' \notin {"between", "end", "upscaled"}
    BY <2>r DEF Return, TypeOK, Continuation
  <2>2. ASSUME phase' \notin {"between", "end", "upscaled"} PROVE Rest'
    BY <2>2
  <2>3. ASSUME UNCHANGED <<phase, caps>> PROVE Rest'
    BY <1>2, <1>4, <1>8, <2>3 DEF Kept, Ssaa
  <2>4. CASE MaintainSubmit \/ MaintainSkip
    <3>1. CASE phase = "maintain"
      BY <2>1, <2>2, <2>4, <2>r, <3>1 DEF MaintainSubmit, MaintainSkip, Maintained
    <3>2. CASE phase # "maintain"
      <4>1. OnRecord(passes + 1)' /\ passes' = passes
        BY <1>2, <1>4, <1>8, <2>4, <3>2 DEF MaintainSubmit, MaintainSkip, Maintained, Kept
      <4>. QED BY <2>1, <4>1
    <3>. QED BY <3>1, <3>2
  <2>5. CASE FlushEmpty
    BY <2>1, <2>2, <2>5, <2>r DEF FlushEmpty
  <2>6. CASE FlushUpload
    BY <2>1, <2>6 DEF FlushUpload, Ssaa
  <2>7. CASE \/ SubmitFlushed \/ ResolveExternal \/ FlushLock \/ FlushForced
             \/ BindFramebuffer \/ \E full \in BOOLEAN : AddUpload(full)
    BY <2>1, <2>2, <2>7 DEF SubmitFlushed, ResolveExternal, FlushLock, FlushForced,
                            BindFramebuffer, AddUpload, Flush
  <2>8. CASE Command \/ MaintainIdle
    <3>1. phase' \in {"idle", "flush", "upload"}
      BY <2>8 DEF Command, Draw, LoadTile, SetFramebuffer, FlushAndSignal, MaintainIdle, Flush
    <3>. QED BY <2>1, <2>2, <3>1
  <2>9. CASE Complete \/ Release \/ UNCHANGED vars
    BY <2>1, <2>3, <2>9 DEF Complete, Release, vars
  <2>. QED BY <1>8, <2>4, <2>5, <2>6, <2>7, <2>8, <2>9 DEF Next, Handler
<1>. QED BY <1>3, <1>6, <1>7, <1>8

(* When a flush has come to its end the stream caches are empty.           *)
LEMMA FlushedStep ==
    ASSUME TypeOK, Opened, Flushed, [Next]_vars
    PROVE  Flushed'
<1>. DEFINE Locks == HostVisible = 0 /\ locked # {} =>
                        phase \in {"forced", "wait", "single"} \/ (phase = "upscaled" /\ Ssaa)
            Counted == base_primitive_index + stream.triangles = drawn
            Drained == phase \in {"submit", "external", "maintain"} => stream.triangles = 0
<1>f. Flushed <=> Counted /\ Drained /\ (Incoherent \/ locked = {}) /\ Locks
  BY DEF Flushed, PrimitiveIndexExact
<1>f2. Counted' /\ Drained' /\ (Incoherent \/ locked = {})' /\ Locks' => Flushed'
  BY DEF Flushed, PrimitiveIndexExact
<1>t. /\ stream.triangles \in Nat /\ base_primitive_index \in Nat /\ drawn \in Nat
      /\ pending_render_passes \in Nat /\ pending_render_passes_upscaled \in Nat
  BY DEF TypeOK
<1>r. ASSUME Return PROVE phase' \in {"submit", "idle", "upload", "framebuffer", "external"}
  BY <1>r DEF Return, TypeOK, Continuation
<1>q. caps' = caps
  BY DEF Next, Handler, Command, MaintainSubmit, MaintainSkip, SubmitFlushed, SubmitToQueue,
     ResolveExternal, FlushEmpty, FlushLock, FlushForced, FlushUpload, RenderSingle,
     RenderUpscaled, EndPass, AddUpload, BindFramebuffer, Draw, LoadTile, SetFramebuffer,
     FlushAndSignal, MaintainIdle, Complete, Release, vars
<1>c. ASSUME UNCHANGED <<stream, base_primitive_index, drawn>> PROVE Counted'
  BY <1>c, <1>f
<1>u. ASSUME UNCHANGED <<pending_render_passes, pending_render_passes_upscaled, locked>>
      PROVE  HostVisible' = HostVisible /\ (Incoherent \/ locked = {})'
  BY <1>u, <1>q, <1>f DEF HostVisible, Ssaa, Incoherent
\* A submission takes the locked pages with it, when there is anything to see.
<1>s. ASSUME SubmitToQueue
      PROVE  /\ Counted' /\ stream' = stream /\ (Incoherent \/ locked = {})'
             /\ phase \notin {"forced", "wait", "single", "upscaled"} => Locks'
  <2>1. UNCHANGED <<stream, base_primitive_index, drawn>>
    BY <1>s DEF SubmitToQueue, history
  <2>2. locked' = {} \/ locked' = locked
    BY <1>s, SubmitEffect
  <2>3. HostVisible # 0 => cmd
    BY <1>s, SubmitEffect
  <2>4. HostVisible # 0 /\ Incoherent => locked' = {}
    BY <1>s, <2>3, SubmitEffect
  <2>5. (Incoherent \/ locked = {})'
    BY <1>f, <1>q, <2>2 DEF Incoherent
  <2>6. ASSUME phase \notin {"forced", "wait", "single", "upscaled"} PROVE locked' = {}
    BY <1>f, <2>2, <2>4, <2>6
  <2>. QED BY <1>c, <2>1, <2>5, <2>6
<1>0. CASE UNCHANGED vars
  BY <1>0, <1>f, <1>f2 DEF vars, HostVisible, Ssaa, Incoherent, pendings, history
<1>1. CASE MaintainSubmit \/ SubmitFlushed
  <2>1. SubmitToQueue /\ phase \notin {"forced", "wait", "single", "upscaled"}
    BY <1>1 DEF MaintainSubmit, SubmitFlushed, Maintained
  <2>2. Drained'
    BY <1>1, <1>f, <1>r, <1>s, <2>1 DEF MaintainSubmit, SubmitFlushed, Maintained
  <2>. QED BY <1>f2, <1>s, <2>1, <2>2
<1>2. CASE FlushForced
  BY <1>2, <1>f2, <1>s DEF FlushForced
<1>3. CASE MaintainSkip
  <2>1. Drained' /\ Locks'
    BY <1>3, <1>f, <1>r, <1>u DEF MaintainSkip, Maintained, pendings
  <2>. QED BY <1>3, <1>c, <1>f2, <1>u, <2>1 DEF MaintainSkip, pendings, history
<1>4. CASE ResolveExternal
  BY <1>4, <1>c, <1>f, <1>f2, <1>u DEF ResolveExternal, pendings, history
<1>5. CASE FlushEmpty
  <2>1. Counted' /\ stream'.triangles = 0
    BY <1>5, <1>f, <1>t DEF FlushEmpty, Empty, history
  <2>2. Locks'
    BY <1>5, <1>f, <1>u DEF FlushEmpty, pendings
  <2>. QED BY <1>5, <1>f2, <1>u, <2>1, <2>2 DEF FlushEmpty, pendings
<1>6. CASE FlushLock
  BY <1>6, <1>c, <1>f, <1>f2, <1>q DEF FlushLock, Incoherent, history
<1>7. CASE FlushUpload
  BY <1>7, <1>c, <1>f, <1>f2, <1>q, <1>u DEF FlushUpload, Ssaa, pendings, history
<1>8. CASE RenderSingle
  <2>1. ~Ssaa' /\ HostVisible' # 0
    BY <1>8, <1>q, <1>t DEF RenderSingle, Opened, HostVisible, Ssaa
  <2>2. Drained' /\ locked' = locked
    BY <1>8 DEF RenderSingle
  <2>. QED BY <1>8, <1>c, <1>f, <1>f2, <1>q, <2>1, <2>2 DEF RenderSingle, Incoherent, history
<1>9. CASE RenderUpscaled
  <2>1. Locks'
    <3>1. CASE Ssaa
      <4>1. HostVisible' # 0
        BY <1>9, <1>q, <1>t, <3>1 DEF RenderUpscaled, HostVisible, Ssaa
      <4>. QED BY <4>1
    <3>2. CASE ~Ssaa
      BY <1>9, <1>f, <1>q, <3>2 DEF RenderUpscaled, HostVisible, Ssaa
    <3>. QED BY <3>1, <3>2
  <2>. QED BY <1>9, <1>c, <1>f, <1>f2, <1>q, <2>1 DEF RenderUpscaled, Incoherent, history
<1>10. CASE EndPass
  <2>1. Counted' /\ stream'.triangles = 0
    BY <1>10, <1>f, <1>t DEF EndPass, Empty
  <2>2. Locks'
    BY <1>10, <1>f, <1>u DEF EndPass, pendings
  <2>. QED BY <1>10, <1>f2, <1>u, <2>1, <2>2 DEF EndPass, pendings
<1>11. CASE \E full \in BOOLEAN : AddUpload(full)
  <2>. PICK full \in BOOLEAN : AddUpload(full)
    BY <1>11
  <2>1. Counted'
    BY <1>f DEF AddUpload, TypeOK, history
  <2>2. Drained' /\ Locks'
    BY <1>f, <1>u DEF AddUpload, Flush, pendings
  <2>. QED BY <1>f2, <1>u, <2>1, <2>2 DEF AddUpload, pendings
<1>12. CASE BindFramebuffer \/ LoadTile \/ SetFramebuffer \/ FlushAndSignal \/ MaintainIdle
  <2>1. Drained' /\ Locks'
    BY <1>12, <1>f, <1>u DEF BindFramebuffer, LoadTile, SetFramebuffer, FlushAndSignal,
                             MaintainIdle, Flush, pendings
  <2>. QED BY <1>12, <1>c, <1>f2, <1>u, <2>1
           DEF BindFramebuffer, LoadTile, SetFramebuffer, FlushAndSignal, MaintainIdle, pendings,
               history
<1>13. CASE \E jobs, full \in BOOLEAN : Draw(jobs, full)
  <2>. PICK jobs \in BOOLEAN, full \in BOOLEAN : Draw(jobs, full)
    BY <1>13
  <2>0. stream'.triangles = stream.triangles + 1 /\ drawn' = drawn + 1
        /\ base_primitive_index' = base_primitive_index
    BY DEF Draw, TypeOK
  <2>1. Counted'
    BY <1>f, <1>t, <2>0
  <2>2. Drained' /\ Locks'
    BY <1>f, <1>u DEF Draw, Flush
  <2>. QED BY <1>f2, <1>u, <2>1, <2>2 DEF Draw
<1>14. CASE Complete \/ Release
  <2>1. Drained' /\ Locks'
    BY <1>14, <1>f, <1>q, <1>u DEF Complete, Release, Ssaa, pendings
  <2>. QED BY <1>14, <1>c, <1>f2, <1>u, <2>1 DEF Complete, Release, pendings, history
<1>. QED BY <1>0, <1>1, <1>2, <1>3, <1>4, <1>5, <1>6, <1>7, <1>8, <1>9, <1>10, <1>11, <1>12,
            <1>13, <1>14 DEF Next, Handler, Command

-----------------------------------------------------------------------------
(* The inductive invariant holds in the initial states.                    *)
LEMMA IInvInit == Init => IInv
<1>. SUFFICES ASSUME Init PROVE IInv
  OBVIOUS
<1>1. TypeOK
  BY SizeAssumption DEF Init, TypeOK, Empty, Phase, Continuation, Instance
<1>2. Protected /\ Claimed /\ Opened /\ Kept /\ Flushed
  BY DEF Init, Protected, Claimed, Opened, Kept, Flushed, PendingExact, VisibleIsFenced,
         HostVisible, Visible, NoPassLost, PrimitiveIndexExact, Empty, Instance
<1>. QED BY <1>1, <1>2 DEF IInv

(* Every step preserves the inductive invariant.                           *)
LEMMA IInvStep == IInv /\ [Next]_vars => IInv'
<1>. SUFFICES ASSUME IInv, [Next]_vars PROVE IInv'
  OBVIOUS
<1>1. Opened'
  BY OpenedStep DEF IInv
<1>. QED BY <1>1, TypeStep, ProtectedStep, ClaimedStep, KeptStep, FlushedStep DEF IInv

(* The inductive invariant holds in every reachable state: instances are   *)
(* protected and claimed, counters agree with the command buffer, nothing  *)
(* is lost (flush_queues, submit_to_queue).                                *)
THEOREM IInvHolds == Spec => []IInv
BY IInvInit, IInvStep, PTL DEF Spec

(* No instance is overwritten while a pass that reads it is recorded or in *)
(* flight, and the fence kept for an instance is the one that protects it. *)
THEOREM InstancesAreStable == Spec => [](InstanceStable /\ FenceProtects)
<1>1. IInv => InstanceStable
  BY DEF IInv, Protected, InstanceStable
<1>2. IInv => FenceProtects
  <2>. SUFFICES ASSUME IInv, NEW i \in Instance
                PROVE  /\ sync_fence[i] <= Len(submissions)
                       /\ \A s \in LastReader(i) : s <= gpu_done \/ s <= sync_fence[i]
                       /\ i \notin needs_flush => \A r \in recorded : r.inst # i
    BY DEF FenceProtects
  <2>1. ASSUME NEW s \in LastReader(i) PROVE s <= gpu_done \/ s <= sync_fence[i]
    <3>1. s \in 1 .. Len(submissions) /\ \E r \in submissions[s].reads : r.inst = i
      BY DEF LastReader
    <3>2. gpu_done \in Nat /\ Len(submissions) \in Nat
      BY DEF IInv, TypeOK
    <3>3. CASE s <= gpu_done
      BY <3>3
    <3>4. CASE ~(s <= gpu_done)
      <4>1. s \in gpu_done + 1 .. Len(submissions)
        BY <3>1, <3>2, <3>4
      <4>. QED BY <3>1, <4>1 DEF IInv, Protected
    <3>. QED BY <3>3, <3>4
  <2>. QED BY <2>1 DEF IInv, Protected
<1>. QED BY <1>1, <1>2, IInvHolds, PTL

(* Passes are not lost between the stream caches and the GPU, what the     *)
(* host can see is counted and fenced, and primitives are numbered.        *)
THEOREM PassesAreAccounted ==
    Spec => [](TypeOK /\ NoPassLost /\ PendingExact /\ VisibleIsFenced /\ PrimitiveIndexExact)
<1>1. IInv => TypeOK /\ NoPassLost /\ PendingExact /\ VisibleIsFenced /\ PrimitiveIndexExact
  BY DEF IInv, Kept, Opened, Flushed
<1>. QED BY <1>1, IInvHolds, PTL

(* flush_and_signal submits all that was drawn before, and its pages.      *)
THEOREM FlushIsComplete == Spec => FlushLeavesNothing
<1>. DEFINE Left == phase = "submit" /\ phase' # "submit" =>
                        /\ base_primitive_index' = drawn' /\ recorded' = {} /\ ~cmd'
                        /\ needs_flush' = {} /\ HostVisible' = 0 /\ locked' = {}
<1>1. IInv /\ [Next]_vars => [Left]_vars
  <2>. SUFFICES ASSUME IInv, [Next]_vars PROVE [Left]_vars
    OBVIOUS
  <2>. SUFFICES ASSUME phase = "submit", phase' # "submit" PROVE Left
    OBVIOUS
  <2>1. SubmitFlushed
    BY DEF Next, Handler, Command, MaintainSubmit, MaintainSkip, Maintained, ResolveExternal,
       FlushEmpty, FlushLock, FlushForced, FlushUpload, RenderSingle, RenderUpscaled, EndPass,
       AddUpload, BindFramebuffer, Draw, LoadTile, SetFramebuffer, FlushAndSignal, MaintainIdle,
       Complete, Release, vars
  <2>2. SubmitToQueue
    BY <2>1 DEF SubmitFlushed
  <2>3. recorded' = {} /\ needs_flush' = {} /\ ~cmd' /\ HostVisible' = 0
    BY <2>2, SubmitEffect DEF IInv
  <2>4. base_primitive_index' = drawn'
    BY <2>2 DEF IInv, Flushed, PrimitiveIndexExact, SubmitToQueue, history, TypeOK
  <2>5. locked' = {}
    <3>1. CASE locked = {}
      BY <2>2, <3>1 DEF SubmitToQueue
    <3>2. CASE locked # {}
      <4>1. Incoherent /\ HostVisible # 0
        BY <3>2 DEF IInv, Flushed
      <4>2. cmd
        BY <2>2, <4>1, SubmitEffect DEF IInv
      <4>. QED BY <2>2, <4>1, <4>2, SubmitEffect DEF IInv
    <3>. QED BY <3>1, <3>2
  <2>. QED BY <2>3, <2>4, <2>5
<1>. QED BY <1>1, IInvHolds, PTL DEF Spec, FlushLeavesNothing
-----------------------------------------------------------------------------
(* What depends on there being more instances than passes that may pend.   *)

\* A pass is recorded: the current instance joins those that are in use.
LEMMA RecentGrows ==
    ASSUME NEW h \in Nat, passes \in Nat, buffer_instance = passes % NumSyncStates,
           Recent(0, h) \/ Recent(1, h), needs_flush' = needs_flush \union {buffer_instance}
    PROVE  \A i \in needs_flush' : \E j \in 0 .. h : i = (passes - j) % NumSyncStates
<1>. SUFFICES ASSUME NEW i \in needs_flush'
              PROVE  \E j \in 0 .. h : i = (passes - j) % NumSyncStates
  OBVIOUS
<1>1. CASE i = buffer_instance
  <2>1. 0 \in 0 .. h /\ passes - 0 = passes
    OBVIOUS
  <2>. QED BY <1>1, <2>1
<1>2. CASE i \in needs_flush
  <2>1. PICK j \in 0 .. h : i = (passes - j) % NumSyncStates
    BY <1>2 DEF Recent
  <2>. QED BY <2>1
<1>. QED BY <1>1, <1>2

(* No instance is in use initially.                                        *)
LEMMA BoundedInit == Init => Bounded
BY SizeAssumption DEF Init, Bounded, Recent, HostVisible, NeverForced

(* With enough instances the passes that pend never come round to the      *)
(* instance that is next.                                                  *)
LEMMA BoundedStep ==
    ASSUME EnoughInstances, TypeOK, Opened, Bounded, [Next]_vars
    PROVE  Bounded'
<1>. DEFINE Calm == {"idle", "upload", "framebuffer", "submit", "external", "flush", "wait"}
            N == NumSyncStates
<1>t. /\ N \in Nat \ {0} /\ MaxPending \in Nat \ {0} /\ passes \in Nat
      /\ pending_render_passes \in Nat /\ pending_render_passes_upscaled \in Nat
      /\ HostVisible \in Nat /\ NumSyncStates > MaxPending /\ Limited
  BY SizeAssumption DEF TypeOK, HostVisible, EnoughInstances, Limited
<1>b. /\ phase \in Calm => HostVisible < MaxPending /\ Recent(1, HostVisible + 1)
      /\ phase # "forced" /\ buffer_instance = passes % N
  BY DEF Bounded, NeverForced
<1>r. ASSUME Return PROVE phase' \in Calm
  BY <1>r DEF Return, TypeOK, Continuation
<1>q. caps' = caps
  BY DEF Next, Handler, Command, MaintainSubmit, MaintainSkip, SubmitFlushed, SubmitToQueue,
     ResolveExternal, FlushEmpty, FlushLock, FlushForced, FlushUpload, RenderSingle,
     RenderUpscaled, EndPass, AddUpload, BindFramebuffer, Draw, LoadTile, SetFramebuffer,
     FlushAndSignal, MaintainIdle, Complete, Release, vars
\* Nothing that is counted changes.
<1>u. ASSUME UNCHANGED <<pending_render_passes, pending_render_passes_upscaled>>
      PROVE  HostVisible' = HostVisible
  BY <1>u, <1>q DEF HostVisible, Ssaa
<1>k. ASSUME HostVisible' = HostVisible, UNCHANGED <<passes, needs_flush>>
      PROVE  \A lo, hi : Recent(lo, hi)' <=> Recent(lo, hi)
  BY <1>k DEF Recent
<1>c. ASSUME HostVisible' = HostVisible, UNCHANGED <<passes, needs_flush, buffer_instance>>,
             phase \in Calm, phase' \in Calm
      PROVE  Bounded'
  BY <1>c, <1>b, <1>k DEF Bounded, NeverForced
\* A submission leaves no instance behind.
<1>s. ASSUME SubmitToQueue, phase' # "forced" PROVE Bounded'
  <2>1. needs_flush' = {} /\ HostVisible' = 0
    BY <1>s, SubmitEffect
  <2>2. passes' = passes /\ buffer_instance' = buffer_instance
    BY <1>s DEF SubmitToQueue, history
  <2>3. \A lo, hi : Recent(lo, hi)'
    BY <2>1 DEF Recent
  <2>. QED BY <1>b, <1>s, <1>t, <2>1, <2>2, <2>3 DEF Bounded, NeverForced
<1>0. CASE UNCHANGED vars
  <2>1. HostVisible' = HostVisible /\ UNCHANGED <<passes, needs_flush, phase, buffer_instance, caps>>
    BY <1>0, <1>u DEF vars, pendings, history, sync
  <2>. QED BY <1>k, <2>1 DEF Bounded, NeverForced, Ssaa
<1>1. CASE MaintainSubmit \/ SubmitFlushed
  BY <1>1, <1>r, <1>s DEF MaintainSubmit, SubmitFlushed, Maintained
<1>2. CASE FlushForced
  BY <1>2, <1>b DEF FlushForced
<1>3. CASE MaintainSkip
  <2>1. HostVisible' = HostVisible /\ UNCHANGED <<passes, needs_flush, buffer_instance>>
    BY <1>3, <1>u DEF MaintainSkip, pendings, history, sync
  <2>2. HostVisible < MaxPending
    BY <1>3, <1>t DEF MaintainSkip, MustSubmit, HostVisible
  <2>3. CASE phase = "between"
    <3>1. phase' = "upscaled" /\ ~Ssaa
      BY <1>3, <2>3 DEF MaintainSkip, Maintained, Opened
    <3>2. Recent(0, HostVisible)
      BY <2>3 DEF Bounded
    <3>. QED BY <1>b, <1>k, <1>q, <2>1, <3>1, <3>2 DEF Bounded, NeverForced, Ssaa
  <2>4. CASE phase = "maintain"
    <3>1. phase' \in Calm
      BY <1>3, <1>r, <2>4 DEF MaintainSkip, Maintained
    <3>2. Recent(1, HostVisible + 1)
      BY <2>4 DEF Bounded
    <3>. QED BY <1>b, <1>k, <2>1, <2>2, <3>1, <3>2 DEF Bounded, NeverForced
  <2>. QED BY <1>3, <2>3, <2>4 DEF MaintainSkip, Maintained
<1>4. CASE ResolveExternal
  BY <1>4, <1>c, <1>u DEF ResolveExternal, pendings, history, sync
<1>5. CASE FlushEmpty
  BY <1>5, <1>c, <1>r, <1>u DEF FlushEmpty, pendings, history, sync
\* The instance was used NumSyncStates passes ago, and so many do not pend.
<1>6. CASE FlushLock
  <2>1. phase = "flush" /\ Recent(1, HostVisible + 1) /\ HostVisible + 1 <= N - 1
    BY <1>6, <1>b, <1>t DEF FlushLock
  <2>2. buffer_instance \notin needs_flush
    <3>. SUFFICES ASSUME buffer_instance \in needs_flush PROVE FALSE
      OBVIOUS
    <3>1. PICK j \in 1 .. HostVisible + 1 : buffer_instance = (passes - j) % N
      BY <2>1 DEF Recent
    <3>2. j \in 1 .. N - 1 /\ passes \in Int
      BY <1>t, <2>1
    <3>3. (passes - j) % N # passes % N
      BY <1>t, <3>2, RemaindersDiffer
    <3>. QED BY <1>b, <3>1, <3>3
  <2>3. phase' = "wait"
    BY <1>6, <2>2 DEF FlushLock
  <2>. QED BY <1>6, <1>c, <1>u, <2>1, <2>3 DEF FlushLock, pendings, history, sync
<1>7. CASE FlushUpload
  <2>1. /\ HostVisible' = HostVisible /\ UNCHANGED <<passes, buffer_instance>>
        /\ phase = "wait" /\ phase' = IF Ssaa THEN "upscaled" ELSE "single"
        /\ needs_flush' = needs_flush \union {buffer_instance}
    BY <1>7, <1>u DEF FlushUpload, pendings, history
  <2>2. \A i \in needs_flush' : \E j \in 0 .. HostVisible + 1 : i = (passes - j) % N
    <3>. DEFINE h == HostVisible + 1
    <3>1. h \in Nat /\ Recent(1, h)
      BY <1>b, <1>t, <2>1
    <3>. HIDE DEF h
    <3>. QED BY <1>b, <1>t, <2>1, <3>1, RecentGrows
  <2>3. Recent(0, HostVisible + 1)'
    BY <2>1, <2>2 DEF Recent
  <2>. QED BY <1>b, <1>q, <2>1, <2>3 DEF Bounded, NeverForced, Ssaa
<1>8. CASE RenderSingle
  <2>1. /\ ~Ssaa /\ HostVisible' = HostVisible + 1
        /\ UNCHANGED <<passes, needs_flush, buffer_instance>>
        /\ phase = "single" /\ phase' \in {"between", "end"}
    BY <1>8, <1>q DEF RenderSingle, Opened, HostVisible, Ssaa, sync, history
  <2>2. Recent(0, HostVisible)'
    BY <2>1 DEF Bounded, Recent
  <2>. QED BY <1>b, <2>1, <2>2 DEF Bounded, NeverForced
<1>9. CASE RenderUpscaled
  <2>1. /\ UNCHANGED <<passes, buffer_instance>> /\ phase = "upscaled" /\ phase' = "end"
        /\ needs_flush' = needs_flush \union {buffer_instance}
    BY <1>9 DEF RenderUpscaled, history
  <2>2. HostVisible' = IF Ssaa THEN HostVisible + 1 ELSE HostVisible
    BY <1>9, <1>q DEF RenderUpscaled, HostVisible, Ssaa
  <2>3. Recent(0, HostVisible')
    BY <2>1, <2>2 DEF Bounded
  <2>4. HostVisible' \in Nat /\ HostVisible' \in 0 .. HostVisible'
    BY <1>t, <2>2
  <2>5. PICK h \in Nat : h = HostVisible'
    BY <2>4
  <2>7. \A i \in needs_flush' : \E j \in 0 .. h : i = (passes - j) % N
    <3>1. Recent(0, h)
      BY <2>3, <2>5
    <3>. QED BY <1>b, <1>t, <2>1, <3>1, RecentGrows
  <2>6. Recent(0, HostVisible)'
    BY <2>1, <2>5, <2>7 DEF Recent
  <2>. QED BY <1>b, <2>1, <2>6 DEF Bounded, NeverForced
<1>10. CASE EndPass
  <2>1. /\ HostVisible' = HostVisible /\ passes' = passes + 1 /\ needs_flush' = needs_flush
        /\ phase = "end" /\ phase' = "maintain"
        /\ buffer_instance' = (buffer_instance + 1) % N
    BY <1>10, <1>u DEF EndPass, NextInstance, pendings, sync
  <2>2. buffer_instance' = passes' % N
    <3>1. ((passes % N) + 1) % N = (passes + 1) % N
      <4>1. passes \in Int
        BY <1>t
      <4>. HIDE DEF N
      <4>. QED BY <1>t, <4>1, RemainderSuccessor
    <3>. QED BY <1>b, <2>1, <3>1
  <2>3. Recent(1, HostVisible + 1)'
    <3>1. ASSUME NEW i \in needs_flush'
          PROVE  \E j \in 1 .. HostVisible' + 1 : i = (passes' - j) % NumSyncStates
      <4>1. PICK j \in 0 .. HostVisible : i = (passes - j) % N
        BY <2>1 DEF Bounded, Recent
      <4>2. j + 1 \in 1 .. HostVisible' + 1 /\ passes' - (j + 1) = passes - j
        BY <1>t, <2>1
      <4>. QED BY <4>1, <4>2
    <3>. QED BY <3>1 DEF Recent
  <2>. QED BY <2>1, <2>2, <2>3 DEF Bounded, NeverForced
<1>11. CASE \/ BindFramebuffer \/ LoadTile \/ SetFramebuffer \/ FlushAndSignal \/ MaintainIdle
            \/ \E full \in BOOLEAN : AddUpload(full)
  <2>1. phase \in Calm /\ phase' \in Calm /\ UNCHANGED <<passes, needs_flush, buffer_instance>>
    BY <1>11 DEF BindFramebuffer, LoadTile, SetFramebuffer, FlushAndSignal, MaintainIdle,
                 AddUpload, Flush, sync, history
  <2>2. HostVisible' = HostVisible
    BY <1>11, <1>u DEF BindFramebuffer, LoadTile, SetFramebuffer, FlushAndSignal, MaintainIdle,
                       AddUpload, pendings
  <2>. QED BY <1>c, <2>1, <2>2
<1>12. CASE \E jobs, full \in BOOLEAN : Draw(jobs, full)
  <2>1. phase \in Calm /\ phase' \in Calm /\ UNCHANGED <<passes, needs_flush, buffer_instance>>
    BY <1>12 DEF Draw, Flush, sync
  <2>2. HostVisible' = HostVisible
    BY <1>12, <1>u DEF Draw
  <2>. QED BY <1>c, <2>1, <2>2
<1>13. CASE Complete \/ Release
  <2>1. /\ HostVisible' = HostVisible
        /\ UNCHANGED <<passes, needs_flush, phase, buffer_instance, caps>>
    BY <1>13, <1>u DEF Complete, Release, pendings, history, sync
  <2>. QED BY <1>k, <2>1 DEF Bounded, NeverForced, Ssaa
<1>. QED BY <1>0, <1>1, <1>2, <1>3, <1>4, <1>5, <1>6, <1>7, <1>8, <1>9, <1>10, <1>11, <1>12,
            <1>13 DEF Next, Handler, Command

(* With more instances than passes may pend, the instance of a new pass is *)
(* always submitted before it is used again: the real 32 exceed the 8.     *)
THEOREM NoSubmitInMidFlush ==
    ASSUME EnoughInstances
    PROVE  Spec => []NeverForced
<1>1. Bounded /\ IInv /\ [Next]_vars => Bounded'
  BY BoundedStep DEF IInv
<1>2. Bounded => NeverForced
  BY DEF Bounded
<1>. QED BY <1>1, <1>2, BoundedInit, IInvHolds, PTL DEF Spec
-----------------------------------------------------------------------------

(* No page is locked initially.                                            *)
LEMMA CopiedInit == Init => Copied
BY DEF Init, Copied, CopiedWithPass

(* The pages of the open passes stay locked until the submission that      *)
(* holds them.                                                             *)
LEMMA CopiedStep ==
    ASSUME TypeOK, Opened, NeverForced, Copied, [Next]_vars
    PROVE  Copied'
<1>. DEFINE Held == \A r \in recorded : r.visible => r.pass \in locked
            Taken == phase \in {"wait", "single"} \/ (phase = "upscaled" /\ Ssaa)
                        => passes + 1 \in locked
<1>f. CopiedWithPass /\ (Incoherent => Held /\ Taken)
  BY DEF Copied
<1>g. CopiedWithPass' /\ (Incoherent => Held /\ Taken)' => Copied'
  BY DEF Copied
<1>q. caps' = caps
  BY DEF Next, Handler, Command, MaintainSubmit, MaintainSkip, SubmitFlushed, SubmitToQueue,
     ResolveExternal, FlushEmpty, FlushLock, FlushForced, FlushUpload, RenderSingle,
     RenderUpscaled, EndPass, AddUpload, BindFramebuffer, Draw, LoadTile, SetFramebuffer,
     FlushAndSignal, MaintainIdle, Complete, Release, vars
<1>i. Incoherent' = Incoherent /\ Ssaa' = Ssaa
  BY <1>q DEF Incoherent, Ssaa
<1>r. ASSUME Return PROVE phase' \in Continuation
  BY <1>r DEF Return, TypeOK, Continuation
<1>a. ASSUME submissions' = submissions PROVE CopiedWithPass'
  BY <1>a, <1>f, <1>i DEF CopiedWithPass
\* What is submitted takes the pages of its passes along.
<1>s. ASSUME SubmitToQueue, phase' \in Continuation \/ (phase' = "upscaled" /\ ~Ssaa)
      PROVE  Copied'
  <2>1. recorded' = {} /\ Held' /\ Taken'
    BY <1>i, <1>s, SubmitEffect DEF Continuation
  <2>2. CASE ~cmd
    BY <1>a, <1>g, <1>s, <2>1, <2>2, SubmitEffect
  <2>3. CASE cmd
    <3>. DEFINE f == Len(submissions) + 1
    <3>1. /\ Len(submissions') = f
          /\ \A s \in 1 .. Len(submissions) : submissions'[s] = submissions[s]
          /\ submissions'[f].reads = recorded
          /\ submissions'[f].copied = IF HostVisible # 0 /\ Incoherent THEN locked ELSE {}
      <4>. DEFINE copied == IF HostVisible # 0 /\ Incoherent THEN locked ELSE {}
                  e == [reads |-> recorded, copied |-> copied, fenced |-> HostVisible # 0]
      <4>1. /\ Len(submissions') = f /\ submissions'[f] = e
            /\ \A s \in 1 .. Len(submissions) : submissions'[s] = submissions[s]
        BY <1>s, <2>3, SubmitEffect
      <4>2. e.reads = recorded /\ e.copied = copied
        BY Zenon
      <4>. HIDE DEF e
      <4>. QED BY <4>1, <4>2
    <3>2. Len(submissions) \in Nat
      BY DEF TypeOK
    <3>3. Visible(recorded) => HostVisible # 0
      BY DEF Opened, PendingExact
    <3>4. ASSUME Incoherent, NEW s \in 1 .. Len(submissions'),
                 NEW r \in submissions'[s].reads, r.visible
          PROVE  r.pass \in submissions'[s].copied
      <4>1. CASE s = f
        BY <1>f, <3>1, <3>3, <3>4, <4>1 DEF Visible
      <4>2. CASE s # f
        <5>1. s \in 1 .. Len(submissions)
          BY <3>1, <3>2, <4>2
        <5>. QED BY <1>f, <3>1, <3>4, <5>1 DEF CopiedWithPass
      <4>. QED BY <4>1, <4>2
    <3>5. CopiedWithPass'
      BY <1>i, <3>4 DEF CopiedWithPass
    <3>. QED BY <1>g, <2>1, <3>5
  <2>. QED BY <2>2, <2>3
<1>0. CASE UNCHANGED vars
  BY <1>0, <1>a, <1>f, <1>g, <1>i DEF vars, gpu, command, history
<1>1. CASE MaintainSubmit \/ SubmitFlushed
  <2>1. SubmitToQueue
    BY <1>1 DEF MaintainSubmit, SubmitFlushed
  <2>2. phase' \in Continuation \/ (phase' = "upscaled" /\ ~Ssaa)
    BY <1>1, <1>r DEF MaintainSubmit, SubmitFlushed, Maintained, Opened, Continuation
  <2>. QED BY <1>s, <2>1, <2>2
<1>2. CASE FlushForced
  BY <1>2 DEF FlushForced, NeverForced
<1>3. CASE MaintainSkip
  <2>1. phase' \in Continuation \/ (phase' = "upscaled" /\ ~Ssaa)
    BY <1>3, <1>r DEF MaintainSkip, Maintained, Opened
  <2>. QED BY <1>3, <1>a, <1>f, <1>g, <1>i, <2>1 DEF MaintainSkip, gpu, command, Continuation
<1>4. CASE ResolveExternal
  <2>. DEFINE e == [reads |-> recorded, copied |-> {}, fenced |-> FALSE]
              S == Submission
  <2>1. submissions \in Seq(S) /\ recorded = {} /\ submissions' = Append(submissions, e)
    BY <1>4 DEF ResolveExternal, Opened, TypeOK, Submission
  <2>2. /\ Len(submissions) \in Nat /\ Len(submissions') = Len(submissions) + 1
        /\ \A s \in 1 .. Len(submissions) : submissions'[s] = submissions[s]
        /\ submissions'[Len(submissions) + 1] = e
    <3>. HIDE DEF e, S
    <3>. QED BY <2>1
  <2>3. CopiedWithPass'
    <3>1. \A s \in 1 .. Len(submissions') :
              s \in 1 .. Len(submissions) \/ submissions'[s].reads = {}
      BY <2>1, <2>2
    <3>. QED BY <1>f, <1>i, <2>2, <3>1 DEF CopiedWithPass
  <2>. QED BY <1>4, <1>f, <1>g, <1>i, <2>3 DEF ResolveExternal
<1>5. CASE FlushEmpty
  BY <1>5, <1>a, <1>f, <1>g, <1>i, <1>r DEF FlushEmpty, gpu, command, Continuation
<1>6. CASE FlushLock
  BY <1>6, <1>a, <1>f, <1>g, <1>i DEF FlushLock, gpu, command, history
<1>7. CASE FlushUpload
  <2>1. /\ UNCHANGED <<submissions, recorded, locked, passes>> /\ phase = "wait"
        /\ phase' = IF Ssaa THEN "upscaled" ELSE "single"
    BY <1>7 DEF FlushUpload, gpu, history
  <2>. QED BY <1>a, <1>f, <1>g, <1>i, <2>1
<1>8. CASE RenderSingle \/ RenderUpscaled
  <2>1. UNCHANGED <<submissions, locked, passes>> /\ phase' \in {"between", "end"}
    BY <1>8 DEF RenderSingle, RenderUpscaled, gpu, history
  <2>2. ASSUME Incoherent PROVE Held'
    <3>. SUFFICES ASSUME NEW r \in recorded', r.visible PROVE r.pass \in locked
      BY <2>1
    <3>1. CASE r \in recorded
      BY <1>f, <2>2, <3>1
    <3>2. CASE r \notin recorded
      <4>1. CASE RenderSingle
        <5>. DEFINE e == [pass |-> passes + 1, inst |-> buffer_instance, visible |-> TRUE]
        <5>1. r = e /\ e.pass = passes + 1
          BY <3>2, <4>1 DEF RenderSingle, Record
        <5>. QED BY <1>f, <2>2, <4>1, <5>1 DEF RenderSingle
      <4>2. CASE RenderUpscaled
        <5>. DEFINE e == [pass |-> passes + 1, inst |-> buffer_instance, visible |-> Ssaa]
        <5>1. r = e
          BY <3>2, <4>2 DEF RenderUpscaled, Record
        <5>2. e.pass = passes + 1 /\ e.visible = Ssaa
          BY Zenon
        <5>3. r.pass = passes + 1 /\ Ssaa
          <6>. HIDE DEF e
          <6>. QED BY <5>1, <5>2
        <5>. QED BY <1>f, <2>2, <4>2, <5>3 DEF RenderUpscaled
      <4>. QED BY <1>8, <4>1, <4>2
    <3>. QED BY <3>1, <3>2
  <2>. QED BY <1>a, <1>g, <1>i, <2>1, <2>2
<1>9. CASE EndPass
  BY <1>9, <1>a, <1>f, <1>g, <1>i DEF EndPass, gpu, command
<1>10. CASE \/ BindFramebuffer \/ LoadTile \/ SetFramebuffer \/ FlushAndSignal \/ MaintainIdle
            \/ (\E full \in BOOLEAN : AddUpload(full))
            \/ \E jobs, full \in BOOLEAN : Draw(jobs, full)
  <2>1. UNCHANGED <<submissions, recorded, locked>>
    BY <1>10 DEF BindFramebuffer, LoadTile, SetFramebuffer, FlushAndSignal, MaintainIdle,
                 AddUpload, Draw, gpu, command
  <2>2. phase' \in {"idle", "upload", "flush"}
    BY <1>10 DEF BindFramebuffer, LoadTile, SetFramebuffer, FlushAndSignal, MaintainIdle,
                 AddUpload, Draw, Flush
  <2>. QED BY <1>a, <1>f, <1>g, <1>i, <2>1, <2>2
<1>11. CASE Complete \/ Release
  BY <1>11, <1>a, <1>f, <1>g, <1>i DEF Complete, Release, gpu, command, history
<1>. QED BY <1>0, <1>1, <1>2, <1>3, <1>4, <1>5, <1>6, <1>7, <1>8, <1>9, <1>10, <1>11
         DEF Next, Handler, Command

(* The pages of a pass are copied back to the host by the submission that  *)
(* holds the pass, never by an earlier one, if a new pass never forces a   *)
(* submission after it has locked its pages.                               *)
THEOREM PagesFollowPasses ==
    ASSUME EnoughInstances
    PROVE  Spec => []CopiedWithPass
<1>1. Copied /\ IInv /\ NeverForced /\ [Next]_vars => Copied'
  BY CopiedStep DEF IInv
<1>2. Copied => CopiedWithPass
  BY DEF Copied
<1>. QED BY <1>1, <1>2, CopiedInit, IInvHolds, NoSubmitInMidFlush, PTL DEF Spec
=============================================================================
