------------------------ MODULE CommandProcessor_proofs -----------------------
(***************************************************************************)
(* The caller has the renderer and the device for itself when it uses      *)
(* them, sees the results of all the work that it waited for, and destroys *)
(* the processor safely: for any number of commands, signals and calls.    *)
(***************************************************************************)
EXTENDS CommandProcessor, SequenceTheorems, TLAPS

-----------------------------------------------------------------------------
(* What is left of a call. *)

\* Steps that may follow each other, and those a call may end with.
Follows ==
    {<<"signal", "wait">>, <<"wait", "open">>, <<"wait", "snapshot">>, <<"wait", "stop">>,
     <<"open", "work">>, <<"open", "sync">>, <<"sync", "close">>,
     <<"drain", "signal">>, <<"drain", "lock">>, <<"drain", "frame">>, <<"snapshot", "lock">>,
     <<"lock", "render">>, <<"render", "unlock">>, <<"unlock", "scan">>,
     <<"flush", "signal">>, <<"flush", "drain">>,
     <<"stop", "exit">>, <<"exit", "join">>, <<"join", "gone">>}
Last == {"work", "close", "signal", "wait", "flush", "scan", "frame", "gone"}

IsChain(s) ==
    /\ s \in Seq(Step)
    /\ \A i \in 1 .. Len(s) - 1 : <<s[i], s[i + 1]>> \in Follows
IsScript(s) == IsChain(s) /\ (s # <<>> => s[Len(s)] \in Last)

At(steps) == todo # <<>> /\ Head(todo) \in steps

LEMMA ScriptTail ==
    ASSUME NEW s, IsScript(s), s # <<>>
    PROVE  /\ IsScript(Tail(s))
           /\ Tail(s) # <<>> => <<Head(s), Head(Tail(s))>> \in Follows /\ Head(Tail(s)) = s[2] /\ Len(s) > 1
           /\ Tail(s) = <<>> => Head(s) \in Last
<1>. DEFINE t == Tail(s)
<1>1. /\ s \in Seq(Step) /\ Len(s) \in Nat /\ Len(s) > 0 /\ Head(s) = s[1]
      /\ \A i \in 1 .. Len(s) - 1 : <<s[i], s[i + 1]>> \in Follows
      /\ s[Len(s)] \in Last
  BY DEF IsScript, IsChain
<1>2. /\ t \in Seq(Step) /\ Len(t) = Len(s) - 1 /\ \A i \in 1 .. Len(s) - 1 : t[i] = s[i + 1]
  BY <1>1
<1>3. (t = <<>> <=> Len(t) = 0) /\ (t # <<>> => Head(t) = t[1])
  BY <1>2
<1>. HIDE DEF t
<1>4. CASE Len(s) = 1
  <2>1. t = <<>> /\ Len(t) = 0
    BY <1>1, <1>2, <1>3, <1>4
  <2>2. IsScript(t)
    BY <1>2, <2>1 DEF IsScript, IsChain
  <2>. QED BY <1>1, <1>4, <2>1, <2>2 DEF t
<1>5. CASE Len(s) # 1
  <2>1. t # <<>> /\ t[1] = s[2] /\ <<s[1], s[2]>> \in Follows
    BY <1>1, <1>2, <1>3, <1>5
  <2>2. ASSUME NEW i \in 1 .. Len(t) - 1 PROVE <<t[i], t[i + 1]>> \in Follows
    <3>1. /\ i + 1 \in 1 .. Len(s) - 1 /\ i \in 1 .. Len(s) - 1
          /\ t[i] = s[i + 1] /\ t[i + 1] = s[(i + 1) + 1]
      BY <1>1, <1>2
    <3>. QED BY <1>1, <3>1
  <2>3. t[Len(t)] = s[Len(s)]
    BY <1>1, <1>2, <1>5
  <2>4. IsScript(t)
    BY <1>1, <1>2, <2>2, <2>3 DEF IsScript, IsChain
  <2>. QED BY <1>1, <1>3, <1>5, <2>1, <2>4 DEF t
<1>. QED BY <1>4, <1>5

LEMMA ChainConcat ==
    ASSUME NEW s, NEW t, IsChain(s), IsChain(t), s # <<>>, t # <<>>,
           <<s[Len(s)], t[1]>> \in Follows
    PROVE  /\ IsChain(s \o t) /\ s \o t # <<>> /\ (s \o t)[1] = s[1] /\ Len(s \o t) > 1
           /\ (s \o t)[2] = IF Len(s) = 1 THEN t[1] ELSE s[2]
           /\ (s \o t)[Len(s \o t)] = t[Len(t)]
<1>. DEFINE u == s \o t
<1>1. /\ s \in Seq(Step) /\ t \in Seq(Step)
      /\ Len(s) \in Nat /\ Len(t) \in Nat /\ Len(s) > 0 /\ Len(t) > 0
  BY DEF IsChain
<1>2. /\ u \in Seq(Step) /\ Len(u) = Len(s) + Len(t)
      /\ \A i \in 1 .. Len(s) + Len(t) : u[i] = IF i <= Len(s) THEN s[i] ELSE t[i - Len(s)]
  BY <1>1, ConcatProperties
<1>3. u # <<>>
  BY <1>1, <1>2, EmptySeq
<1>. HIDE DEF u
<1>4. ASSUME NEW i \in 1 .. Len(u) - 1 PROVE <<u[i], u[i + 1]>> \in Follows
  <2>1. CASE i < Len(s)
    <3>1. i \in 1 .. Len(s) - 1 /\ u[i] = s[i] /\ u[i + 1] = s[i + 1]
      BY <1>1, <1>2, <2>1
    <3>. QED BY <3>1 DEF IsChain
  <2>2. CASE i = Len(s)
    <3>1. u[i] = s[Len(s)] /\ u[i + 1] = t[1]
      BY <1>1, <1>2, <2>2
    <3>. QED BY <3>1
  <2>3. CASE i > Len(s)
    <3>1. /\ i - Len(s) \in 1 .. Len(t) - 1
          /\ u[i] = t[i - Len(s)] /\ u[i + 1] = t[(i - Len(s)) + 1]
      BY <1>1, <1>2, <2>3
    <3>. QED BY <3>1 DEF IsChain
  <2>. QED BY <1>1, <1>2, <2>1, <2>2, <2>3
<1>5. u[1] = s[1] /\ u[2] = (IF Len(s) = 1 THEN t[1] ELSE s[2]) /\ u[Len(u)] = t[Len(t)] /\ Len(u) > 1
  <2>1. /\ Len(u) > 1 /\ 1 \in 1 .. Len(s) + Len(t) /\ 2 \in 1 .. Len(s) + Len(t)
        /\ Len(u) \in 1 .. Len(s) + Len(t)
    BY <1>1, <1>2
  <2>2. u[1] = s[1] /\ u[2] = IF 2 <= Len(s) THEN s[2] ELSE t[2 - Len(s)]
    BY <1>1, <1>2, <2>1
  <2>3. u[Len(u)] = t[Len(u) - Len(s)] /\ Len(u) - Len(s) = Len(t)
    <3>1. Len(u) = Len(s) + Len(t) /\ ~(Len(u) <= Len(s))
      BY <1>1, <1>2
    <3>. QED BY <1>1, <1>2, <2>1, <3>1
  <2>4. Len(s) # 1 => 2 <= Len(s)
    <3>1. Len(s) \in Nat /\ Len(s) > 0
      BY <1>1
    <3>2. \A n \in Nat : n > 0 /\ n # 1 => 2 <= n
      OBVIOUS
    <3>. QED BY <3>1, <3>2, Zenon
  <2>5. Len(s) = 1 => u[2] = t[1]
    BY <2>2
  <2>. QED BY <2>1, <2>2, <2>3, <2>4, <2>5
<1>. QED BY <1>2, <1>3, <1>4, <1>5 DEF IsChain, u

(* A call starts with a script, whatever the modes are.                    *)
Begins(s) ==
    /\ IsScript(s) /\ s # <<>>
    /\ s[1] \in {"work", "sync", "signal", "wait", "flush", "drain"}
    /\ s[1] \in {"wait", "drain"} => Len(s) = 1 \/ s[2] \in {"lock", "signal"}

LEMMA Chain1 == ASSUME NEW x \in Step PROVE IsChain(<<x>>)
  BY DEF IsChain
LEMMA Chain2 == ASSUME NEW x \in Step, NEW y \in Step, <<x, y>> \in Follows PROVE IsChain(<<x, y>>)
  BY DEF IsChain
LEMMA Chain3 ==
    ASSUME NEW x \in Step, NEW y \in Step, NEW z \in Step, <<x, y>> \in Follows, <<y, z>> \in Follows
    PROVE  IsChain(<<x, y, z>>)
  BY DEF IsChain
LEMMA Chain4 ==
    ASSUME NEW x \in Step, NEW y \in Step, NEW z \in Step, NEW w \in Step,
           <<x, y>> \in Follows, <<y, z>> \in Follows, <<z, w>> \in Follows
    PROVE  IsChain(<<x, y, z, w>>)
<1>. DEFINE s == <<x, y, z, w>>
<1>1. Len(s) = 4 /\ s[1] = x /\ s[2] = y /\ s[3] = z /\ s[4] = w /\ s \in Seq(Step)
  OBVIOUS
<1>. HIDE DEF s
<1>2. \A i \in 1 .. Len(s) - 1 : i \in {1, 2, 3}
  BY <1>1
<1>3. IsChain(s)
  BY <1>1, <1>2 DEF IsChain
<1>. QED BY <1>3 DEF s

LEMMA Pieces ==
    /\ IsChain(<<"work">>)
    /\ IsChain(<<"signal">>)
    /\ IsChain(<<"wait">>)
    /\ IsChain(<<"flush">>)
    /\ IsChain(<<"drain">>)
    /\ IsChain(<<"sync", "close">>)
    /\ IsChain(<<"signal", "wait", "open">>)
    /\ IsChain(<<"signal", "wait", "snapshot">>)
    /\ IsChain(<<"flush", "signal", "wait">>)
    /\ IsChain(<<"flush", "drain", "frame">>)
    /\ IsChain(<<"lock", "render", "unlock", "scan">>)
    /\ IsChain(<<"stop", "exit", "join", "gone">>)
<1>1. IsChain(<<"work">>)
  <2>1. {"work"} \subseteq Step
    BY DEF Step, Follows
  <2>. QED BY <2>1, Chain1
<1>2. IsChain(<<"signal">>)
  <2>1. {"signal"} \subseteq Step
    BY DEF Step, Follows
  <2>. QED BY <2>1, Chain1
<1>3. IsChain(<<"wait">>)
  <2>1. {"wait"} \subseteq Step
    BY DEF Step, Follows
  <2>. QED BY <2>1, Chain1
<1>4. IsChain(<<"flush">>)
  <2>1. {"flush"} \subseteq Step
    BY DEF Step, Follows
  <2>. QED BY <2>1, Chain1
<1>5. IsChain(<<"drain">>)
  <2>1. {"drain"} \subseteq Step
    BY DEF Step, Follows
  <2>. QED BY <2>1, Chain1
<1>6. IsChain(<<"sync", "close">>)
  <2>1. {"sync", "close"} \subseteq Step /\ <<"sync", "close">> \in Follows
    BY DEF Step, Follows
  <2>. QED BY <2>1, Chain2
<1>7. IsChain(<<"signal", "wait", "open">>)
  <2>1. {"signal", "wait", "open"} \subseteq Step /\ <<"signal", "wait">> \in Follows /\ <<"wait", "open">> \in Follows
    BY DEF Step, Follows
  <2>. QED BY <2>1, Chain3
<1>8. IsChain(<<"signal", "wait", "snapshot">>)
  <2>1. {"signal", "wait", "snapshot"} \subseteq Step /\ <<"signal", "wait">> \in Follows /\ <<"wait", "snapshot">> \in Follows
    BY DEF Step, Follows
  <2>. QED BY <2>1, Chain3
<1>9. IsChain(<<"flush", "signal", "wait">>)
  <2>1. {"flush", "signal", "wait"} \subseteq Step /\ <<"flush", "signal">> \in Follows /\ <<"signal", "wait">> \in Follows
    BY DEF Step, Follows
  <2>. QED BY <2>1, Chain3
<1>10. IsChain(<<"flush", "drain", "frame">>)
  <2>1. {"flush", "drain", "frame"} \subseteq Step /\ <<"flush", "drain">> \in Follows /\ <<"drain", "frame">> \in Follows
    BY DEF Step, Follows
  <2>. QED BY <2>1, Chain3
<1>11. IsChain(<<"lock", "render", "unlock", "scan">>)
  <2>1. {"lock", "render", "unlock", "scan"} \subseteq Step /\ <<"lock", "render">> \in Follows /\ <<"render", "unlock">> \in Follows /\ <<"unlock", "scan">> \in Follows
    BY DEF Step, Follows
  <2>. QED BY <2>1, Chain4
<1>12. IsChain(<<"stop", "exit", "join", "gone">>)
  <2>1. {"stop", "exit", "join", "gone"} \subseteq Step /\ <<"stop", "exit">> \in Follows /\ <<"exit", "join">> \in Follows /\ <<"join", "gone">> \in Follows
    BY DEF Step, Follows
  <2>. QED BY <2>1, Chain4
<1>. QED BY <1>1, <1>2, <1>3, <1>4, <1>5, <1>6, <1>7, <1>8, <1>9, <1>10, <1>11, <1>12

LEMMA EnqueueBegins == Begins(EnqueueSteps("work")) /\ Begins(EnqueueSteps("sync"))
<1>. DEFINE dump == <<"signal", "wait", "open">>
<1>1. IsChain(dump) /\ IsChain(<<"work">>) /\ IsChain(<<"sync", "close">>)
  BY Pieces
<1>2. Begins(<<"work">>) /\ Begins(<<"sync", "close">>)
  BY <1>1 DEF Begins, IsScript, Last
<1>3. Begins(dump \o <<"work">>) /\ Begins(dump \o <<"sync", "close">>)
  <2>1. /\ dump # <<>> /\ Len(dump) = 3 /\ dump[3] = "open" /\ dump[1] = "signal"
        /\ <<"open", "work">> \in Follows /\ <<"open", "sync">> \in Follows
    BY DEF Follows
  <2>2. ASSUME NEW t \in {<<"work">>, <<"sync", "close">>} PROVE Begins(dump \o t)
    <3>1. IsChain(t) /\ t # <<>> /\ <<"open", t[1]>> \in Follows /\ t[Len(t)] \in Last
      BY <1>1, <2>1 DEF Last
    <3>. HIDE DEF dump
    <3>2. /\ IsChain(dump \o t) /\ dump \o t # <<>> /\ (dump \o t)[1] = "signal"
          /\ (dump \o t)[Len(dump \o t)] \in Last
      BY <1>1, <2>1, <3>1, ChainConcat
    <3>. QED BY <3>2 DEF Begins, IsScript
  <2>. QED BY <2>2
<1>4. \A x \in {<<"work">>, <<"sync", "close">>} : <<>> \o x = x
  BY <1>1, ConcatEmptySeq DEF IsChain
<1>. QED BY <1>2, <1>3, <1>4 DEF EnqueueSteps, DumpSteps

LEMMA ScanoutBegins == Begins(ScanoutSteps)
<1>. DEFINE dump == <<"signal", "wait", "snapshot">>
            lock == <<"lock", "render", "unlock", "scan">>
<1>1. IsChain(<<"drain">>) /\ IsChain(dump) /\ IsChain(lock)
  BY Pieces
<1>3. lock # <<>> /\ lock[1] = "lock" /\ lock[Len(lock)] = "scan"
  OBVIOUS
<1>. HIDE DEF lock
<1>4. CASE dumping
  <2>. DEFINE d == <<"drain">> \o dump
  <2>1. IsChain(d) /\ d # <<>> /\ d[1] = "drain" /\ d[2] = "signal" /\ d[Len(d)] = "snapshot" /\ Len(d) > 1
    <3>1. <<"drain">>[Len(<<"drain">>)] = "drain" /\ dump[1] = "signal" /\ <<"drain", "signal">> \in Follows
          /\ dump[Len(dump)] = "snapshot" /\ Len(<<"drain">>) = 1
      BY DEF Follows
    <3>. QED BY <1>1, <3>1, ChainConcat
  <2>. HIDE DEF d
  <2>2. <<"snapshot", "lock">> \in Follows
    BY DEF Follows
  <2>3. /\ IsChain(d \o lock) /\ d \o lock # <<>> /\ (d \o lock)[1] = "drain" /\ (d \o lock)[2] = "signal"
        /\ (d \o lock)[Len(d \o lock)] = "scan"
    BY <1>1, <1>3, <2>1, <2>2, ChainConcat
  <2>4. ScanoutSteps = d \o lock
    BY <1>4 DEF ScanoutSteps, DumpSteps, d, lock
  <2>. QED BY <2>3, <2>4 DEF Begins, IsScript, Last
<1>5. CASE ~dumping
  <2>1. <<"drain">> \o <<>> = <<"drain">>
    BY <1>1, ConcatEmptySeq DEF IsChain
  <2>2. <<"drain">> # <<>> /\ <<"drain">>[1] = "drain" /\ Len(<<"drain">>) = 1 /\ <<"drain", "lock">> \in Follows
    BY DEF Follows
  <2>. DEFINE d == <<"drain">>
  <2>3. d # <<>> /\ IsChain(d) /\ Len(d) = 1 /\ d[1] = "drain"
    BY <1>1, <2>2
  <2>. HIDE DEF d
  <2>4. /\ IsChain(d \o lock) /\ d \o lock # <<>> /\ (d \o lock)[1] = "drain" /\ (d \o lock)[2] = "lock"
        /\ (d \o lock)[Len(d \o lock)] = "scan"
    BY <1>1, <1>3, <2>2, <2>3, ChainConcat
  <2>5. ScanoutSteps = d \o lock
    BY <1>5, <2>1 DEF ScanoutSteps, DumpSteps, d, lock
  <2>. QED BY <2>4, <2>5 DEF Begins, IsScript, Last
<1>. QED BY <1>4, <1>5

LEMMA DestroyBegins == Begins(IdleSteps) /\ Begins(FrameSteps) /\ Begins(DestroySteps)
<1>1. IsChain(IdleSteps) /\ IsChain(FrameSteps)
  BY Pieces DEF IdleSteps, FrameSteps
<1>2. /\ IdleSteps # <<>> /\ Len(IdleSteps) = 3 /\ IdleSteps[1] = "flush" /\ IdleSteps[3] = "wait"
      /\ FrameSteps # <<>> /\ Len(FrameSteps) = 3 /\ FrameSteps[1] = "flush" /\ FrameSteps[3] = "frame"
  BY DEF IdleSteps, FrameSteps
<1>. DEFINE rest == <<"stop", "exit", "join", "gone">>
<1>5. IsChain(rest) /\ rest # <<>> /\ rest[1] = "stop" /\ rest[Len(rest)] = "gone"
  BY Pieces
<1>. HIDE DEF rest
<1>6. <<"wait", "stop">> \in Follows /\ IdleSteps[Len(IdleSteps)] = "wait"
  BY <1>2 DEF Follows
<1>7. /\ IsChain(IdleSteps \o rest) /\ IdleSteps \o rest # <<>> /\ (IdleSteps \o rest)[1] = "flush"
      /\ (IdleSteps \o rest)[Len(IdleSteps \o rest)] = "gone"
  BY <1>1, <1>2, <1>5, <1>6, ChainConcat
<1>8. DestroySteps = IdleSteps \o rest
  BY DEF DestroySteps, rest
<1>. QED BY <1>1, <1>2, <1>7, <1>8 DEF Begins, IsScript, Last

LEMMA CallBegins == ASSUME Call PROVE Begins(todo')
<1>1. Begins(<<"signal">>) /\ Begins(<<"wait">>) /\ Begins(<<"flush">>)
  BY Pieces DEF Begins, IsScript, Last
<1>. QED BY <1>1, EnqueueBegins, ScanoutBegins, DestroyBegins DEF Call
-----------------------------------------------------------------------------
(* The invariant.                                                          *)

Op == [fence : Nat, value : Nat]
TypeOK ==
    /\ threaded \in BOOLEAN /\ dumping \in BOOLEAN /\ in_list \in BOOLEAN
    /\ todo \in Seq(Step) /\ index \in Nat /\ timeline_value \in Nat
    /\ queue \in Seq(Command) /\ running \in Command
    /\ rpc \in {"off", "poll", "run", "idle", "kick", "exited"}
    /\ idle_lock \in {"free", "caller", "ring"}
    /\ executed \in Nat /\ submitted \in Nat /\ submissions \in Seq(Nat) /\ gpu_done \in Nat
    /\ ops \in Seq(Op) /\ ops_done \in 0 .. Len(ops)
    /\ thread_timeline_value \in Nat /\ worker_alive \in BOOLEAN
    /\ enqueued \in Nat /\ covers \in Seq(Nat) /\ Len(covers) = timeline_value /\ calls \in Nat

Scripted == IsScript(todo)

\* Nothing is on its way to the renderer.
Quiet == queue = <<>> /\ rpc # "run"

Units(cmd) == IF cmd.op = "work" THEN 1 ELSE 0
InHand == IF rpc = "run" THEN Units(running) ELSE 0

\* f[i] units were enqueued before queue[i]; a signal covers those.
Tally(f) ==
    /\ f \in [1 .. Len(queue) + 1 -> Nat]
    /\ f[1] = executed + InHand
    /\ f[Len(queue) + 1] = enqueued
    /\ \A i \in 1 .. Len(queue) :
        /\ f[i + 1] = f[i] + Units(queue[i])
        /\ queue[i].op = "signal" => f[i] = covers[queue[i].value]
Ledger ==
    /\ \E f : Tally(f)
    /\ submitted <= executed
    /\ rpc = "run" /\ running.op = "signal" => executed = covers[running.value]

\* The values of the signals on their way increase, after those of the worker.
Pending(v) ==
    /\ v \in 1 .. timeline_value /\ v > thread_timeline_value
    /\ \A j \in 1 .. Len(ops) : ops[j].value < v
Ordered ==
    /\ \A i \in 1 .. Len(queue) : queue[i].op = "signal" =>
        /\ Pending(queue[i].value)
        /\ \A j \in 1 .. i - 1 : queue[j].op = "signal" => queue[j].value < queue[i].value
        /\ rpc = "run" /\ running.op = "signal" => running.value < queue[i].value
    /\ rpc = "run" /\ running.op = "signal" => Pending(running.value)

\* What the caller waits for is the last thing it posted.
LastIs(cmd) ==
    /\ queue # <<>> => queue[Len(queue)] = cmd
    /\ queue = <<>> /\ rpc = "run" => running = cmd
    /\ Quiet => submitted = enqueued
Waiting ==
    /\ Doing("wait") /\ Len(todo) > 1 =>
        /\ timeline_value > 0 /\ index = timeline_value
        /\ covers[timeline_value] = enqueued
        /\ LastIs(MetaSignal(timeline_value))
    /\ Doing("drain") /\ Len(todo) > 1 /\ todo[2] = "frame" => LastIs(MetaFlush)

\* The ring, for every place of the caller.
Plain == {"work", "flush", "signal"}
Alone ==
    /\ At({"open", "snapshot", "lock", "render", "unlock", "scan", "frame", "stop", "exit"}) => Quiet
    /\ At({"join", "gone"}) => rpc # "run" /\ (queue = <<>> \/ queue = <<Sentinel>>)
    /\ rpc = "exited" => At({"join", "gone"}) /\ queue = <<>>
    /\ \A i \in 1 .. Len(queue) : queue[i].op \in Plain \/ At({"join", "gone"})
    /\ rpc = "run" => running.op \in Plain
    /\ rpc = "off" <=> ~threaded
    /\ ~threaded => queue = <<>>

Locked ==
    /\ idle_lock = "caller" <=> At({"render", "unlock"})
    /\ rpc = "kick" <=> idle_lock = "ring"

\* A fence before the i-th operation covers n units.
Before(i, n) ==
    n = 0 \/ \E j \in 1 .. i - 1 : ops[j].fence # 0 /\ submissions[ops[j].fence] >= n
Fresh == Before(Len(ops) + 1, submitted)
Fenced ==
    /\ Fresh
    /\ \A i \in 1 .. Len(ops) : ops[i].fence <= Len(submissions)
    /\ \A i \in 1 .. Len(ops) : ops[i].value # 0 =>
        ops[i].value <= timeline_value /\ Before(i, covers[ops[i].value])

Covered ==
    /\ \A u, v \in 1 .. timeline_value : u <= v => covers[u] <= covers[v]
    /\ \A v \in 1 .. timeline_value : covers[v] <= enqueued
    /\ thread_timeline_value <= timeline_value
    /\ thread_timeline_value # 0 => Seen(covers[thread_timeline_value])

Current ==
    /\ At({"open", "snapshot"}) => Seen(enqueued)
    /\ At({"unlock", "scan", "frame", "stop", "exit", "join", "gone"}) => submitted = enqueued
    /\ At({"join", "gone"}) => executed = enqueued
    /\ ~worker_alive => At({"exit", "join", "gone"})

IInv == /\ TypeOK /\ Scripted /\ Ledger /\ Ordered /\ Waiting
        /\ Alone /\ Locked /\ Fenced /\ Covered /\ Current

USE DEF config, caller, ring, renderer, worker, history

-----------------------------------------------------------------------------
(* What executing a command does: operations are added to those of the     *)
(* worker, a signal only behind a fence that covers all that is submitted. *)

Grown(v) ==
    /\ ops' \in Seq(Op) /\ Len(ops) <= Len(ops')
    /\ \A i \in 1 .. Len(ops) : ops'[i] = ops[i]
    /\ submissions' \in Seq(Nat) /\ Len(submissions) <= Len(submissions')
    /\ \A i \in 1 .. Len(submissions) : submissions'[i] = submissions[i]
    /\ \A i \in Len(ops) + 1 .. Len(ops') :
        /\ ops'[i].fence <= Len(submissions')
        /\ ops'[i].value \in {0, v}
        /\ ops'[i].value # 0 => Before(i, submitted)'

LEMMA NothingGrows ==
    ASSUME TypeOK, UNCHANGED <<ops, submissions, submitted>>
    PROVE  Grown(0) /\ (Fresh => Fresh')
<1>1. Grown(0)
  BY DEF TypeOK, Grown
<1>2. Fresh => Fresh'
  BY DEF Fresh, Before
<1>. QED BY <1>1, <1>2

LEMMA SubmitGrows ==
    ASSUME TypeOK, Fenced, NEW units \in Nat, submitted <= units,
           NEW v \in Nat, NEW following, (following = <<>> /\ v = 0) \/ following = SignalOps(v),
           Submit(units, following)
    PROVE  Grown(v) /\ Fresh' /\ submitted' = units
<1>. DEFINE n == Len(ops)
            m == Len(submissions)
            fence == [fence |-> m + 1, value |-> 0]
<1>1. /\ ops \in Seq(Op) /\ submissions \in Seq(Nat) /\ submitted \in Nat /\ n \in Nat /\ m \in Nat
      /\ \A i \in 1 .. n : ops[i].fence <= m /\ ops[i].fence \in Nat
      /\ Before(n + 1, submitted)
  <2>1. /\ ops \in Seq(Op) /\ submissions \in Seq(Nat) /\ submitted \in Nat /\ n \in Nat /\ m \in Nat
        /\ Before(n + 1, submitted)
    BY DEF TypeOK, Fenced, Fresh
  <2>2. ASSUME NEW i \in 1 .. n PROVE ops[i].fence <= m /\ ops[i].fence \in Nat
    <3>1. ops[i] \in Op
      BY <2>1
    <3>. QED BY <3>1 DEF Op, Fenced
  <2>. QED BY <2>1, <2>2
<1>2. /\ following \in Seq(Op) /\ Len(following) \in {0, 1}
      /\ Len(following) = 1 => following[1] = [fence |-> 0, value |-> v]
  <2>1. [fence |-> 0, value |-> v] \in Op
    BY DEF Op
  <2>2. CASE following = <<>>
    BY <2>2
  <2>3. CASE following = SignalOps(v)
    <3>. HIDE DEF Op
    <3>. QED BY <2>1, <2>3 DEF SignalOps
  <2>. QED BY <2>2, <2>3
<1>3. CASE units > submitted
  <2>1. /\ submitted' = units /\ submissions' = Append(submissions, units)
        /\ ops' = (ops \o <<fence>>) \o following
    BY <1>3 DEF Submit
  <2>2. /\ submissions' \in Seq(Nat) /\ Len(submissions') = m + 1 /\ submissions'[m + 1] = units
        /\ \A i \in 1 .. m : submissions'[i] = submissions[i]
    BY <1>1, <2>1
  <2>. DEFINE o == ops \o <<fence>>
  <2>3. /\ o \in Seq(Op) /\ Len(o) = n + 1 /\ o[n + 1] = fence
        /\ \A i \in 1 .. n : o[i] = ops[i]
    <3>1. <<fence>> \in Seq(Op) /\ Len(<<fence>>) = 1 /\ <<fence>>[1] = fence
      BY <1>1 DEF Op
    <3>. HIDE DEF fence, n
    <3>2. /\ o \in Seq(Op) /\ Len(o) = n + 1
          /\ \A i \in 1 .. n + 1 : o[i] = IF i <= n THEN ops[i] ELSE <<fence>>[i - n]
      BY <1>1, <3>1, ConcatProperties DEF n
    <3>. QED BY <1>1, <3>1, <3>2
  <2>. HIDE DEF o
  <2>4. /\ ops' \in Seq(Op) /\ Len(ops') = n + 1 + Len(following)
        /\ \A i \in 1 .. n + 1 : ops'[i] = o[i]
        /\ Len(following) = 1 => ops'[n + 2] = [fence |-> 0, value |-> v]
    <3>1. ops' = o \o following
      BY <2>1 DEF o
    <3>2. /\ ops' \in Seq(Op) /\ Len(ops') = n + 1 + Len(following)
          /\ \A i \in 1 .. n + 1 + Len(following) :
                ops'[i] = IF i <= n + 1 THEN o[i] ELSE following[i - (n + 1)]
      <4>1. o \in Seq(Op) /\ following \in Seq(Op) /\ Len(o) = n + 1
        BY <1>2, <2>3
      <4>. HIDE DEF fence, n
      <4>2. /\ ops' \in Seq(Op) /\ Len(ops') = Len(o) + Len(following)
            /\ \A i \in 1 .. Len(o) + Len(following) :
                  ops'[i] = IF i <= Len(o) THEN o[i] ELSE following[i - Len(o)]
        BY <3>1, <4>1, ConcatProperties
      <4>. QED BY <4>1, <4>2
    <3>. HIDE DEF n
    <3>3. \A i \in 1 .. n + 1 : ops'[i] = o[i]
      BY <1>1, <1>2, <3>2
    <3>4. Len(following) = 1 => ops'[n + 2] = following[1]
      BY <1>1, <1>2, <3>2
    <3>. QED BY <1>2, <3>2, <3>3, <3>4
  <2>5. ops'[n + 1] = fence /\ fence.fence = m + 1 /\ fence.value = 0
    BY <1>1, <2>3, <2>4
  <2>. HIDE DEF n, m, fence
  <2>6. \A i \in Nat : i > n + 1 => Before(i, submitted)'
    <3>1. ASSUME NEW i \in Nat, i > n + 1 PROVE Before(i, submitted)'
      <4>1. n + 1 \in 1 .. i - 1
        BY <1>1, <3>1
      <4>2. ops'[n + 1].fence = m + 1 /\ m + 1 # 0
        BY <1>1, <2>5
      <4>3. submissions'[m + 1] >= submitted'
        BY <1>1, <2>1, <2>2
      <4>. QED BY <4>1, <4>2, <4>3 DEF Before
    <3>. QED BY <3>1
  <2>7. Fresh'
    <3>1. Len(ops') + 1 \in Nat /\ Len(ops') + 1 > n + 1
      BY <1>1, <1>2, <2>4
    <3>. QED BY <2>6, <3>1 DEF Fresh
  <2>8. ASSUME NEW i \in n + 1 .. Len(ops')
        PROVE  /\ ops'[i].fence <= Len(submissions')
               /\ ops'[i].value \in {0, v}
               /\ ops'[i].value # 0 => Before(i, submitted)'
    <3>1. CASE i = n + 1
      BY <1>1, <2>2, <2>5, <3>1
    <3>2. CASE i # n + 1
      <4>1. i = n + 2 /\ Len(following) = 1 /\ i \in Nat /\ i > n + 1
        <5>1. n \in Nat /\ Len(following) \in {0, 1} /\ i \in n + 1 .. n + 1 + Len(following)
          BY <1>1, <1>2, <2>4
        <5>. QED BY <3>2, <5>1
      <4>2. ops'[i].fence = 0 /\ ops'[i].value = v
        BY <2>4, <4>1
      <4>. QED BY <1>1, <2>2, <2>6, <4>1, <4>2
    <3>. QED BY <3>1, <3>2
  <2>9. /\ Len(ops) <= Len(ops') /\ \A i \in 1 .. Len(ops) : ops'[i] = ops[i]
        /\ Len(submissions) <= Len(submissions')
    BY <1>1, <1>2, <2>2, <2>3, <2>4 DEF n, m
  <2>. QED BY <2>1, <2>2, <2>4, <2>7, <2>8, <2>9 DEF Grown, n, m
<1>4. CASE ~(units > submitted)
  <2>1. submitted' = submitted /\ units = submitted /\ submissions' = submissions /\ ops' = ops \o following
    BY <1>1, <1>4 DEF Submit
  <2>2. /\ ops' \in Seq(Op) /\ Len(ops') = n + Len(following)
        /\ \A i \in 1 .. n + Len(following) : ops'[i] = IF i <= n THEN ops[i] ELSE following[i - n]
    BY <1>1, <1>2, <2>1, ConcatProperties
  <2>. HIDE DEF n, m
  <2>3. \A i \in 1 .. n : ops'[i] = ops[i]
    BY <1>1, <1>2, <2>2
  <2>4. Len(following) = 1 => ops'[n + 1] = [fence |-> 0, value |-> v]
    <3>1. Len(following) = 1 => ops'[n + 1] = following[1]
      BY <1>1, <1>2, <2>2
    <3>. QED BY <1>2, <3>1
  <2>5. \A i \in Nat : i > n => Before(i, submitted)'
    <3>1. ASSUME NEW i \in Nat, i > n, submitted # 0 PROVE Before(i, submitted)'
      <4>1. PICK j \in 1 .. n : ops[j].fence # 0 /\ submissions[ops[j].fence] >= submitted
        BY <1>1, <3>1 DEF Before
      <4>2. j \in 1 .. i - 1 /\ ops'[j] = ops[j]
        BY <1>1, <2>3, <3>1
      <4>. QED BY <2>1, <4>1, <4>2 DEF Before
    <3>2. submitted = 0 => \A i \in Nat : Before(i, submitted)'
      BY <2>1 DEF Before
    <3>. QED BY <3>1, <3>2
  <2>6. Fresh'
    <3>1. Len(ops') + 1 \in Nat /\ Len(ops') + 1 > n
      BY <1>1, <1>2, <2>2
    <3>. QED BY <2>5, <3>1 DEF Fresh
  <2>7. ASSUME NEW i \in n + 1 .. Len(ops')
        PROVE  /\ ops'[i].fence <= Len(submissions')
               /\ ops'[i].value \in {0, v}
               /\ ops'[i].value # 0 => Before(i, submitted)'
    <3>1. i = n + 1 /\ Len(following) = 1 /\ i \in Nat /\ i > n
      <4>1. n \in Nat /\ Len(following) \in {0, 1} /\ i \in n + 1 .. n + Len(following)
        <5>1. n \in Nat /\ Len(following) \in {0, 1}
          BY <1>1, <1>2
        <5>2. Len(ops') = n + Len(following)
          BY <2>2
        <5>. QED BY <5>1, <5>2
      <4>2. \A a \in Nat, k \in {0, 1} : \A b \in a + 1 .. a + k : b = a + 1 /\ k = 1 /\ b \in Nat /\ b > a
        OBVIOUS
      <4>. QED BY <4>1, <4>2, Zenon
    <3>2. ops'[i].fence = 0 /\ ops'[i].value = v
      BY <2>4, <3>1
    <3>. QED BY <1>1, <2>1, <2>5, <3>1, <3>2 DEF m
  <2>8. /\ Len(ops) <= Len(ops') /\ \A i \in 1 .. Len(ops) : ops'[i] = ops[i]
        /\ Len(submissions) <= Len(submissions')
    BY <1>1, <1>2, <2>1, <2>2, <2>3 DEF n, m
  <2>. QED BY <1>1, <2>1, <2>2, <2>6, <2>7, <2>8 DEF Grown, n, m
<1>. QED BY <1>1, <1>3, <1>4

SignalOf(cmd) == IF cmd.op = "signal" THEN cmd.value ELSE 0

LEMMA ExecuteGrows ==
    ASSUME TypeOK, Fenced, submitted <= executed, NEW cmd \in Command, Execute(cmd)
    PROVE  /\ Grown(SignalOf(cmd)) /\ Fresh'
           /\ executed' = executed + Units(cmd)
           /\ submitted' \in Nat /\ submitted' <= executed'
           /\ cmd.op \in {"flush", "signal"} => submitted' = executed
           /\ cmd.op \in {"exit", "idle"} => UNCHANGED <<renderer, ops>>
<1>1. /\ executed \in Nat /\ executed + 1 \in Nat /\ submitted \in Nat /\ submitted <= executed + 1
      /\ cmd.op \in {"work", "flush", "signal", "exit", "idle"} /\ cmd.value \in Nat /\ Fresh
  BY DEF TypeOK, Command, Fenced
<1>2. ASSUME UNCHANGED <<submitted, submissions, ops>> PROVE Grown(0) /\ Fresh'
  BY <1>1, <1>2, NothingGrows
<1>3. CASE cmd.op = "work"
  <2>1. executed' = executed + 1 /\ Units(cmd) = 1 /\ SignalOf(cmd) = 0
    BY <1>3 DEF Execute, ExecuteWork, Units, SignalOf
  <2>2. CASE UNCHANGED <<submitted, submissions, ops>>
    BY <1>1, <1>2, <1>3, <2>1, <2>2
  <2>3. CASE Submit(executed + 1, <<>>)
    <3>1. Grown(0) /\ Fresh' /\ submitted' = executed + 1
      BY <1>1, <2>3, SubmitGrows
    <3>. QED BY <1>1, <1>3, <2>1, <3>1
  <2>. QED BY <1>3, <2>2, <2>3 DEF Execute, ExecuteWork
<1>4. CASE cmd.op = "flush"
  <2>1. executed' = executed /\ Submit(executed, <<>>) /\ Units(cmd) = 0 /\ SignalOf(cmd) = 0
    BY <1>4 DEF Execute, ExecuteFlush, Units, SignalOf
  <2>2. Grown(0) /\ Fresh' /\ submitted' = executed
    BY <1>1, <2>1, SubmitGrows
  <2>. QED BY <1>1, <1>4, <2>1, <2>2
<1>5. CASE cmd.op = "signal"
  <2>1. /\ executed' = executed /\ Submit(executed, SignalOps(cmd.value))
        /\ Units(cmd) = 0 /\ SignalOf(cmd) = cmd.value
    BY <1>5 DEF Execute, ExecuteSignal, Units, SignalOf
  <2>2. Grown(cmd.value) /\ Fresh' /\ submitted' = executed
    BY <1>1, <2>1, SubmitGrows
  <2>. QED BY <1>1, <1>5, <2>1, <2>2
<1>6. CASE cmd.op \in {"exit", "idle"}
  <2>1. UNCHANGED <<executed, submitted, submissions, ops>> /\ Units(cmd) = 0 /\ SignalOf(cmd) = 0
    BY <1>6 DEF Execute, Units, SignalOf
  <2>. QED BY <1>1, <1>2, <1>6, <2>1
<1>. QED BY <1>1, <1>3, <1>4, <1>5, <1>6

LEMMA BeforePersists ==
    ASSUME TypeOK, Fenced, NEW v, Grown(v), NEW i \in 1 .. Len(ops) + 1, NEW n, Before(i, n)
    PROVE  Before(i, n)'
<1>1. CASE n = 0
  BY <1>1 DEF Before
<1>2. CASE n # 0
  <2>1. PICK j \in 1 .. i - 1 : ops[j].fence # 0 /\ submissions[ops[j].fence] >= n
    BY <1>2 DEF Before
  <2>2. j \in 1 .. Len(ops)
    BY DEF TypeOK
  <2>3. ops'[j] = ops[j]
    BY <2>2 DEF Grown
  <2>4. ops[j].fence \in 1 .. Len(submissions)
    <3>1. ops[j] \in Op
      BY <2>2 DEF TypeOK
    <3>2. ops[j].fence <= Len(submissions)
      BY <2>2 DEF Fenced
    <3>. QED BY <2>1, <3>1, <3>2 DEF Op, TypeOK
  <2>5. submissions'[ops[j].fence] = submissions[ops[j].fence]
    BY <2>4 DEF Grown
  <2>. QED BY <2>1, <2>3, <2>5 DEF Before
<1>. QED BY <1>1, <1>2

LEMMA SeenPersists ==
    ASSUME TypeOK, Fenced, NEW v, Grown(v), ops_done' \in Nat, ops_done <= ops_done', NEW n, Seen(n)
    PROVE  /\ n = 0 \/ \E i \in 1 .. ops_done' : ops'[i].fence # 0 /\ submissions'[ops'[i].fence] >= n
           /\ Seen(n)'
<1>. DEFINE goal == n = 0 \/ \E i \in 1 .. ops_done' : ops'[i].fence # 0 /\ submissions'[ops'[i].fence] >= n
<1>1. ASSUME n # 0 PROVE goal
  <2>1. PICK i \in 1 .. ops_done : ops[i].fence # 0 /\ submissions[ops[i].fence] >= n
    BY <1>1 DEF Seen
  <2>2. i \in 1 .. Len(ops) /\ i \in 1 .. ops_done'
    BY DEF TypeOK
  <2>3. ops'[i] = ops[i]
    BY <2>2 DEF Grown
  <2>4. ops[i].fence \in 1 .. Len(submissions)
    <3>1. ops[i] \in Op
      BY <2>2 DEF TypeOK
    <3>2. ops[i].fence <= Len(submissions)
      BY <2>2 DEF Fenced
    <3>. QED BY <2>1, <3>1, <3>2 DEF Op, TypeOK
  <2>5. submissions'[ops[i].fence] = submissions[ops[i].fence]
    BY <2>4 DEF Grown
  <2>6. ops'[i].fence # 0 /\ submissions'[ops'[i].fence] >= n
    BY <2>1, <2>3, <2>5
  <2>. QED BY <2>2, <2>6
<1>2. goal
  BY <1>1
<1>. QED BY <1>2 DEF Seen

LEMMA FencesStay ==
    ASSUME TypeOK, Fenced, NEW v \in Nat, Grown(v), Fresh',
           timeline_value' \in Nat, timeline_value <= timeline_value',
           \A u \in 1 .. timeline_value : covers'[u] = covers[u],
           v # 0 => v <= timeline_value' /\ covers'[v] = submitted'
    PROVE  Fenced'
<1>1. ASSUME NEW i \in 1 .. Len(ops')
      PROVE  /\ ops'[i].fence <= Len(submissions')
             /\ ops'[i].value # 0 => ops'[i].value <= timeline_value' /\ Before(i, covers[ops[i].value])'
  <2>1. CASE i \in 1 .. Len(ops)
    <3>1. ops'[i] = ops[i] /\ ops[i].fence <= Len(submissions) /\ ops[i].fence \in Nat /\ ops[i].value \in Nat
      <4>1. ops[i] \in Op
        BY <2>1 DEF TypeOK
      <4>. QED BY <2>1, <4>1 DEF Grown, Fenced, Op
    <3>2. Len(submissions) \in Nat /\ Len(submissions') \in Nat /\ Len(submissions) <= Len(submissions')
      BY DEF TypeOK, Grown
    <3>3. ops[i].value # 0 => ops[i].value <= timeline_value /\ Before(i, covers[ops[i].value])
      BY <2>1 DEF Fenced
    <3>4. ops[i].value # 0 => covers'[ops'[i].value] = covers[ops[i].value]
      BY <3>1, <3>3 DEF TypeOK
    <3>5. ASSUME ops[i].value # 0 PROVE Before(i, covers[ops[i].value])'
      <4>. DEFINE n == covers[ops[i].value]
      <4>1. Before(i, n) /\ i \in 1 .. Len(ops) + 1
        BY <2>1, <3>3, <3>5 DEF TypeOK
      <4>2. \A x : x = n => (x = 0 \/ \E j \in 1 .. i - 1 : ops'[j].fence # 0 /\ submissions'[ops'[j].fence] >= x)
        <5>1. ASSUME NEW x, x = n PROVE Before(i, x)'
          BY <4>1, <5>1, BeforePersists
        <5>. QED BY <5>1 DEF Before
      <4>. QED BY <3>4, <3>5, <4>2 DEF Before
    <3>6. Len(submissions) <= Len(submissions') /\ timeline_value \in Nat
      BY <3>2 DEF TypeOK
    <3>. QED BY <3>1, <3>2, <3>3, <3>5, <3>6
  <2>2. CASE i \notin 1 .. Len(ops)
    <3>1. i \in Len(ops) + 1 .. Len(ops')
      BY <2>2 DEF TypeOK, Grown
    <3>2. ops'[i].fence <= Len(submissions') /\ ops'[i].value \in {0, v} /\ (ops'[i].value # 0 => Before(i, submitted)')
      BY <3>1 DEF Grown
    <3>. QED BY <3>2 DEF Before
  <2>. QED BY <2>1, <2>2
<1>. QED BY <1>1 DEF Fenced

-----------------------------------------------------------------------------
(* What every step does to the script, the renderer and the history.       *)

LEMMA ScriptStep ==
    ASSUME Scripted, [Next]_vars
    PROVE  /\ Scripted'
           /\ \/ Call \/ UNCHANGED todo
              \/ todo # <<>> /\ todo' = Tail(todo)
<1>1. Call \/ UNCHANGED todo \/ (todo # <<>> /\ todo' = Tail(todo))
  <2>1. CASE Progress \/ LockCommandProcessing
    BY <2>1 DEF Progress, PostWork, PostFlush, PostSignal, PostSentinel, WaitForTimeline, Drain,
                Snapshot, Render, UnlockCommandProcessing, UseDevice, StopWorker, JoinRing,
                LockCommandProcessing, Posted, Done, Doing
  <2>2. CASE RingStep \/ Perform \/ Complete
    BY <2>2 DEF RingStep, RingPop, RingRun, RingTimeout, IdleLock, IdleKick, Perform, Complete
  <2>. QED BY <2>1, <2>2 DEF Next, Terminated, vars
<1>2. Call => Scripted'
  BY CallBegins DEF Begins, Scripted
<1>3. UNCHANGED todo => Scripted'
  BY DEF Scripted
<1>4. todo # <<>> /\ todo' = Tail(todo) => Scripted'
  BY ScriptTail DEF Scripted
<1>. QED BY <1>1, <1>2, <1>3, <1>4

LEMMA Advances ==
    ASSUME Scripted, NEW x, Doing(x), todo' = Tail(todo)
    PROVE  /\ todo' # <<>> => <<x, Head(todo')>> \in Follows /\ Head(todo') = todo[2] /\ Len(todo) > 1
           /\ todo' = <<>> => x \in Last
  BY ScriptTail DEF Scripted, Doing

\* The renderer may be given a command.
Given(cmd) == Execute(cmd) \/ (SignalOf(cmd) = 0 /\ Units(cmd) = 0 /\ UNCHANGED <<renderer, ops>>)

LEMMA CommandTypes ==
    /\ {Work, SyncFull, MetaFlush, Sentinel, MetaIdle} \subseteq Command
    /\ \A v \in Nat : MetaSignal(v) \in Command
  BY DEF Work, SyncFull, MetaFlush, Sentinel, MetaIdle, MetaSignal, Command

LEMMA GivenEffect ==
    ASSUME TypeOK, Fenced, submitted <= executed, NEW cmd \in Command, Given(cmd)
    PROVE  /\ Grown(SignalOf(cmd)) /\ Fresh'
           /\ executed' = executed + Units(cmd) /\ executed' \in Nat
           /\ submitted' \in Nat /\ submitted' <= executed'
           /\ ops' \in Seq(Op) /\ submissions' \in Seq(Nat) /\ ops_done \in 0 .. Len(ops')
<1>1. executed \in Nat /\ submitted \in Nat /\ Units(cmd) \in Nat /\ Fresh
  BY DEF TypeOK, Units, Fenced
<1>2. /\ Grown(SignalOf(cmd)) /\ Fresh'
      /\ executed' = executed + Units(cmd)
      /\ submitted' \in Nat /\ submitted' <= executed'
  <2>1. CASE Execute(cmd)
    BY <2>1, ExecuteGrows
  <2>2. CASE ~Execute(cmd)
    <3>1. SignalOf(cmd) = 0 /\ Units(cmd) = 0 /\ UNCHANGED <<executed, submitted, submissions, ops>>
      BY <2>2 DEF Given
    <3>2. Grown(0) /\ Fresh'
      BY <1>1, <3>1, NothingGrows
    <3>. QED BY <1>1, <3>1, <3>2
  <2>. QED BY <2>1, <2>2
<1>3. ops' \in Seq(Op) /\ submissions' \in Seq(Nat) /\ Len(ops) <= Len(ops')
  BY <1>2 DEF Grown
<1>4. ops_done \in 0 .. Len(ops')
  BY <1>3 DEF TypeOK
<1>. QED BY <1>1, <1>2, <1>3, <1>4

\* Which command that is, and what makes its signal one that covers the work.
LEMMA StepGives ==
    ASSUME TypeOK, Ledger, Ordered, Fenced, Alone, Next
    PROVE  \E cmd \in Command :
              /\ Given(cmd)
              /\ cmd.op # "signal" \/ (cmd.value \in 1 .. timeline_value' /\ covers'[cmd.value] = executed)
<1>. DEFINE Fits(cmd) == cmd.op # "signal" \/ (cmd.value \in 1 .. timeline_value' /\ covers'[cmd.value] = executed)
<1>1. ASSUME UNCHANGED <<renderer, ops>> PROVE Given(MetaIdle) /\ Fits(MetaIdle)
  BY <1>1 DEF Given, SignalOf, Units, MetaIdle
<1>2. ASSUME ExecuteFlush PROVE Given(MetaFlush) /\ Fits(MetaFlush)
  BY <1>2 DEF Given, MetaFlush, Execute
<1>3. CASE PostWork
  <2>1. Post(Work) /\ Fits(Work)
    BY <1>3 DEF PostWork, Work
  <2>. QED BY <1>1, <2>1, CommandTypes DEF Post, Given
<1>4. CASE PostFlush
  <2>1. Post(MetaFlush) /\ Fits(MetaFlush)
    BY <1>4 DEF PostFlush, MetaFlush, SyncFull
  <2>. QED BY <1>1, <2>1, CommandTypes DEF Post, Given
<1>5. CASE PostSentinel
  <2>1. Post(Sentinel) /\ Fits(Sentinel)
    BY <1>5 DEF PostSentinel, Sentinel
  <2>. QED BY <1>1, <2>1, CommandTypes DEF Post, Given
<1>6. CASE PostSignal
  <2>. DEFINE cmd == MetaSignal(timeline_value')
  <2>1. timeline_value' = timeline_value + 1 /\ Post(cmd) /\ covers' = Append(covers, enqueued)
    BY <1>6 DEF PostSignal
  <2>2. timeline_value' \in Nat /\ timeline_value' \in 1 .. timeline_value' /\ covers'[timeline_value'] = enqueued
    BY <2>1 DEF TypeOK
  <2>3. cmd \in Command /\ cmd.op = "signal" /\ cmd.value = timeline_value'
    BY <2>2, CommandTypes DEF MetaSignal
  <2>4. CASE threaded
    BY <1>1, <2>1, <2>4, CommandTypes DEF Post
  <2>5. CASE ~threaded
    <3>1. Execute(cmd) /\ queue = <<>> /\ InHand = 0
      BY <2>1, <2>5 DEF Post, Alone, InHand
    <3>2. PICK f : Tally(f)
      BY DEF Ledger
    <3>3. Len(queue) + 1 = 1
      BY <3>1
    <3>4. executed = enqueued
      BY <3>1, <3>2, <3>3 DEF Tally, TypeOK
    <3>. QED BY <2>2, <2>3, <3>1, <3>4 DEF Given
  <2>. QED BY <2>4, <2>5
<1>7. CASE RingRun
  <2>1. Execute(running) /\ running \in Command /\ Fits(running)
    <3>1. /\ Execute(running) /\ rpc = "run" /\ UNCHANGED <<covers, timeline_value>>
          /\ running \in Command
      BY <1>7 DEF RingRun, TypeOK
    <3>2. running.op = "signal" => running.value \in 1 .. timeline_value /\ executed = covers[running.value]
      BY <3>1 DEF Ledger, Ordered, Pending
    <3>. QED BY <3>1, <3>2
  <2>. QED BY <2>1 DEF Given
<1>8. CASE Render
  BY <1>2, <1>8, CommandTypes DEF Render
<1>9. CASE IdleKick
  BY <1>1, <1>2, <1>9, CommandTypes DEF IdleKick
<1>10. CASE \/ Call \/ WaitForTimeline \/ Drain \/ Snapshot \/ UnlockCommandProcessing \/ UseDevice
            \/ StopWorker \/ JoinRing \/ LockCommandProcessing \/ RingPop \/ RingTimeout \/ IdleLock
            \/ Perform \/ Complete \/ Terminated
  <2>1. UNCHANGED <<renderer, ops>>
    BY <1>10 DEF Call, WaitForTimeline, Drain, Snapshot, UnlockCommandProcessing, UseDevice,
                 StopWorker, JoinRing, LockCommandProcessing, RingPop, RingTimeout, IdleLock,
                 Perform, Complete, Terminated, vars
  <2>. QED BY <1>1, <2>1, CommandTypes
<1>. QED BY <1>3, <1>4, <1>5, <1>6, <1>7, <1>8, <1>9, <1>10 DEF Next, Progress, RingStep

LEMMA HistoryStep ==
    ASSUME TypeOK, [Next]_vars
    PROVE  /\ timeline_value' \in Nat /\ timeline_value <= timeline_value'
           /\ covers' \in Seq(Nat) /\ Len(covers') = timeline_value'
           /\ \A v \in 1 .. timeline_value : covers'[v] = covers[v]
           /\ enqueued' \in Nat /\ enqueued <= enqueued'
<1>1. CASE PostSignal
  <2>1. timeline_value' = timeline_value + 1 /\ covers' = Append(covers, enqueued) /\ enqueued' = enqueued
    BY <1>1 DEF PostSignal
  <2>. QED BY <2>1 DEF TypeOK
<1>2. CASE PostWork
  <2>1. enqueued' = enqueued + 1 /\ UNCHANGED <<timeline_value, covers>>
    BY <1>2 DEF PostWork
  <2>. QED BY <2>1 DEF TypeOK
<1>3. CASE ~PostSignal /\ ~PostWork
  <2>1. UNCHANGED <<timeline_value, covers, enqueued>>
    <3>1. CASE Progress \/ LockCommandProcessing
      BY <1>3, <3>1 DEF Progress, PostFlush, PostSentinel, WaitForTimeline, Drain, Snapshot, Render,
         UnlockCommandProcessing, UseDevice, StopWorker, JoinRing, LockCommandProcessing, Done
    <3>2. CASE RingStep \/ Perform \/ Complete
      BY <3>2 DEF RingStep, RingPop, RingRun, RingTimeout, IdleLock, IdleKick, Perform, Complete
    <3>. QED BY <3>1, <3>2 DEF Next, Call, Terminated, vars
  <2>. QED BY <2>1 DEF TypeOK
<1>. QED BY <1>1, <1>2, <1>3

\* A command is posted, popped, or run; or the queue and what is in hand stay.
Posts(cmd) ==
    /\ Post(cmd) /\ Posted /\ enqueued' = enqueued + Units(cmd)
    /\ \/ /\ \/ Doing("work") /\ cmd = Work
             \/ (Doing("sync") \/ Doing("flush")) /\ cmd = MetaFlush
             \/ Doing("exit") /\ cmd = Sentinel
          /\ UNCHANGED <<timeline_value, index, covers>>
       \/ /\ Doing("signal") /\ cmd = MetaSignal(timeline_value')
          /\ timeline_value' = timeline_value + 1 /\ index' = timeline_value'
          /\ covers' = Append(covers, enqueued)
Elsewhere ==
    /\ UNCHANGED <<threaded, queue, enqueued, covers, timeline_value, executed>>
    /\ rpc' = "run" <=> rpc = "run"
    /\ rpc = "run" => running' = running
    /\ UNCHANGED <<submitted, submissions, ops>> \/ ExecuteFlush
    /\ \/ UNCHANGED thread_timeline_value
       \/ \E j \in 1 .. Len(ops) : thread_timeline_value' = ops[j].value

LEMMA PostsAre ==
    ASSUME TypeOK, PostWork \/ PostFlush \/ PostSignal \/ PostSentinel
    PROVE  \E cmd \in Command : Posts(cmd)
<1>1. CASE PostWork
  <2>1. Posts(Work)
    BY <1>1 DEF PostWork, Posts, Units, Work
  <2>. QED BY <2>1, CommandTypes
<1>2. CASE PostFlush
  <2>1. MetaFlush = SyncFull /\ MetaFlush.op # "work" /\ enqueued + 0 = enqueued
    BY DEF MetaFlush, SyncFull, TypeOK
  <2>2. Posts(MetaFlush)
    BY <1>2, <2>1 DEF PostFlush, Posts, Units
  <2>. QED BY <2>2, CommandTypes
<1>3. CASE PostSignal
  <2>1. /\ MetaSignal(timeline_value').op # "work" /\ enqueued + 0 = enqueued
        /\ timeline_value' \in Nat
    BY <1>3 DEF MetaSignal, TypeOK, PostSignal
  <2>2. Posts(MetaSignal(timeline_value'))
    BY <1>3, <2>1 DEF PostSignal, Posts, Units
  <2>. QED BY <2>1, <2>2, CommandTypes
<1>4. CASE PostSentinel
  <2>1. Sentinel.op # "work" /\ enqueued + 0 = enqueued
    BY DEF Sentinel, TypeOK
  <2>2. Posts(Sentinel)
    BY <1>4, <2>1 DEF PostSentinel, Posts, Units
  <2>. QED BY <2>2, CommandTypes
<1>. QED BY <1>1, <1>2, <1>3, <1>4

LEMMA MoveStep ==
    ASSUME TypeOK, [Next]_vars
    PROVE  \/ \E cmd \in Command : Posts(cmd)
           \/ RingPop \/ RingRun \/ Elsewhere
<1>. USE DEF Elsewhere
<1>1. CASE PostWork \/ PostFlush \/ PostSignal \/ PostSentinel
  BY <1>1, PostsAre
<1>2. CASE WaitForTimeline \/ Drain \/ Snapshot \/ UnlockCommandProcessing \/ UseDevice \/ StopWorker
           \/ JoinRing \/ LockCommandProcessing
  BY <1>2 DEF WaitForTimeline, Drain, Snapshot, UnlockCommandProcessing, UseDevice, StopWorker,
     JoinRing, LockCommandProcessing, Done
<1>3. CASE Render
  BY <1>3 DEF Render, ExecuteFlush, Done
<1>4. CASE RingTimeout \/ IdleLock
  BY <1>4 DEF RingTimeout, IdleLock
<1>5. CASE IdleKick
  BY <1>5 DEF IdleKick, ExecuteFlush
<1>6. CASE Perform
  <2>1. ops_done + 1 \in 1 .. Len(ops)
    BY <1>6 DEF Perform, TypeOK
  <2>2. \/ UNCHANGED thread_timeline_value
        \/ thread_timeline_value' = ops[ops_done + 1].value
    BY <1>6 DEF Perform
  <2>3. \/ UNCHANGED thread_timeline_value
        \/ \E j \in 1 .. Len(ops) : thread_timeline_value' = ops[j].value
    BY <2>1, <2>2
  <2>4. UNCHANGED <<threaded, queue, enqueued, covers, timeline_value, executed, rpc, running,
                    submitted, submissions, ops>>
    BY <1>6 DEF Perform
  <2>. QED BY <2>3, <2>4
<1>7. CASE Call \/ Complete \/ Terminated \/ UNCHANGED vars
  BY <1>7 DEF Call, Complete, Terminated, vars
<1>. QED BY <1>1, <1>2, <1>3, <1>4, <1>5, <1>6, <1>7 DEF Next, Progress, RingStep

LEMMA TypeStep ==
    ASSUME TypeOK, Scripted, Ledger, Ordered, Fenced, Alone, Next
    PROVE  TypeOK'
<1>1. /\ executed' \in Nat /\ submitted' \in Nat /\ submissions' \in Seq(Nat) /\ ops' \in Seq(Op)
      /\ ops_done \in 0 .. Len(ops')
  <2>1. PICK cmd \in Command : Given(cmd)
    BY StepGives
  <2>. QED BY <2>1, GivenEffect DEF Ledger
<1>2. todo' \in Seq(Step)
  BY ScriptStep DEF Scripted, IsScript, IsChain
<1>3. queue' \in Seq(Command)
  <2>1. ASSUME NEW cmd \in Command, Posts(cmd) PROVE queue' \in Seq(Command)
    <3>1. queue' = Append(queue, cmd) \/ queue' = queue
      BY <2>1 DEF Posts, Post
    <3>2. queue \in Seq(Command)
      BY DEF TypeOK
    <3>. QED BY <3>1, <3>2
  <2>2. RingPop => queue' \in Seq(Command)
    BY DEF RingPop, TypeOK
  <2>3. RingRun \/ Elsewhere => queue' \in Seq(Command)
    BY DEF RingRun, Elsewhere, TypeOK
  <2>. QED BY <2>1, <2>2, <2>3, MoveStep
<1>4. /\ timeline_value' \in Nat /\ enqueued' \in Nat
      /\ covers' \in Seq(Nat) /\ Len(covers') = timeline_value'
  BY HistoryStep
<1>5. CASE Call
  BY <1>1, <1>2, <1>3, <1>4, <1>5 DEF Call, TypeOK
<1>6. CASE Progress
  <2>1. CASE PostWork \/ PostFlush \/ PostSignal \/ PostSentinel
    <3>1. index' \in Nat
      BY <1>4, <2>1 DEF PostWork, PostFlush, PostSignal, PostSentinel, TypeOK
    <3>2. UNCHANGED <<threaded, dumping, in_list, rpc, running, idle_lock, gpu_done, ops_done,
                      thread_timeline_value, worker_alive, calls>>
      BY <2>1 DEF PostWork, PostFlush, PostSignal, PostSentinel, Posted
    <3>. QED BY <1>1, <1>2, <1>3, <1>4, <3>1, <3>2 DEF TypeOK
  <2>2. CASE ~(PostWork \/ PostFlush \/ PostSignal \/ PostSentinel)
    <3>1. UNCHANGED <<threaded, dumping, index, rpc, running, gpu_done, ops_done,
                      thread_timeline_value, calls>>
      BY <1>6, <2>2 DEF Progress, WaitForTimeline, Drain, Snapshot, Render,
         UnlockCommandProcessing, UseDevice, StopWorker, JoinRing, Done
    <3>2. in_list' \in BOOLEAN /\ idle_lock' \in {"free", "caller", "ring"} /\ worker_alive' \in BOOLEAN
      BY <1>6, <2>2 DEF Progress, WaitForTimeline, Drain, Snapshot, Render,
         UnlockCommandProcessing, UseDevice, StopWorker, JoinRing, TypeOK
    <3>. QED BY <1>1, <1>2, <1>3, <1>4, <3>1, <3>2 DEF TypeOK
  <2>. QED BY <2>1, <2>2
<1>7. CASE LockCommandProcessing
  BY <1>1, <1>2, <1>3, <1>4, <1>7 DEF LockCommandProcessing, Done, TypeOK
<1>8. CASE RingStep
  <2>1. UNCHANGED <<threaded, dumping, in_list, index, gpu_done, ops_done,
                    thread_timeline_value, worker_alive, calls>>
    BY <1>8 DEF RingStep, RingPop, RingRun, RingTimeout, IdleLock, IdleKick
  <2>2. running' \in Command
    <3>1. RingPop => Head(queue) \in Command
      BY DEF RingPop, TypeOK
    <3>. QED BY <1>8, <3>1, CommandTypes DEF RingStep, RingPop, RingRun, RingTimeout, IdleLock, IdleKick, TypeOK
  <2>3. /\ rpc' \in {"off", "poll", "run", "idle", "kick", "exited"}
        /\ idle_lock' \in {"free", "caller", "ring"}
    BY <1>8 DEF RingStep, RingPop, RingRun, RingTimeout, IdleLock, IdleKick, TypeOK
  <2>. QED BY <1>1, <1>2, <1>3, <1>4, <2>1, <2>2, <2>3 DEF TypeOK
<1>9. CASE Perform
  <2>1. ops_done + 1 \in 1 .. Len(ops) /\ ops_done' = ops_done + 1 /\ ops' = ops
    BY <1>9 DEF Perform, TypeOK
  <2>2. ops[ops_done + 1] \in Op
    BY <2>1 DEF TypeOK
  <2>3. thread_timeline_value' \in Nat
    BY <1>9, <2>2 DEF Perform, TypeOK, Op
  <2>4. ops_done' \in 0 .. Len(ops')
    BY <2>1 DEF TypeOK
  <2>5. UNCHANGED <<threaded, dumping, in_list, index, idle_lock, rpc, running, gpu_done, worker_alive, calls>>
    BY <1>9 DEF Perform
  <2>. QED BY <1>1, <1>2, <1>3, <1>4, <2>3, <2>4, <2>5 DEF TypeOK
<1>10. CASE Complete
  BY <1>1, <1>2, <1>3, <1>4, <1>10 DEF Complete, TypeOK
<1>11. CASE Terminated
  BY <1>11 DEF Terminated, vars, TypeOK
<1>. QED BY <1>5, <1>6, <1>7, <1>8, <1>9, <1>10, <1>11 DEF Next

-----------------------------------------------------------------------------
(* The ledger of the units and the order of the signals.                   *)

LEMMA QuietLedger == ASSUME TypeOK, Ledger, Quiet PROVE executed = enqueued
<1>1. PICK f : Tally(f)
  BY DEF Ledger
<1>2. Len(queue) + 1 = 1 /\ InHand = 0
  BY DEF Quiet, InHand
<1>. QED BY <1>1, <1>2 DEF Tally, TypeOK

LEMMA LedgerStep ==
    ASSUME TypeOK, TypeOK', Ledger, Ordered, Fenced, Alone, Next
    PROVE  Ledger'
<1>. DEFINE Carried == rpc = "run" /\ running.op = "signal" => executed = covers[running.value]
            n == Len(queue)
<1>1. submitted' <= executed'
  <2>1. PICK cmd \in Command : Given(cmd)
    BY StepGives
  <2>. QED BY <2>1, GivenEffect DEF Ledger
<1>2. PICK f : Tally(f)
  BY DEF Ledger
<1>3. /\ n \in Nat /\ f \in [1 .. n + 1 -> Nat]
      /\ f[1] = executed + InHand /\ f[n + 1] = enqueued
      /\ \A i \in 1 .. n : f[i + 1] = f[i] + Units(queue[i])
      /\ \A i \in 1 .. n : queue[i].op = "signal" => f[i] = covers[queue[i].value]
      /\ Carried
  <2>1. n \in Nat /\ Carried
    BY DEF TypeOK, Ledger
  <2>. HIDE DEF Carried
  <2>. QED BY <1>2, <2>1 DEF Tally
<1>4. /\ \A v \in 1 .. timeline_value : covers'[v] = covers[v]
      /\ \A i \in 1 .. n : queue[i].op = "signal" => queue[i].value \in 1 .. timeline_value
      /\ rpc = "run" /\ running.op = "signal" => running.value \in 1 .. timeline_value
  BY HistoryStep DEF Ordered, Pending
<1>5. CASE Elsewhere
  <2>1. UNCHANGED <<queue, covers, executed, enqueued, InHand>>
    BY <1>5 DEF Elsewhere, InHand
  <2>2. Tally(f)'
    BY <1>2, <2>1 DEF Tally
  <2>3. Carried'
    BY <1>3, <1>5 DEF Elsewhere
  <2>. QED BY <1>1, <2>2, <2>3 DEF Ledger
<1>6. CASE RingRun
  <2>1. /\ rpc = "run" /\ rpc' = "poll" /\ Execute(running) /\ running \in Command
        /\ UNCHANGED <<queue, covers, enqueued>>
    BY <1>6 DEF RingRun, TypeOK
  <2>2. executed' = executed + Units(running)
    BY <2>1, ExecuteGrows DEF Ledger
  <2>3. executed' + 0 = executed + InHand /\ InHand' = 0
    BY <2>1, <2>2 DEF InHand, TypeOK
  <2>4. Tally(f)'
    BY <1>2, <2>1, <2>3 DEF Tally
  <2>. QED BY <1>1, <2>1, <2>4 DEF Ledger
<1>7. CASE RingPop
  <2>1. /\ rpc = "poll" /\ queue # <<>> /\ running' = Head(queue) /\ queue' = Tail(queue)
        /\ rpc' = IF Head(queue) = Sentinel THEN "exited" ELSE "run"
        /\ UNCHANGED <<covers, executed, enqueued>>
    BY <1>7 DEF RingPop
  <2>2. /\ n > 0 /\ Head(queue) = queue[1] /\ Len(queue') = n - 1
        /\ \A i \in 1 .. n - 1 : queue'[i] = queue[i + 1]
    <3>1. queue \in Seq(Command) /\ queue # <<>> /\ queue' = Tail(queue)
      BY <2>1 DEF TypeOK
    <3>2. Len(queue) \in Nat /\ Len(queue) # 0
      BY <3>1
    <3>. QED BY <3>1, <3>2
  <2>. PICK g : g = [i \in 1 .. n |-> f[i + 1]]
    OBVIOUS
  <2>3. InHand = 0 /\ InHand' = Units(queue[1])
    BY <2>1, <2>2 DEF InHand, Units, Sentinel
  <2>4. g[1] = executed' + InHand' /\ f[1] = executed /\ executed \in Nat
    <3>1. executed \in Nat /\ executed + 0 = executed /\ 1 \in 1 .. n
      BY <1>3, <2>2 DEF TypeOK
    <3>2. f[1] = executed /\ f[1 + 1] = f[1] + Units(queue[1])
      BY <1>3, <2>3, <3>1
    <3>3. g[1] = f[1 + 1]
      BY <3>1
    <3>. QED BY <2>1, <2>3, <3>1, <3>2, <3>3
  <2>. HIDE DEF n
  <2>5. g \in [1 .. (n - 1) + 1 -> Nat] /\ g[(n - 1) + 1] = enqueued'
    BY <1>3, <2>1, <2>2
  <2>6. ASSUME NEW i \in 1 .. n - 1
        PROVE  /\ g[i + 1] = g[i] + Units(queue'[i])
               /\ queue'[i].op = "signal" => g[i] = covers'[queue'[i].value]
    <3>1. i + 1 \in 1 .. n /\ i \in 1 .. n /\ g[i + 1] = f[(i + 1) + 1] /\ g[i] = f[i + 1] /\ queue'[i] = queue[i + 1]
      <4>1. i + 1 \in 1 .. n /\ i \in 1 .. n
        BY <1>3
      <4>2. queue'[i] = queue[i + 1]
        BY <2>2
      <4>. QED BY <4>1, <4>2
    <3>. QED BY <1>3, <2>1, <3>1
  <2>7. Tally(g)'
    BY <2>2, <2>4, <2>5, <2>6 DEF Tally
  <2>8. Carried'
    <3>1. rpc' = "run" /\ running'.op = "signal" => executed = covers[queue[1].value]
      BY <1>3, <2>1, <2>2, <2>4
    <3>. QED BY <2>1, <2>2, <3>1
  <2>. QED BY <1>1, <2>7, <2>8 DEF Ledger
<1>8. ASSUME NEW cmd \in Command, Posts(cmd) PROVE Ledger'
  <2>1. /\ enqueued' = enqueued + Units(cmd) /\ UNCHANGED <<rpc, running>>
        /\ Post(cmd)
        /\ cmd.op = "signal" => covers'[cmd.value] = enqueued
    BY <1>8 DEF Posts, Posted, MetaSignal, Work, MetaFlush, Sentinel, TypeOK
  <2>2. CASE threaded
    <3>1. queue' = Append(queue, cmd) /\ executed' = executed /\ InHand' = InHand
      BY <2>1, <2>2 DEF Post, InHand
    <3>2. /\ Len(queue') = n + 1 /\ queue'[n + 1] = cmd
          /\ \A i \in 1 .. n : queue'[i] = queue[i]
      BY <3>1 DEF TypeOK
    <3>. PICK g : g = [i \in 1 .. (n + 1) + 1 |-> IF i = (n + 1) + 1 THEN f[n + 1] + Units(cmd) ELSE f[i]]
      OBVIOUS
    <3>. HIDE DEF n
    <3>3. Units(cmd) \in Nat
      BY DEF Units
    <3>4. /\ g \in [1 .. (n + 1) + 1 -> Nat] /\ g[(n + 1) + 1] = enqueued'
          /\ \A i \in 1 .. n + 1 : g[i] = f[i]
      BY <1>3, <2>1, <3>3
    <3>5. g[1] = executed' + InHand'
      BY <1>3, <3>1, <3>4
    <3>6. ASSUME NEW i \in 1 .. n + 1
          PROVE  /\ g[i + 1] = g[i] + Units(queue'[i])
                 /\ queue'[i].op = "signal" => g[i] = covers'[queue'[i].value]
      <4>1. CASE i = n + 1
        BY <1>3, <2>1, <3>2, <3>4, <4>1
      <4>2. CASE i # n + 1
        <5>1. i \in 1 .. n /\ i + 1 \in 1 .. n + 1 /\ g[i + 1] = f[i + 1] /\ g[i] = f[i] /\ queue'[i] = queue[i]
          BY <1>3, <3>2, <3>4, <4>2
        <5>. QED BY <1>3, <1>4, <5>1
      <4>. QED BY <4>1, <4>2
    <3>7. Tally(g)'
      BY <3>2, <3>4, <3>5, <3>6 DEF Tally
    <3>8. Carried'
      BY <1>3, <1>4, <2>1, <3>1
    <3>. QED BY <1>1, <3>7, <3>8 DEF Ledger
  <2>3. CASE ~threaded
    <3>1. queue = <<>> /\ queue' = <<>> /\ Execute(cmd) /\ rpc = "off" /\ rpc' = "off"
      BY <2>1, <2>3 DEF Post, Alone
    <3>2. executed' = executed + Units(cmd) /\ executed = enqueued
      <4>1. Quiet
        BY <3>1 DEF Quiet
      <4>. QED BY <3>1, <4>1, ExecuteGrows, QuietLedger DEF Ledger
    <3>. PICK g : g = [i \in 1 .. 1 |-> executed']
      OBVIOUS
    <3>3. /\ Len(queue') = 0 /\ Len(queue') + 1 = 1 /\ InHand' = 0 /\ executed' \in Nat
          /\ executed' = enqueued' /\ executed' + 0 = executed'
      BY <2>1, <3>1, <3>2 DEF InHand, TypeOK
    <3>4. g \in [1 .. 1 -> Nat] /\ g[1] = executed'
      BY <3>3
    <3>5. \A i \in 1 .. Len(queue') : FALSE
      BY <3>3
    <3>6. Tally(g)'
      BY <3>3, <3>4, <3>5 DEF Tally
    <3>. QED BY <1>1, <3>1, <3>6 DEF Ledger
  <2>. QED BY <2>2, <2>3
<1>. QED BY <1>5, <1>6, <1>7, <1>8, MoveStep

LEMMA OpValues ==
    ASSUME TypeOK, Fenced
    PROVE  \A j \in 1 .. Len(ops) : ops[j].value \in Nat /\ ops[j].value <= timeline_value
<1>1. ASSUME NEW j \in 1 .. Len(ops) PROVE ops[j].value \in Nat /\ ops[j].value <= timeline_value
  <2>1. ops[j] \in Op /\ timeline_value \in Nat
    BY DEF TypeOK
  <2>2. ops[j].value # 0 => ops[j].value <= timeline_value
    BY DEF Fenced
  <2>. QED BY <2>1, <2>2 DEF Op
<1>. QED BY <1>1

LEMMA PendingStays ==
    ASSUME TypeOK, NEW v \in Nat, Grown(v), NEW w, Pending(w), v < w,
           timeline_value' \in Nat, timeline_value <= timeline_value',
           \/ UNCHANGED thread_timeline_value
           \/ \E j \in 1 .. Len(ops) : thread_timeline_value' = ops[j].value
    PROVE  Pending(w)'
<1>1. /\ w \in Nat /\ w \in 1 .. timeline_value' /\ w > thread_timeline_value
      /\ \A j \in 1 .. Len(ops) : ops[j].value < w
  BY DEF Pending, TypeOK
<1>2. w > thread_timeline_value'
  <2>1. CASE UNCHANGED thread_timeline_value
    BY <1>1, <2>1
  <2>2. CASE \E j \in 1 .. Len(ops) : thread_timeline_value' = ops[j].value
    <3>1. PICK j \in 1 .. Len(ops) : thread_timeline_value' = ops[j].value
      BY <2>2
    <3>2. ops[j] \in Op
      BY DEF TypeOK
    <3>. QED BY <1>1, <3>1, <3>2 DEF Op
  <2>. QED BY <2>1, <2>2
<1>3. ASSUME NEW j \in 1 .. Len(ops') PROVE ops'[j].value < w
  <2>1. CASE j \in 1 .. Len(ops)
    <3>1. ops'[j] = ops[j]
      BY <2>1 DEF Grown
    <3>. QED BY <1>1, <2>1, <3>1
  <2>2. CASE j \notin 1 .. Len(ops)
    <3>1. j \in Len(ops) + 1 .. Len(ops')
      BY <2>2 DEF TypeOK, Grown
    <3>2. ops'[j].value \in {0, v}
      BY <3>1 DEF Grown
    <3>. QED BY <1>1, <3>2
  <2>. QED BY <2>1, <2>2
<1>. QED BY <1>1, <1>2, <1>3 DEF Pending

LEMMA OrderedStep ==
    ASSUME TypeOK, TypeOK', Ledger, Ordered, Fenced, Covered, Alone, Next
    PROVE  Ordered'
<1>. DEFINE n == Len(queue)
            Signal(i) == queue[i].op = "signal"
            Value(i) == queue[i].value
            Carried == rpc = "run" /\ running.op = "signal"
<1>1. /\ n \in Nat /\ queue \in Seq(Command) /\ running \in Command /\ running.value \in Nat
      /\ \A i \in 1 .. n : queue[i].value \in Nat
  <2>1. n \in Nat /\ queue \in Seq(Command) /\ running \in Command
    BY DEF TypeOK
  <2>2. \A i \in 1 .. n : queue[i] \in Command
    BY <2>1
  <2>. QED BY <2>1, <2>2 DEF Command
<1>2. /\ \A i \in 1 .. n : Signal(i) =>
            /\ Pending(Value(i))
            /\ \A j \in 1 .. i - 1 : Signal(j) => Value(j) < Value(i)
            /\ Carried => running.value < Value(i)
      /\ Carried => Pending(running.value)
  BY DEF Ordered
<1>3. timeline_value \in Nat /\ timeline_value' \in Nat /\ timeline_value <= timeline_value'
  BY HistoryStep DEF TypeOK
<1>4. \A w : Pending(w) => w \in Nat /\ w > 0 /\ w <= timeline_value
  BY DEF Pending, TypeOK
<1>5. CASE Elsewhere
  <2>1. Grown(0)
    <3>1. CASE UNCHANGED <<submitted, submissions, ops>>
      BY <3>1, NothingGrows
    <3>2. CASE ExecuteFlush
      <4>1. Execute(MetaFlush) /\ SignalOf(MetaFlush) = 0 /\ MetaFlush \in Command
        BY <3>2, CommandTypes DEF Execute, MetaFlush, SignalOf
      <4>. QED BY <4>1, ExecuteGrows DEF Ledger
    <3>. QED BY <1>5, <3>1, <3>2 DEF Elsewhere
  <2>2. ASSUME NEW w, Pending(w) PROVE Pending(w)'
    <3>1. /\ \/ UNCHANGED thread_timeline_value
             \/ \E j \in 1 .. Len(ops) : thread_timeline_value' = ops[j].value
          /\ 0 < w
      BY <1>4, <1>5, <2>2 DEF Elsewhere
    <3>. QED BY <1>3, <2>1, <2>2, <3>1, PendingStays
  <2>3. queue' = queue /\ (Carried' <=> Carried) /\ (Carried => running' = running)
    BY <1>5 DEF Elsewhere
  <2>4. ASSUME NEW i \in 1 .. n, Signal(i)
        PROVE  /\ Pending(Value(i))'
               /\ \A j \in 1 .. i - 1 : Signal(j) => Value(j) < Value(i)
               /\ Carried => running.value < Value(i)
    <3>1. PICK w : w = Value(i)
      OBVIOUS
    <3>2. Pending(w)'
      BY <1>2, <2>2, <2>4, <3>1
    <3>3. Pending(Value(i))'
      BY <2>3, <3>1, <3>2 DEF Pending
    <3>. QED BY <1>2, <2>4, <3>3
  <2>5. Carried => Pending(running.value)'
    <3>1. PICK w : w = running.value
      OBVIOUS
    <3>2. Carried => Pending(w)'
      BY <1>2, <2>2, <3>1
    <3>. QED BY <2>3, <3>1, <3>2 DEF Pending
  <2>. QED BY <2>3, <2>4, <2>5 DEF Ordered
<1>6. CASE RingRun
  <2>1. /\ rpc = "run" /\ rpc' = "poll" /\ Execute(running)
        /\ UNCHANGED <<queue, thread_timeline_value>>
    BY <1>6 DEF RingRun
  <2>2. Grown(SignalOf(running))
    BY <1>1, <2>1, ExecuteGrows DEF Ledger
  <2>3. ASSUME NEW i \in 1 .. n, Signal(i)
        PROVE  Pending(Value(i))' /\ \A j \in 1 .. i - 1 : Signal(j) => Value(j) < Value(i)
    <3>1. PICK w : w = Value(i)
      OBVIOUS
    <3>2. Pending(w) /\ SignalOf(running) < w /\ SignalOf(running) \in Nat
      BY <1>1, <1>2, <1>4, <2>1, <2>3, <3>1 DEF SignalOf
    <3>3. Pending(w)'
      BY <1>3, <2>1, <2>2, <3>2, PendingStays
    <3>4. Pending(Value(i))'
      BY <2>1, <3>1, <3>3 DEF Pending
    <3>. QED BY <1>2, <2>3, <3>4
  <2>. QED BY <2>1, <2>3 DEF Ordered
<1>7. CASE RingPop
  <2>1. /\ rpc = "poll" /\ queue # <<>> /\ running' = Head(queue) /\ queue' = Tail(queue)
        /\ UNCHANGED <<timeline_value, thread_timeline_value, ops>>
    BY <1>7 DEF RingPop
  <2>2. /\ n > 0 /\ 1 \in 1 .. n /\ running' = queue[1] /\ Len(queue') = n - 1
        /\ \A i \in 1 .. n - 1 : queue'[i] = queue[i + 1]
    BY <1>1, <2>1
  <2>3. ASSUME NEW i \in 1 .. n - 1, queue'[i].op = "signal"
        PROVE  /\ Pending(queue[i].value)'
               /\ \A j \in 1 .. i - 1 : queue'[j].op = "signal" => queue'[j].value < queue'[i].value
               /\ running'.op = "signal" => running'.value < queue'[i].value
    <3>1. i + 1 \in 1 .. n /\ 1 \in 1 .. (i + 1) - 1
      BY <1>1
    <3>2. Signal(i + 1) /\ queue'[i] = queue[i + 1]
      BY <2>2, <2>3
    <3>3. /\ Pending(Value(i + 1))
          /\ \A j \in 1 .. (i + 1) - 1 : Signal(j) => Value(j) < Value(i + 1)
      BY <1>2, <3>1, <3>2
    <3>4. Pending(queue[i].value)'
      BY <2>1, <3>2, <3>3 DEF Pending
    <3>5. ASSUME NEW j \in 1 .. i - 1, queue'[j].op = "signal" PROVE queue'[j].value < queue'[i].value
      <4>1. j + 1 \in 1 .. (i + 1) - 1 /\ j \in 1 .. n - 1
        BY <1>1
      <4>2. queue'[j] = queue[j + 1]
        BY <2>2, <4>1
      <4>. QED BY <3>2, <3>3, <3>5, <4>1, <4>2
    <3>6. running'.op = "signal" => running'.value < queue'[i].value
      BY <2>2, <3>1, <3>2, <3>3
    <3>. QED BY <3>4, <3>5, <3>6
  <2>4. running'.op = "signal" => Pending(running.value)'
    BY <1>2, <2>1, <2>2 DEF Pending
  <2>. QED BY <2>2, <2>3, <2>4 DEF Ordered
<1>8. ASSUME NEW cmd \in Command, Posts(cmd) PROVE Ordered'
  <2>1. CASE ~threaded
    <3>1. queue' = <<>> /\ rpc' = "off"
      BY <1>8, <2>1 DEF Posts, Posted, Post, Alone
    <3>2. \A i \in 1 .. Len(queue') : FALSE
      BY <3>1
    <3>. QED BY <3>1, <3>2 DEF Ordered
  <2>2. CASE threaded
    <3>1. /\ queue' = Append(queue, cmd) /\ UNCHANGED <<rpc, running, ops, thread_timeline_value>>
          /\ cmd.op = "signal" => cmd.value = timeline_value' /\ timeline_value' = timeline_value + 1
      BY <1>8, <2>2 DEF Posts, Posted, Post, MetaSignal, Work, MetaFlush, Sentinel
    <3>2. Len(queue') = n + 1 /\ queue'[n + 1] = cmd /\ \A i \in 1 .. n : queue'[i] = queue[i]
      BY <1>1, <3>1
    <3>3. ASSUME NEW w, Pending(w) PROVE Pending(w)'
      BY <1>3, <3>1, <3>3 DEF Pending
    <3>4. ASSUME cmd.op = "signal"
          PROVE  /\ Pending(cmd.value)'
                 /\ \A j \in 1 .. n : Signal(j) => Value(j) < cmd.value
                 /\ Carried => running.value < cmd.value
      <4>1. cmd.value = timeline_value + 1 /\ cmd.value = timeline_value'
        BY <3>1, <3>4
      <4>2. cmd.value \in 1 .. timeline_value' /\ cmd.value > thread_timeline_value'
        <5>1. timeline_value \in Nat /\ thread_timeline_value \in Nat
          BY DEF TypeOK
        <5>2. thread_timeline_value <= timeline_value /\ thread_timeline_value' = thread_timeline_value
          BY <3>1 DEF Covered
        <5>. QED BY <4>1, <5>1, <5>2
      <4>3. \A j \in 1 .. Len(ops') : ops'[j].value < cmd.value
        BY <1>3, <3>1, <4>1, OpValues
      <4>. QED BY <1>2, <1>3, <1>4, <4>1, <4>2, <4>3 DEF Pending
    <3>5. ASSUME NEW i \in 1 .. n + 1, queue'[i].op = "signal"
          PROVE  /\ Pending(queue[i].value)'
                 /\ \A j \in 1 .. i - 1 : queue'[j].op = "signal" => queue'[j].value < queue'[i].value
                 /\ Carried => running.value < queue'[i].value
      <4>1. CASE i = n + 1
        <5>1. queue'[i] = cmd /\ i - 1 = n
          BY <1>1, <3>2, <4>1
        <5>. QED BY <3>2, <3>4, <3>5, <5>1 DEF Pending
      <4>2. CASE i # n + 1
        <5>1. i \in 1 .. n /\ \A j \in 1 .. i - 1 : j \in 1 .. n
          BY <1>1, <4>2
        <5>2. queue'[i] = queue[i] /\ \A j \in 1 .. i - 1 : queue'[j] = queue[j]
          BY <3>2, <5>1
        <5>3. PICK w : w = queue[i].value
          OBVIOUS
        <5>4. Pending(w)'
          BY <1>2, <3>3, <3>5, <5>1, <5>2, <5>3
        <5>5. Pending(queue[i].value)'
          BY <5>2, <5>3, <5>4 DEF Pending
        <5>. QED BY <1>2, <3>5, <5>1, <5>2, <5>5
      <4>. QED BY <4>1, <4>2
    <3>6. Carried => Pending(running.value)'
      <4>1. PICK w : w = running.value
        OBVIOUS
      <4>2. Carried => Pending(w)'
        BY <1>2, <3>3, <4>1
      <4>. QED BY <3>1, <4>1, <4>2 DEF Pending
    <3>. QED BY <3>1, <3>2, <3>5, <3>6 DEF Ordered
  <2>. QED BY <2>1, <2>2
<1>. QED BY <1>5, <1>6, <1>7, <1>8, MoveStep

-----------------------------------------------------------------------------
(* The operations of the worker and what it has seen.                      *)

LEMMA StepGrows ==
    ASSUME TypeOK, Ledger, Ordered, Fenced, Alone, Next
    PROVE  \E v \in Nat : /\ Grown(v) /\ Fresh'
                          /\ v # 0 => v <= timeline_value' /\ covers'[v] = submitted'
<1>1. PICK cmd \in Command :
         /\ Given(cmd)
         /\ cmd.op # "signal" \/ (cmd.value \in 1 .. timeline_value' /\ covers'[cmd.value] = executed)
  BY StepGives
<1>2. SignalOf(cmd) \in Nat
  BY DEF SignalOf, Command
<1>3. Grown(SignalOf(cmd)) /\ Fresh'
  BY <1>1, GivenEffect DEF Ledger
<1>4. ASSUME SignalOf(cmd) # 0
      PROVE  SignalOf(cmd) <= timeline_value' /\ covers'[SignalOf(cmd)] = submitted'
  <2>1. cmd.op = "signal" /\ SignalOf(cmd) = cmd.value /\ Execute(cmd)
    BY <1>1, <1>4 DEF SignalOf, Given
  <2>2. submitted' = executed
    BY <2>1, ExecuteGrows DEF Ledger
  <2>. QED BY <1>1, <2>1, <2>2
<1>. QED BY <1>2, <1>3, <1>4

LEMMA FencedStep ==
    ASSUME TypeOK, Ledger, Ordered, Fenced, Alone, Next
    PROVE  Fenced'
  BY StepGrows, HistoryStep, FencesStay

LEMMA WorkerStep ==
    ASSUME [Next]_vars
    PROVE  Perform \/ UNCHANGED <<ops_done, thread_timeline_value>>
<1>1. CASE Progress \/ LockCommandProcessing
  BY <1>1 DEF Progress, PostWork, PostFlush, PostSignal, PostSentinel, Posted, WaitForTimeline,
     Drain, Snapshot, Render, UnlockCommandProcessing, UseDevice, StopWorker, JoinRing,
     LockCommandProcessing, Done
<1>2. CASE RingStep \/ Complete
  BY <1>2 DEF RingStep, RingPop, RingRun, RingTimeout, IdleLock, IdleKick, Complete
<1>. QED BY <1>1, <1>2 DEF Next, Call, Terminated, vars

\* What was seen stays seen.
LEMMA SeenStays ==
    ASSUME TypeOK, TypeOK', Ledger, Ordered, Fenced, Alone, Next, NEW n, Seen(n)
    PROVE  Seen(n)'
<1>1. PICK v \in Nat : Grown(v)
  BY StepGrows
<1>2. ops_done' \in Nat /\ ops_done <= ops_done'
  <2>1. Perform => ops_done' = ops_done + 1
    BY DEF Perform
  <2>. QED BY <2>1, WorkerStep DEF TypeOK
<1>. QED BY <1>1, <1>2, SeenPersists

LEMMA CoveredStep ==
    ASSUME TypeOK, TypeOK', Ledger, Ordered, Fenced, Covered, Alone, Next
    PROVE  Covered'
<1>1. /\ timeline_value \in Nat /\ timeline_value' \in Nat /\ timeline_value <= timeline_value'
      /\ covers \in Seq(Nat) /\ Len(covers) = timeline_value
      /\ covers' \in Seq(Nat) /\ Len(covers') = timeline_value'
      /\ \A v \in 1 .. timeline_value : covers'[v] = covers[v]
      /\ enqueued \in Nat /\ enqueued' \in Nat /\ enqueued <= enqueued'
  BY HistoryStep DEF TypeOK
<1>2. /\ \A u, v \in 1 .. timeline_value : u <= v => covers[u] <= covers[v]
      /\ \A v \in 1 .. timeline_value : covers[v] <= enqueued /\ covers[v] \in Nat
  BY <1>1 DEF Covered
<1>3. /\ \A u, v \in 1 .. timeline_value' : u <= v => covers'[u] <= covers'[v]
      /\ \A v \in 1 .. timeline_value' : covers'[v] <= enqueued'
  <2>1. CASE timeline_value' = timeline_value
    <3>1. \A v \in 1 .. timeline_value : covers'[v] = covers[v] /\ covers[v] <= enqueued'
      BY <1>1, <1>2
    <3>. QED BY <1>2, <2>1, <3>1
  <2>2. CASE timeline_value' # timeline_value
    <3>1. PICK cmd \in Command : Posts(cmd)
      BY <2>2, MoveStep DEF RingPop, RingRun, Elsewhere
    <3>2. timeline_value' = timeline_value + 1 /\ covers' = Append(covers, enqueued)
      BY <2>2, <3>1 DEF Posts
    <3>3. covers'[timeline_value + 1] = enqueued
      BY <1>1, <3>2
    <3>4. ASSUME NEW v \in 1 .. timeline_value' PROVE covers'[v] <= enqueued /\ covers'[v] \in Nat
      <4>1. CASE v = timeline_value + 1
        BY <1>1, <3>3, <4>1
      <4>2. CASE v # timeline_value + 1
        <5>1. v \in 1 .. timeline_value
          BY <1>1, <3>2, <4>2
        <5>. QED BY <1>1, <1>2, <5>1
      <4>. QED BY <4>1, <4>2
    <3>5. ASSUME NEW u \in 1 .. timeline_value', NEW v \in 1 .. timeline_value', u <= v
          PROVE  covers'[u] <= covers'[v]
      <4>1. CASE v = timeline_value + 1
        BY <3>3, <3>4, <4>1
      <4>2. CASE v # timeline_value + 1
        <5>1. v \in 1 .. timeline_value /\ u \in 1 .. timeline_value
          BY <1>1, <3>2, <3>5, <4>2
        <5>. QED BY <1>1, <1>2, <3>5, <5>1
      <4>. QED BY <4>1, <4>2
    <3>6. \A v \in 1 .. timeline_value' : covers'[v] <= enqueued'
      BY <1>1, <3>4
    <3>. QED BY <3>5, <3>6
  <2>. QED BY <2>1, <2>2
<1>4. CASE UNCHANGED thread_timeline_value
  <2>1. thread_timeline_value' <= timeline_value' /\ thread_timeline_value \in Nat
    BY <1>1, <1>4 DEF Covered, TypeOK
  <2>2. ASSUME thread_timeline_value # 0 PROVE Seen(covers[thread_timeline_value])'
    <3>1. PICK n : n = covers[thread_timeline_value]
      OBVIOUS
    <3>2. Seen(n) /\ thread_timeline_value \in 1 .. timeline_value
      BY <1>1, <2>1, <2>2, <3>1 DEF Covered
    <3>3. Seen(n)'
      BY <3>2, SeenStays
    <3>4. covers'[thread_timeline_value'] = n
      BY <1>1, <1>4, <3>1, <3>2
    <3>. QED BY <3>3, <3>4 DEF Seen
  <2>. QED BY <1>3, <1>4, <2>1, <2>2 DEF Covered
<1>5. CASE Perform /\ thread_timeline_value' # thread_timeline_value
  <2>. DEFINE w == ops[ops_done + 1].value
  <2>1. /\ thread_timeline_value' = w /\ w # 0 /\ ops' = ops /\ submissions' = submissions
        /\ ops_done' = ops_done + 1 /\ covers' = covers /\ timeline_value' = timeline_value
        /\ ops_done < Len(ops)
    BY <1>5 DEF Perform
  <2>2. ops_done \in Nat /\ ops_done + 1 \in 1 .. Len(ops)
    BY <2>1 DEF TypeOK
  <2>3. w <= timeline_value /\ w \in Nat
    BY <2>2, OpValues
  <2>4. PICK n : n = covers[w]
    OBVIOUS
  <2>5. Before(ops_done + 1, n)
    BY <2>1, <2>2, <2>4 DEF Fenced
  <2>6. Seen(n)
    <3>1. (ops_done + 1) - 1 = ops_done
      BY <2>2
    <3>. QED BY <2>5, <3>1 DEF Before, Seen
  <2>7. Seen(n)'
    BY <2>6, SeenStays
  <2>8. covers'[thread_timeline_value'] = n
    BY <2>1, <2>4
  <2>9. Seen(covers[thread_timeline_value])'
    BY <2>7, <2>8 DEF Seen
  <2>. QED BY <1>3, <2>1, <2>3, <2>9 DEF Covered
<1>. QED BY <1>4, <1>5, WorkerStep

-----------------------------------------------------------------------------
(* The places of the caller.                                               *)

LEMMA Heads ==
    ASSUME Scripted, NEW x, Doing(x), todo' = Tail(todo), todo' # <<>>
    PROVE  /\ x \in {"open", "sync", "drain", "snapshot", "signal", "wait", "flush", "lock", "render",
                     "unlock", "stop", "exit", "join"}
           /\ x = "open" => Head(todo') \in {"work", "sync"}
           /\ x = "sync" => Head(todo') = "close"
           /\ x = "drain" => Head(todo') \in {"signal", "lock", "frame"}
           /\ x = "snapshot" => Head(todo') = "lock"
           /\ x = "signal" => Head(todo') = "wait"
           /\ x = "wait" => Head(todo') \in {"open", "snapshot", "stop"}
           /\ x = "flush" => Head(todo') \in {"signal", "drain"}
           /\ x = "lock" => Head(todo') = "render"
           /\ x = "render" => Head(todo') = "unlock"
           /\ x = "unlock" => Head(todo') = "scan"
           /\ x = "stop" => Head(todo') = "exit"
           /\ x = "exit" => Head(todo') = "join"
           /\ x = "join" => Head(todo') = "gone"
  BY Advances DEF Follows

LEMMA Lasts ==
    ASSUME Scripted, NEW x, Doing(x), todo' = Tail(todo), todo' = <<>>
    PROVE  x \in Last
  BY Advances

\* Waiting for the signal that was just posted waits for everything.
LEMMA WaitedForAll ==
    ASSUME TypeOK, Ordered, Waiting, Covered, Alone, Doing("wait"), Len(todo) > 1,
           thread_timeline_value >= index
    PROVE  Quiet /\ submitted = enqueued /\ Seen(enqueued)
<1>1. /\ timeline_value \in Nat /\ thread_timeline_value \in Nat
      /\ timeline_value > 0 /\ index = timeline_value /\ covers[timeline_value] = enqueued
      /\ LastIs(MetaSignal(timeline_value)) /\ thread_timeline_value <= timeline_value
  BY DEF Waiting, Covered, TypeOK
<1>2. thread_timeline_value = timeline_value
  BY <1>1
<1>3. ~Pending(timeline_value)
  BY <1>1, <1>2 DEF Pending
<1>4. MetaSignal(timeline_value).op = "signal" /\ MetaSignal(timeline_value).value = timeline_value
  BY DEF MetaSignal
<1>5. queue = <<>>
  <2>1. SUFFICES ASSUME queue # <<>> PROVE FALSE
    OBVIOUS
  <2>2. Len(queue) \in 1 .. Len(queue)
    BY <2>1 DEF TypeOK
  <2>3. queue[Len(queue)] = MetaSignal(timeline_value)
    BY <1>1, <2>1 DEF LastIs
  <2>4. Pending(timeline_value)
    BY <1>4, <2>2, <2>3 DEF Ordered
  <2>. QED BY <1>3, <2>4
<1>6. rpc # "run"
  BY <1>1, <1>3, <1>4, <1>5 DEF LastIs, Ordered
<1>. QED BY <1>1, <1>2, <1>5, <1>6 DEF Quiet, LastIs, Covered

LEMMA AloneStep ==
    ASSUME TypeOK, Scripted, Ordered, Waiting, Covered, Alone, Next
    PROVE  Alone'
<1>1. CASE Call
  <2>1. /\ todo = <<>> /\ UNCHANGED <<threaded, queue, rpc, running>>
        /\ Head(todo') \in {"work", "sync", "signal", "wait", "flush", "drain"}
    <3>1. Begins(todo')
      BY <1>1, CallBegins
    <3>2. Head(todo') = todo'[1]
      BY <3>1 DEF Begins, IsScript, IsChain
    <3>. QED BY <1>1, <3>1, <3>2 DEF Call, Begins
  <2>. QED BY <2>1 DEF Alone, At, Quiet
<1>2. ASSUME NEW cmd \in Command, Posts(cmd) PROVE Alone'
  <2>1. /\ todo' = Tail(todo) /\ UNCHANGED <<threaded, rpc, running>>
        /\ queue' = (IF threaded THEN Append(queue, cmd) ELSE queue)
    BY <1>2 DEF Posts, Posted, Post
  <2>2. CASE Doing("exit")
    <3>1. Quiet /\ cmd = Sentinel
      BY <1>2, <2>2 DEF Alone, Posts, Doing, At
    <3>2. todo' # <<>> /\ Head(todo') = "join"
      BY <2>1, <2>2, Heads, Lasts DEF Last
    <3>3. queue' = <<>> \/ queue' = <<Sentinel>>
      BY <2>1, <3>1 DEF Quiet
    <3>4. ~threaded' => queue' = <<>>
      BY <2>1, <3>1 DEF Quiet
    <3>5. rpc # "exited"
      BY <2>2 DEF Alone, At, Doing
    <3>. QED BY <2>1, <3>1, <3>2, <3>3, <3>4, <3>5 DEF Alone, At, Quiet
  <2>3. CASE ~Doing("exit")
    <3>1. PICK x \in {"work", "sync", "flush", "signal"} : Doing(x) /\ cmd.op \in Plain
      BY <1>2, <2>3 DEF Posts, Plain, Work, MetaFlush, MetaSignal
    <3>2. todo' = <<>> \/ Head(todo') \in {"close", "signal", "drain", "wait"}
      BY <2>1, <3>1, Heads, Lasts DEF Last
    <3>3. rpc # "exited" /\ \A i \in 1 .. Len(queue) : queue[i].op \in Plain
      BY <3>1 DEF Alone, At, Doing
    <3>4. \A i \in 1 .. Len(queue') : queue'[i].op \in Plain
      <4>1. CASE ~threaded
        BY <2>1, <3>3, <4>1
      <4>2. CASE threaded
        <5>1. queue \in Seq(Command) /\ queue' = Append(queue, cmd)
          BY <2>1, <4>2 DEF TypeOK
        <5>2. ASSUME NEW i \in 1 .. Len(queue') PROVE queue'[i] = cmd \/ (i \in 1 .. Len(queue) /\ queue'[i] = queue[i])
          BY <5>1
        <5>. QED BY <3>1, <3>3, <5>2
      <4>. QED BY <4>1, <4>2
    <3>5. ~threaded => queue' = <<>>
      BY <2>1 DEF Alone
    <3>. QED BY <2>1, <3>2, <3>3, <3>4, <3>5 DEF Alone, At
  <2>. QED BY <2>2, <2>3
<1>3. ASSUME UNCHANGED <<threaded, queue, rpc, running>>, todo' = Tail(todo),
             NEW x \in {"open", "snapshot", "close", "lock", "render", "unlock", "scan", "frame",
                        "stop", "join"},
             Doing(x)
      PROVE  Alone'
  <2>1. CASE todo' = <<>>
    <3>1. x \in {"close", "scan", "frame"}
      BY <1>3, <2>1, Lasts DEF Last
    <3>. QED BY <1>3, <2>1, <3>1 DEF Alone, At, Doing
  <2>2. CASE todo' # <<>>
    <3>1. \/ x = "open" /\ Head(todo') \in {"work", "sync"}
          \/ x \in {"snapshot", "lock", "render", "unlock", "stop"}
             /\ Head(todo') \in {"lock", "render", "unlock", "scan", "exit"}
          \/ x = "join" /\ Head(todo') = "gone"
      BY <1>3, <2>2, Heads
    <3>. QED BY <1>3, <2>2, <3>1 DEF Alone, At, Doing, Quiet
  <2>. QED BY <2>1, <2>2
<1>4. CASE WaitForTimeline
  <2>1. /\ Doing("wait") /\ thread_timeline_value >= index /\ todo' = Tail(todo)
        /\ UNCHANGED <<threaded, queue, rpc, running>>
    BY <1>4 DEF WaitForTimeline, Done
  <2>2. CASE todo' = <<>>
    BY <2>1, <2>2 DEF Alone, At, Doing
  <2>3. CASE todo' # <<>>
    <3>1. Len(todo) > 1 /\ Head(todo') \in {"open", "snapshot", "stop"}
      BY <2>1, <2>3, Heads, Advances
    <3>2. Quiet
      BY <2>1, <3>1, WaitedForAll
    <3>. QED BY <2>1, <3>1, <3>2 DEF Alone, At, Doing, Quiet
  <2>. QED BY <2>2, <2>3
<1>5. CASE Drain
  <2>1. /\ Doing("drain") /\ Quiet /\ todo' = Tail(todo)
        /\ UNCHANGED <<threaded, queue, rpc, running>>
    BY <1>5 DEF Drain, Done, Quiet
  <2>2. todo' # <<>> /\ Head(todo') \in {"signal", "lock", "frame"}
    BY <2>1, Heads, Lasts DEF Last
  <2>. QED BY <2>1, <2>2 DEF Alone, At, Doing, Quiet
<1>6. CASE Snapshot
  <2>1. PICK x \in {"open", "snapshot", "close"} : Doing(x)
    BY <1>6 DEF Snapshot
  <2>. QED BY <1>3, <1>6, <2>1 DEF Snapshot, Done
<1>7. CASE LockCommandProcessing \/ Render \/ UnlockCommandProcessing
  <2>1. PICK x \in {"lock", "render", "unlock"} : Doing(x)
    BY <1>7 DEF LockCommandProcessing, Render, UnlockCommandProcessing
  <2>. QED BY <1>3, <1>7, <2>1 DEF LockCommandProcessing, Render, UnlockCommandProcessing, Done
<1>8. CASE UseDevice \/ StopWorker \/ JoinRing
  <2>1. PICK x \in {"scan", "frame", "stop", "join"} : Doing(x)
    BY <1>8 DEF UseDevice, StopWorker, JoinRing
  <2>. QED BY <1>3, <1>8, <2>1 DEF UseDevice, StopWorker, JoinRing, Done
<1>9. CASE RingPop
  <2>1. /\ rpc = "poll" /\ queue # <<>> /\ running' = Head(queue) /\ queue' = Tail(queue)
        /\ rpc' = IF Head(queue) = Sentinel THEN "exited" ELSE "run"
        /\ UNCHANGED <<todo, threaded>>
    BY <1>9 DEF RingPop
  <2>2. /\ Len(queue) > 0 /\ Len(queue) \in Nat /\ Head(queue) = queue[1] /\ Len(queue') = Len(queue) - 1
        /\ \A i \in 1 .. Len(queue) - 1 : queue'[i] = queue[i + 1]
        /\ 1 \in 1 .. Len(queue)
    BY <2>1 DEF TypeOK
  <2>3. ~At({"open", "snapshot", "lock", "render", "unlock", "scan", "frame", "stop", "exit"})
    BY <2>1 DEF Alone, Quiet
  <2>4. threaded
    BY <2>1 DEF Alone
  <2>5. CASE At({"join", "gone"})
    <3>1. queue = <<Sentinel>>
      BY <2>1, <2>5 DEF Alone
    <3>2. queue' = <<>> /\ Head(queue) = Sentinel
      BY <2>1, <3>1
    <3>3. rpc' = "exited"
      BY <2>1, <3>2
    <3>4. At({"join", "gone"})'
      BY <2>1, <2>5 DEF At
    <3>5. ~At({"open", "snapshot", "lock", "render", "unlock", "scan", "frame", "stop", "exit"})'
      BY <2>1, <2>3 DEF At
    <3>. QED BY <2>1, <2>4, <3>2, <3>3, <3>4, <3>5 DEF Alone
  <2>6. CASE ~At({"join", "gone"})
    <3>1. \A i \in 1 .. Len(queue) : queue[i].op \in Plain
      BY <2>6 DEF Alone
    <3>2. Head(queue).op \in Plain /\ Head(queue) # Sentinel
      BY <2>2, <3>1 DEF Plain, Sentinel
    <3>3. rpc' = "run" /\ running'.op \in Plain
      BY <2>1, <3>2
    <3>4. ASSUME NEW i \in 1 .. Len(queue') PROVE queue'[i].op \in Plain
      <4>1. i \in 1 .. Len(queue) - 1 /\ i + 1 \in 1 .. Len(queue)
        BY <2>2
      <4>. QED BY <2>2, <3>1, <4>1
    <3>5. ~At({"join", "gone"})'
      BY <2>1, <2>6 DEF At
    <3>6. ~At({"open", "snapshot", "lock", "render", "unlock", "scan", "frame", "stop", "exit"})'
      BY <2>1, <2>3 DEF At
    <3>. QED BY <2>1, <2>4, <3>3, <3>4, <3>5, <3>6 DEF Alone
  <2>. QED BY <2>5, <2>6
<1>10. CASE RingRun \/ RingTimeout \/ IdleLock \/ IdleKick
  <2>1. /\ rpc \in {"run", "poll", "idle", "kick"} /\ rpc' \in {"poll", "idle", "kick"}
        /\ UNCHANGED <<todo, threaded, queue>>
    BY <1>10 DEF RingRun, RingTimeout, IdleLock, IdleKick
  <2>. QED BY <2>1 DEF Alone, At, Quiet
<1>11. CASE Perform \/ Complete \/ Terminated
  <2>1. UNCHANGED <<todo, threaded, queue, rpc, running>>
    BY <1>11 DEF Perform, Complete, Terminated, vars
  <2>. QED BY <2>1 DEF Alone, At, Quiet
<1>12. CASE PostWork \/ PostFlush \/ PostSignal \/ PostSentinel
  BY <1>2, <1>12, PostsAre
<1>. QED BY <1>1, <1>4, <1>5, <1>6, <1>7, <1>8, <1>9, <1>10, <1>11, <1>12 DEF Next, Progress, RingStep

LEMMA LockedStep ==
    ASSUME TypeOK, Scripted, Locked, Next
    PROVE  Locked'
<1>1. CASE Call
  <2>1. todo = <<>> /\ UNCHANGED <<rpc, idle_lock>> /\ Head(todo') \notin {"render", "unlock"}
    <3>1. Begins(todo')
      BY <1>1, CallBegins
    <3>2. Head(todo') = todo'[1]
      BY <3>1 DEF Begins, IsScript, IsChain
    <3>. QED BY <1>1, <3>1, <3>2 DEF Call, Begins
  <2>. QED BY <2>1 DEF Locked, At
<1>2. ASSUME UNCHANGED <<rpc, idle_lock>>, todo' = Tail(todo),
             NEW x \in Step \ {"lock", "render", "unlock"}, Doing(x)
      PROVE  Locked'
  <2>1. todo' # <<>> => Head(todo') \notin {"render", "unlock"}
    BY <1>2, Heads
  <2>. QED BY <1>2, <2>1 DEF Locked, At, Doing
<1>3. CASE PostWork \/ PostFlush \/ PostSignal \/ PostSentinel
  <2>1. PICK x \in {"work", "sync", "flush", "signal", "exit"} : Doing(x)
    BY <1>3 DEF PostWork, PostFlush, PostSignal, PostSentinel
  <2>2. UNCHANGED <<rpc, idle_lock>> /\ todo' = Tail(todo)
    BY <1>3 DEF PostWork, PostFlush, PostSignal, PostSentinel, Posted
  <2>. QED BY <1>2, <2>1, <2>2 DEF Step
<1>4. CASE WaitForTimeline \/ Drain \/ Snapshot \/ UseDevice \/ StopWorker \/ JoinRing
  <2>1. PICK x \in {"wait", "drain", "open", "snapshot", "close", "scan", "frame", "stop", "join"} : Doing(x)
    BY <1>4 DEF WaitForTimeline, Drain, Snapshot, UseDevice, StopWorker, JoinRing
  <2>2. UNCHANGED <<rpc, idle_lock>> /\ todo' = Tail(todo)
    BY <1>4 DEF WaitForTimeline, Drain, Snapshot, UseDevice, StopWorker, JoinRing, Done
  <2>. QED BY <1>2, <2>1, <2>2 DEF Step
<1>5. CASE LockCommandProcessing
  <2>1. Doing("lock") /\ todo' = Tail(todo) /\ idle_lock = "free" /\ idle_lock' = "caller" /\ rpc' = rpc
    BY <1>5 DEF LockCommandProcessing, Done
  <2>2. todo' # <<>> /\ Head(todo') = "render"
    BY <2>1, Heads, Lasts DEF Last
  <2>. QED BY <2>1, <2>2 DEF Locked, At, Doing
<1>6. CASE Render
  <2>1. Doing("render") /\ todo' = Tail(todo) /\ UNCHANGED <<idle_lock, rpc>>
    BY <1>6 DEF Render, Done
  <2>2. todo' # <<>> /\ Head(todo') = "unlock"
    BY <2>1, Heads, Lasts DEF Last
  <2>. QED BY <2>1, <2>2 DEF Locked, At, Doing
<1>7. CASE UnlockCommandProcessing
  <2>1. Doing("unlock") /\ todo' = Tail(todo) /\ idle_lock' = "free" /\ rpc' = rpc
    BY <1>7 DEF UnlockCommandProcessing, Done
  <2>2. todo' # <<>> /\ Head(todo') = "scan"
    BY <2>1, Heads, Lasts DEF Last
  <2>. QED BY <2>1, <2>2 DEF Locked, At, Doing
<1>8. CASE RingStep
  BY <1>8 DEF RingStep, RingPop, RingRun, RingTimeout, IdleLock, IdleKick, Locked, At
<1>9. CASE Perform \/ Complete \/ Terminated
  <2>1. UNCHANGED <<todo, rpc, idle_lock>>
    BY <1>9 DEF Perform, Complete, Terminated, vars
  <2>. QED BY <2>1 DEF Locked, At
<1>. QED BY <1>1, <1>3, <1>4, <1>5, <1>6, <1>7, <1>8, <1>9 DEF Next, Progress

\* What is posted last stays the last until it has run.
LEMMA LastStays ==
    ASSUME TypeOK, Ledger, Fenced, Alone, NEW cmd, LastIs(cmd), cmd.op \in {"flush", "signal"},
           RingPop \/ RingRun \/ (Elsewhere /\ UNCHANGED todo)
    PROVE  /\ queue' # <<>> => queue'[Len(queue')] = cmd
           /\ queue' = <<>> /\ rpc' = "run" => running' = cmd
           /\ Quiet' => submitted' = enqueued'
<1>1. CASE RingPop
  <2>1. /\ queue # <<>> /\ running' = Head(queue) /\ queue' = Tail(queue) /\ queue \in Seq(Command)
        /\ rpc' = IF Head(queue) = Sentinel THEN "exited" ELSE "run"
    BY <1>1 DEF RingPop, TypeOK
  <2>2. /\ Len(queue) \in Nat /\ Len(queue) > 0 /\ Head(queue) = queue[1] /\ Len(queue') = Len(queue) - 1
        /\ \A i \in 1 .. Len(queue) - 1 : queue'[i] = queue[i + 1]
        /\ queue[Len(queue)] = cmd
    BY <2>1 DEF LastIs
  <2>3. CASE queue' = <<>>
    <3>1. Len(queue) = 1 /\ Head(queue) = cmd
      <4>1. Len(queue') = 0
        BY <2>3
      <4>2. Len(queue) \in Nat /\ Len(queue') = Len(queue) - 1
        BY <2>2
      <4>3. Len(queue) = 1
        BY <4>1, <4>2
      <4>. QED BY <2>2, <4>3
    <3>2. cmd # Sentinel
      BY DEF Sentinel
    <3>. QED BY <2>1, <2>3, <3>1, <3>2 DEF Quiet
  <2>4. CASE queue' # <<>>
    <3>1. queue' \in Seq(Command)
      BY <2>1
    <3>2. Len(queue') \in 1 .. Len(queue) - 1 /\ Len(queue') + 1 = Len(queue)
      <4>1. Len(queue') \in Nat /\ Len(queue') # 0
        BY <2>4, <3>1, EmptySeq
      <4>2. Len(queue) \in Nat /\ Len(queue') = Len(queue) - 1
        BY <2>2
      <4>3. \A a, b \in Nat : a # 0 /\ a = b - 1 => a \in 1 .. b - 1 /\ a + 1 = b
        OBVIOUS
      <4>. QED BY <4>1, <4>2, <4>3, Zenon
    <3>3. queue'[Len(queue')] = cmd
      BY <2>2, <3>2
    <3>. QED BY <2>4, <3>3 DEF Quiet
  <2>. QED BY <2>3, <2>4
<1>2. CASE RingRun
  <2>1. rpc = "run" /\ rpc' = "poll" /\ Execute(running) /\ UNCHANGED <<queue, enqueued>>
    BY <1>2 DEF RingRun
  <2>2. CASE queue = <<>>
    <3>1. running = cmd /\ running \in Command
      BY <2>1, <2>2 DEF LastIs, TypeOK
    <3>2. submitted' = executed
      BY <2>1, <3>1, ExecuteGrows DEF Ledger
    <3>3. executed = enqueued
      <4>1. PICK f : Tally(f)
        BY DEF Ledger
      <4>2. Len(queue) + 1 = 1 /\ InHand = 0
        BY <2>2, <3>1 DEF InHand, Units
      <4>. QED BY <4>1, <4>2 DEF Tally, TypeOK
    <3>. QED BY <2>1, <2>2, <3>2, <3>3
  <2>3. CASE queue # <<>>
    BY <2>1, <2>3 DEF LastIs, Quiet
  <2>. QED BY <2>2, <2>3
<1>3. CASE Elsewhere
  <2>1. /\ UNCHANGED <<queue, enqueued>> /\ (rpc' = "run" <=> rpc = "run")
        /\ rpc = "run" => running' = running
        /\ UNCHANGED <<submitted, submissions, ops>> \/ ExecuteFlush
    BY <1>3 DEF Elsewhere
  <2>2. ASSUME Quiet PROVE submitted' = enqueued
    <3>1. submitted = enqueued /\ executed = enqueued
      BY <2>2, QuietLedger DEF LastIs
    <3>2. ExecuteFlush => submitted' = executed
      <4>1. Execute(MetaFlush) <=> ExecuteFlush
        BY DEF Execute, MetaFlush
      <4>2. MetaFlush \in Command /\ MetaFlush.op = "flush"
        BY CommandTypes DEF MetaFlush
      <4>. QED BY <4>1, <4>2, ExecuteGrows DEF Ledger
    <3>. QED BY <2>1, <3>1, <3>2
  <2>. QED BY <2>1, <2>2 DEF LastIs, Quiet
<1>. QED BY <1>1, <1>2, <1>3

LEMMA WaitingStep ==
    ASSUME TypeOK, TypeOK', Scripted, Scripted', Ledger, Fenced, Waiting, Alone, Next
    PROVE  Waiting'
<1>1. CASE Call
  <2>1. Begins(todo')
    BY <1>1, CallBegins
  <2>2. ASSUME Len(todo') > 1, todo' # <<>>
        PROVE  ~(Head(todo') = "wait") /\ ~(Head(todo') = "drain" /\ todo'[2] = "frame")
    <3>1. Head(todo') = todo'[1] /\ Len(todo') \in Nat /\ 1 \in 1 .. Len(todo') - 1
      BY <2>1, <2>2 DEF Begins, IsScript, IsChain
    <3>2. <<todo'[1], todo'[1 + 1]>> \in Follows
      BY <2>1, <3>1 DEF Begins, IsScript, IsChain
    <3>3. todo'[1] \in {"wait", "drain"} => todo'[2] \in {"lock", "signal"}
      BY <2>1, <2>2, <3>1 DEF Begins
    <3>. QED BY <3>1, <3>2, <3>3 DEF Follows
  <2>. QED BY <2>2 DEF Waiting, Doing
<1>2. ASSUME NEW cmd \in Command, Posts(cmd) PROVE Waiting'
  <2>1. /\ todo' = Tail(todo) /\ UNCHANGED <<threaded, rpc, running>> /\ Post(cmd)
        /\ enqueued' = enqueued + Units(cmd)
    BY <1>2 DEF Posts, Posted
  <2>2. ASSUME cmd.op \in {"flush", "signal"} PROVE LastIs(cmd)'
    <3>1. CASE threaded
      <4>1. queue' = Append(queue, cmd) /\ queue \in Seq(Command)
        BY <2>1, <3>1 DEF Post, TypeOK
      <4>2. queue' # <<>> /\ queue'[Len(queue')] = cmd
        <5>1. Len(queue') = Len(queue) + 1 /\ queue'[Len(queue) + 1] = cmd
          BY <4>1
        <5>. QED BY <4>1, <5>1
      <4>. QED BY <4>2 DEF LastIs, Quiet
    <3>2. CASE ~threaded
      <4>1. queue = <<>> /\ queue' = <<>> /\ rpc = "off" /\ rpc' = "off" /\ Execute(cmd)
        BY <2>1, <3>2 DEF Post, Alone
      <4>2. submitted' = executed /\ executed = enqueued
        <5>1. Quiet
          BY <4>1 DEF Quiet
        <5>. QED BY <2>2, <4>1, <5>1, ExecuteGrows, QuietLedger DEF Ledger
      <4>3. enqueued' = enqueued
        <5>1. Units(cmd) = 0
          BY <2>2 DEF Units
        <5>2. enqueued + 0 = enqueued
          BY DEF TypeOK
        <5>. QED BY <2>1, <5>1, <5>2
      <4>. QED BY <4>1, <4>2, <4>3 DEF LastIs, Quiet
    <3>. QED BY <3>1, <3>2
  <2>3. CASE todo' = <<>>
    BY <2>3 DEF Waiting, Doing
  <2>4. CASE todo' # <<>> /\ Doing("signal")
    <3>1. /\ cmd = MetaSignal(timeline_value') /\ timeline_value' = timeline_value + 1
          /\ index' = timeline_value' /\ covers' = Append(covers, enqueued)
      BY <1>2, <2>4 DEF Posts, Doing
    <3>2. timeline_value' > 0 /\ covers'[timeline_value'] = enqueued
      BY <3>1 DEF TypeOK
    <3>3. cmd.op = "signal" /\ enqueued' = enqueued
      BY <2>1, <3>1 DEF MetaSignal, Units, TypeOK
    <3>4. LastIs(MetaSignal(timeline_value))'
      BY <2>2, <3>1, <3>3 DEF LastIs
    <3>5. Head(todo') = "wait"
      BY <2>1, <2>4, Heads
    <3>. QED BY <3>1, <3>2, <3>3, <3>4, <3>5 DEF Waiting, Doing
  <2>5. CASE todo' # <<>> /\ Doing("flush")
    <3>1. cmd = MetaFlush /\ cmd.op = "flush"
      BY <1>2, <2>5 DEF Posts, Doing, MetaFlush
    <3>2. LastIs(MetaFlush)'
      BY <2>2, <3>1 DEF LastIs, MetaFlush
    <3>3. Head(todo') # "wait"
      BY <2>1, <2>5, Heads
    <3>. QED BY <3>2, <3>3 DEF Waiting, Doing
  <2>6. CASE todo' # <<>> /\ ~Doing("signal") /\ ~Doing("flush")
    <3>1. PICK x \in {"work", "sync", "exit"} : Doing(x)
      BY <1>2, <2>6 DEF Posts
    <3>2. Head(todo') \in {"close", "join"}
      BY <2>1, <2>6, <3>1, Heads
    <3>. QED BY <3>2 DEF Waiting, Doing
  <2>. QED BY <2>3, <2>4, <2>5, <2>6
<1>3. ASSUME RingPop \/ RingRun \/ (Elsewhere /\ UNCHANGED todo),
             UNCHANGED <<todo, index, timeline_value, covers, enqueued>>
      PROVE  Waiting'
  <2>1. ASSUME NEW cmd, cmd.op \in {"flush", "signal"}, LastIs(cmd)
        PROVE  /\ queue' # <<>> => queue'[Len(queue')] = cmd
               /\ queue' = <<>> /\ rpc' = "run" => running' = cmd
               /\ Quiet' => submitted' = enqueued'
    BY <1>3, <2>1, LastStays
  <2>2. MetaFlush.op = "flush" /\ MetaSignal(timeline_value).op = "signal"
    BY DEF MetaFlush, MetaSignal
  <2>3. LastIs(MetaFlush) => LastIs(MetaFlush)'
    BY <2>1, <2>2 DEF LastIs, MetaFlush
  <2>4. LastIs(MetaSignal(timeline_value)) => LastIs(MetaSignal(timeline_value))'
    <3>1. PICK cmd : cmd = MetaSignal(timeline_value)
      OBVIOUS
    <3>2. MetaSignal(timeline_value') = cmd
      BY <1>3, <3>1
    <3>. QED BY <2>1, <2>2, <3>1, <3>2 DEF LastIs
  <2>. QED BY <1>3, <2>3, <2>4 DEF Waiting, Doing
<1>4. CASE RingPop \/ RingRun
  BY <1>3, <1>4 DEF RingPop, RingRun
<1>5. CASE RingTimeout \/ IdleLock \/ IdleKick \/ Perform \/ Complete \/ Terminated
  <2>1. UNCHANGED <<todo, index, timeline_value, covers, enqueued>>
    BY <1>5 DEF RingTimeout, IdleLock, IdleKick, Perform, Complete, Terminated, vars
  <2>2. Elsewhere \/ RingPop \/ RingRun \/ \E cmd \in Command : Posts(cmd)
    BY MoveStep
  <2>. QED BY <1>2, <1>3, <2>1, <2>2
<1>6. CASE PostWork \/ PostFlush \/ PostSignal \/ PostSentinel
  BY <1>2, <1>6, PostsAre
<1>7. CASE \/ WaitForTimeline \/ Drain \/ Snapshot \/ UseDevice \/ StopWorker \/ JoinRing
           \/ LockCommandProcessing \/ Render \/ UnlockCommandProcessing
  <2>1. /\ todo' = Tail(todo)
        /\ \E x \in {"wait", "drain", "open", "snapshot", "close", "scan", "frame", "stop", "join",
                     "lock", "render", "unlock"} : Doing(x)
    BY <1>7 DEF WaitForTimeline, Drain, Snapshot, UseDevice, StopWorker, JoinRing,
       LockCommandProcessing, Render, UnlockCommandProcessing, Done
  <2>2. todo' # <<>> => Head(todo') \notin {"wait", "drain"}
    BY <2>1, Heads
  <2>. QED BY <2>2 DEF Waiting, Doing
<1>. QED BY <1>1, <1>4, <1>5, <1>6, <1>7 DEF Next, Progress, RingStep

Settled == {"unlock", "scan", "frame", "stop", "exit", "join", "gone"}

LEMMA SettledLedger ==
    ASSUME TypeOK, Ledger, Alone, Current, At(Settled)
    PROVE  executed = enqueued /\ submitted = enqueued /\ rpc # "run"
<1>1. CASE At({"unlock", "scan", "frame", "stop", "exit"})
  <2>1. Quiet
    BY <1>1 DEF Alone, At
  <2>. QED BY <2>1, QuietLedger DEF Current, Settled, Quiet
<1>2. CASE At({"join", "gone"})
  BY <1>2 DEF Current, Settled, Alone
<1>. QED BY <1>1, <1>2 DEF At, Settled

LEMMA CurrentStep ==
    ASSUME TypeOK, TypeOK', Scripted, Ledger, Ordered, Waiting, Alone, Fenced, Covered, Current, Next
    PROVE  Current'
<1>. DEFINE Want == /\ At({"open", "snapshot"}) => Seen(enqueued)
                    /\ At(Settled) => submitted = enqueued
                    /\ At({"join", "gone"}) => executed = enqueued
                    /\ ~worker_alive => At({"exit", "join", "gone"})
<1>0. Want /\ (Want' => Current')
  BY DEF Current, Settled
<1>. HIDE DEF Want
<1>a. ASSUME UNCHANGED enqueued, Seen(enqueued) PROVE Seen(enqueued)'
  <2>1. PICK n : n = enqueued
    OBVIOUS
  <2>2. Seen(n)'
    BY <1>a, <2>1, SeenStays
  <2>. QED BY <1>a, <2>1, <2>2 DEF Seen
<1>b. /\ MetaFlush \in Command /\ MetaFlush.op = "flush" /\ (ExecuteFlush => Execute(MetaFlush))
      /\ submitted <= executed
  BY CommandTypes DEF Execute, MetaFlush, Ledger
<1>1. CASE Call
  <2>1. Begins(todo')
    BY <1>1, CallBegins
  <2>2. todo = <<>> /\ UNCHANGED worker_alive /\ Head(todo') \in {"work", "sync", "signal", "wait", "flush", "drain"}
    <3>1. Head(todo') = todo'[1]
      BY <2>1 DEF Begins, IsScript, IsChain
    <3>. QED BY <1>1, <2>1, <3>1 DEF Call, Begins
  <2>3. worker_alive
    BY <2>2 DEF Current, At
  <2>. QED BY <2>2, <2>3 DEF Current, At
<1>2. CASE PostWork \/ PostFlush \/ PostSignal
  <2>1. PICK x \in {"work", "sync", "flush", "signal"} : Doing(x)
    BY <1>2 DEF PostWork, PostFlush, PostSignal
  <2>2. todo' = Tail(todo) /\ UNCHANGED worker_alive
    BY <1>2 DEF PostWork, PostFlush, PostSignal, Posted
  <2>3. worker_alive
    BY <2>1 DEF Current, At, Doing
  <2>4. todo' # <<>> => Head(todo') \in {"close", "signal", "drain", "wait"}
    BY <2>1, <2>2, Heads
  <2>. QED BY <2>2, <2>3, <2>4 DEF Current, At
<1>3. CASE PostSentinel
  <2>1. Doing("exit") /\ Post(Sentinel) /\ todo' = Tail(todo) /\ UNCHANGED <<enqueued, worker_alive>>
    BY <1>3 DEF PostSentinel, Posted
  <2>2. UNCHANGED <<executed, submitted>>
    BY <2>1 DEF Post, Execute, Sentinel
  <2>3. executed = enqueued /\ submitted = enqueued
    BY <2>1, SettledLedger DEF At, Doing, Settled
  <2>4. todo' # <<>> /\ Head(todo') = "join"
    BY <2>1, Heads, Lasts DEF Last
  <2>. QED BY <2>1, <2>2, <2>3, <2>4 DEF Current, At
<1>4. CASE WaitForTimeline
  <2>1. /\ Doing("wait") /\ thread_timeline_value >= index /\ todo' = Tail(todo)
        /\ UNCHANGED <<enqueued, submitted, executed, worker_alive>>
    BY <1>4 DEF WaitForTimeline, Done
  <2>2. worker_alive
    BY <2>1 DEF Current, At, Doing
  <2>3. CASE todo' = <<>>
    BY <2>1, <2>2, <2>3 DEF Current, At
  <2>4. CASE todo' # <<>>
    <3>1. Len(todo) > 1 /\ Head(todo') \in {"open", "snapshot", "stop"}
      BY <2>1, <2>4, Heads, Advances
    <3>2. submitted = enqueued /\ Seen(enqueued)
      BY <2>1, <3>1, WaitedForAll
    <3>3. Seen(enqueued)'
      BY <1>a, <2>1, <3>2
    <3>. QED BY <2>1, <2>2, <3>1, <3>2, <3>3 DEF Current, At
  <2>. QED BY <2>3, <2>4
<1>5. CASE Drain
  <2>1. /\ Doing("drain") /\ Quiet /\ todo' = Tail(todo)
        /\ UNCHANGED <<enqueued, submitted, executed, worker_alive>>
    BY <1>5 DEF Drain, Done, Quiet
  <2>2. worker_alive
    BY <2>1 DEF Current, At, Doing
  <2>3. todo' # <<>> /\ Head(todo') \in {"signal", "lock", "frame"} /\ Head(todo') = todo[2] /\ Len(todo) > 1
    BY <2>1, Heads, Lasts, Advances DEF Last
  <2>4. Head(todo') = "frame" => submitted = enqueued
    BY <2>1, <2>3 DEF Waiting, LastIs
  <2>. QED BY <2>1, <2>2, <2>3, <2>4 DEF Current, At
<1>6. CASE Snapshot \/ LockCommandProcessing
  <2>1. PICK x \in {"open", "snapshot", "close", "lock"} : Doing(x)
    BY <1>6 DEF Snapshot, LockCommandProcessing
  <2>2. todo' = Tail(todo) /\ UNCHANGED <<enqueued, worker_alive>>
    BY <1>6 DEF Snapshot, LockCommandProcessing, Done
  <2>3. worker_alive
    BY <2>1 DEF Current, At, Doing
  <2>4. todo' # <<>> => Head(todo') \in {"work", "sync", "lock", "render"}
    BY <2>1, <2>2, Heads
  <2>. QED BY <2>2, <2>3, <2>4 DEF Current, At
<1>7. CASE Render
  <2>1. Doing("render") /\ todo' = Tail(todo) /\ ExecuteFlush /\ UNCHANGED <<enqueued, worker_alive>>
    BY <1>7 DEF Render, Done
  <2>2. worker_alive
    BY <2>1 DEF Current, At, Doing
  <2>3. submitted' = enqueued
    <3>1. Quiet
      BY <2>1 DEF Alone, At, Doing
    <3>. QED BY <1>b, <2>1, <3>1, ExecuteGrows, QuietLedger
  <2>4. todo' # <<>> => Head(todo') = "unlock"
    BY <2>1, Heads
  <2>. QED BY <2>1, <2>2, <2>3, <2>4 DEF Current, At
<1>8. CASE UnlockCommandProcessing \/ UseDevice \/ StopWorker \/ JoinRing
  <2>1. PICK x \in {"unlock", "scan", "frame", "stop", "join"} : Doing(x)
    BY <1>8 DEF UnlockCommandProcessing, UseDevice, StopWorker, JoinRing
  <2>2. todo' = Tail(todo) /\ UNCHANGED <<enqueued, submitted, executed>>
    BY <1>8 DEF UnlockCommandProcessing, UseDevice, StopWorker, JoinRing, Done
  <2>3. submitted = enqueued /\ executed = enqueued
    BY <2>1, SettledLedger DEF At, Doing, Settled
  <2>4. todo' # <<>> => Head(todo') \in {"scan", "exit", "gone"}
    BY <2>1, <2>2, Heads
  <2>5. ~worker_alive' => At({"exit", "join", "gone"})'
    <3>1. CASE Doing("stop")
      <4>1. todo' # <<>> /\ Head(todo') = "exit"
        BY <2>2, <3>1, Heads, Lasts DEF Last
      <4>. QED BY <4>1 DEF At
    <3>2. CASE Doing("join")
      <4>1. todo' # <<>> /\ Head(todo') = "gone"
        BY <2>2, <3>2, Heads, Lasts DEF Last
      <4>. QED BY <4>1 DEF At
    <3>3. CASE ~Doing("stop") /\ ~Doing("join")
      <4>1. worker_alive
        BY <2>1, <3>3 DEF Current, At, Doing
      <4>2. UNCHANGED worker_alive
        BY <1>8, <3>3 DEF UnlockCommandProcessing, UseDevice, StopWorker, JoinRing
      <4>. QED BY <4>1, <4>2
    <3>. QED BY <3>1, <3>2, <3>3
  <2>. QED BY <2>2, <2>3, <2>4, <2>5 DEF Current, At
<1>9. CASE RingStep \/ Perform \/ Complete \/ Terminated
  <2>1. UNCHANGED <<todo, enqueued, worker_alive>>
    BY <1>9 DEF RingStep, RingPop, RingRun, RingTimeout, IdleLock, IdleKick, Perform, Complete,
       Terminated, vars
  <2>2. At({"open", "snapshot"}) => Seen(enqueued)'
    BY <1>a, <2>1 DEF Current
  <2>3. At(Settled) => submitted' = enqueued /\ executed' = executed /\ executed = enqueued
    <3>1. SUFFICES ASSUME At(Settled) PROVE submitted' = enqueued /\ executed' = executed /\ executed = enqueued
      OBVIOUS
    <3>2. executed = enqueued /\ submitted = enqueued /\ rpc # "run"
      BY <3>1, SettledLedger
    <3>3. CASE UNCHANGED <<submitted, executed>>
      BY <3>2, <3>3
    <3>4. CASE ExecuteFlush
      <4>1. submitted' = executed /\ executed' = executed
        BY <1>b, <3>4, ExecuteGrows DEF ExecuteFlush
      <4>. QED BY <3>2, <4>1
    <3>5. UNCHANGED <<submitted, executed>> \/ ExecuteFlush
      BY <1>9, <3>2 DEF RingStep, RingPop, RingRun, RingTimeout, IdleLock, IdleKick, Perform, Complete,
       Terminated, vars
    <3>. QED BY <3>3, <3>4, <3>5
  <2>. QED BY <2>1, <2>2, <2>3 DEF Current, At, Settled
<1>. QED BY <1>1, <1>2, <1>3, <1>4, <1>5, <1>6, <1>7, <1>8, <1>9 DEF Next, Progress

-----------------------------------------------------------------------------
(* The invariant holds, and what follows from it.                          *)

LEMMA InitInv == Init => IInv
<1>. SUFFICES ASSUME Init PROVE IInv
  OBVIOUS
<1>. USE DEF Init
<1>2. TypeOK
  <2>1. running \in Command /\ rpc \in {"poll", "off"}
    BY CommandTypes
  <2>2. todo \in Seq(Step) /\ queue \in Seq(Command)
    OBVIOUS
  <2>3. submissions \in Seq(Nat) /\ ops \in Seq(Op) /\ covers \in Seq(Nat)
    OBVIOUS
  <2>4. Len(ops) = 0 /\ Len(covers) = timeline_value /\ ops_done \in 0 .. 0
    OBVIOUS
  <2>5. /\ threaded \in BOOLEAN /\ dumping \in BOOLEAN /\ in_list \in BOOLEAN /\ worker_alive \in BOOLEAN
        /\ idle_lock \in {"free", "caller", "ring"}
    OBVIOUS
  <2>6. /\ index = 0 /\ timeline_value = 0 /\ executed = 0 /\ submitted = 0 /\ gpu_done = 0
        /\ thread_timeline_value = 0 /\ enqueued = 0 /\ calls = 0
    OBVIOUS
  <2>. QED
    <3>. HIDE DEF Init
    <3>. QED BY <2>1, <2>2, <2>3, <2>4, <2>5, <2>6 DEF TypeOK
<1>3. Scripted
  BY DEF Scripted, IsScript, IsChain
<1>4. Ledger
  <2>. DEFINE g == [i \in 1 .. 1 |-> 0]
  <2>1. /\ g \in [1 .. 1 -> Nat] /\ g[1] = 0 /\ Len(queue) = 0 /\ Len(queue) + 1 = 1 /\ InHand = 0
        /\ executed + 0 = 0 /\ \A i \in 1 .. 0 : FALSE
    BY DEF InHand
  <2>. HIDE DEF g
  <2>2. Tally(g)
    BY <2>1 DEF Tally
  <2>. QED BY <2>2 DEF Ledger
<1>5. Ordered
  BY DEF Ordered
<1>6. Waiting
  BY DEF Waiting, Doing
<1>7. Alone /\ Locked
  BY DEF Alone, Locked, At
<1>8. Fenced /\ Covered
  BY DEF Fenced, Fresh, Before, Covered
<1>9. Current
  BY DEF Current, At
<1>. QED BY <1>2, <1>3, <1>4, <1>5, <1>6, <1>7, <1>8, <1>9 DEF IInv

LEMMA StepInv == IInv /\ [Next]_vars => IInv'
<1>1. CASE UNCHANGED vars
  <2>1. ASSUME IInv, UNCHANGED vars PROVE IInv'
    <3>. USE <2>1 DEF vars
    <3>1. TypeOK' /\ Scripted'
      BY DEF IInv, TypeOK, Scripted
    <3>2. Ledger' /\ Ordered'
      BY DEF IInv, Ledger, Tally, InHand, Ordered, Pending
    <3>3. Waiting' /\ Alone' /\ Locked'
      BY DEF IInv, Waiting, LastIs, Quiet, Doing, Alone, At, Locked
    <3>4. Fenced' /\ Covered' /\ Current'
      BY DEF IInv, Fenced, Fresh, Before, Covered, Current, Seen, At
    <3>. QED BY <3>1, <3>2, <3>3, <3>4 DEF IInv
  <2>. QED BY <1>1, <2>1
<1>2. ASSUME IInv, Next PROVE IInv'
  <2>. USE <1>2 DEF IInv
  <2>1. TypeOK' /\ Scripted'
    BY TypeStep, ScriptStep
  <2>2. Ledger'
    BY <2>1, LedgerStep
  <2>3. Ordered'
    BY <2>1, OrderedStep
  <2>4. Waiting'
    BY <2>1, WaitingStep
  <2>5. Alone' /\ Locked'
    BY AloneStep, LockedStep
  <2>6. Fenced' /\ Covered'
    BY <2>1, FencedStep, CoveredStep
  <2>7. Current'
    BY <2>1, CurrentStep
  <2>. QED BY <2>1, <2>2, <2>3, <2>4, <2>5, <2>6, <2>7
<1>. QED BY <1>1, <1>2

(* Every state of the processor that can be reached satisfies it.          *)
THEOREM Inductive == Spec => []IInv
<1>1. Init => IInv
  BY InitInv
<1>2. IInv /\ [Next]_vars => IInv'
  BY StepInv
<1>. QED BY <1>1, <1>2, PTL DEF Spec

(* The renderer, which has no lock, and the device, which the idle ring    *)
(* thread may use as well, belong to the caller alone when it uses them:   *)
(* however many commands are queued when it calls scanout() (rdp_device's  *)
(* drain and lock_command_processing).                                     *)
THEOREM CallerIsAlone == Spec => []CallerAlone
<1>1. IInv => CallerAlone
  <2>1. ASSUME IInv PROVE RendererExclusive
    <3>1. Doing("render") => rpc # "run" /\ idle_lock = "caller"
      BY <2>1 DEF IInv, Doing, Alone, At, Quiet, Locked
    <3>. QED BY <2>1, <3>1 DEF IInv, RendererExclusive, Locked
  <2>2. ASSUME IInv PROVE DeviceQuiet
    <3>1. Doing("scan") \/ Doing("frame") => At(Settled)
      BY DEF Doing, At, Settled
    <3>. QED BY <2>2, <3>1, SettledLedger DEF IInv, DeviceQuiet
  <2>. QED BY <2>1, <2>2 DEF CallerAlone
<1>. QED BY <1>1, Inductive, PTL

(* Whoever waits for a signal, or dumps RDRAM, sees the results of all the *)
(* work that was enqueued before: through ring, renderer, GPU and worker.  *)
THEOREM ResultsAreSeen == Spec => []ResultsSeen
<1>1. ASSUME IInv PROVE ResultsSeen
  <2>1. ASSUME NEW v \in 1 .. thread_timeline_value PROVE Seen(covers[v])
    <3>1. /\ thread_timeline_value \in Nat /\ timeline_value \in Nat
          /\ thread_timeline_value # 0 /\ thread_timeline_value <= timeline_value
      BY <1>1 DEF IInv, TypeOK, Covered
    <3>2. v \in 1 .. timeline_value /\ thread_timeline_value \in 1 .. timeline_value /\ v <= thread_timeline_value
      <4>1. \A a, b \in Nat : b # 0 /\ b <= a => b \in 1 .. a /\ \A u \in 1 .. b : u \in 1 .. a /\ u <= b
        OBVIOUS
      <4>. QED BY <3>1, <4>1
    <3>3. Seen(covers[thread_timeline_value]) /\ covers[v] <= covers[thread_timeline_value]
      <4>1. Covered
        BY <1>1 DEF IInv
      <4>. QED BY <3>1, <3>2, <4>1 DEF Covered
    <3>4. covers[v] \in Nat /\ covers[thread_timeline_value] \in Nat
      <4>1. covers \in Seq(Nat) /\ Len(covers) = timeline_value
        BY <1>1 DEF IInv, TypeOK
      <4>2. \A u \in 1 .. timeline_value : covers[u] \in Nat
        BY <4>1
      <4>. QED BY <3>2, <4>2
    <3>5. CASE covers[thread_timeline_value] = 0
      BY <3>3, <3>4, <3>5 DEF Seen
    <3>6. CASE covers[thread_timeline_value] # 0
      <4>1. PICK i \in 1 .. ops_done : ops[i].fence # 0 /\ submissions[ops[i].fence] >= covers[thread_timeline_value]
        BY <3>3, <3>6 DEF Seen
      <4>2. ops[i].fence \in 1 .. Len(submissions)
        <5>1. i \in 1 .. Len(ops)
          BY <1>1 DEF IInv, TypeOK
        <5>2. ops[i] \in Op /\ ops[i].fence <= Len(submissions)
          BY <1>1, <5>1 DEF IInv, TypeOK, Fenced
        <5>. QED BY <1>1, <4>1, <5>2 DEF Op, IInv, TypeOK
      <4>3. submissions[ops[i].fence] \in Nat
        BY <1>1, <4>2 DEF IInv, TypeOK
      <4>4. submissions[ops[i].fence] >= covers[v]
        BY <3>3, <3>4, <4>1, <4>3
      <4>. QED BY <4>1, <4>4 DEF Seen
    <3>. QED BY <3>5, <3>6
  <2>2. SnapshotCurrent
    BY <1>1 DEF IInv, Current, SnapshotCurrent, Doing, At
  <2>. QED BY <2>1, <2>2 DEF ResultsSeen, SignalCovers
<1>. QED BY <1>1, Inductive, PTL

(* Nothing is pushed to the timeline worker once it has been destroyed,    *)
(* although the ring thread, which outlives it, may still find itself idle *)
(* and flush: idle() has left it nothing to submit.                        *)
THEOREM DestroyedSafely == Spec => NoPushAfterDestruction
<1>1. ASSUME IInv, [Next]_vars, ~worker_alive PROVE ops' = ops
  <2>. USE <1>1 DEF IInv
  <2>1. At({"exit", "join", "gone"}) /\ At(Settled)
    BY DEF Current, At, Settled
  <2>2. executed = submitted /\ rpc # "run" /\ submitted \in Nat /\ ops \in Seq(Op)
    BY <2>1, SettledLedger DEF TypeOK
  <2>3. ExecuteFlush => ops' = ops
    <3>1. ops \o <<>> = ops
      BY <2>2, ConcatEmptySeq
    <3>2. ~(executed > submitted)
      BY <2>2
    <3>. QED BY <3>1, <3>2 DEF ExecuteFlush, Submit
  <2>4. CASE PostSentinel
    BY <2>4 DEF PostSentinel, Post, Execute, Sentinel
  <2>5. CASE Call \/ PostWork \/ PostFlush \/ PostSignal \/ Render
    BY <2>1, <2>5 DEF Call, PostWork, PostFlush, PostSignal, Render, Doing, At
  <2>6. CASE \/ WaitForTimeline \/ Drain \/ Snapshot \/ UnlockCommandProcessing \/ UseDevice
             \/ StopWorker \/ JoinRing \/ LockCommandProcessing
    BY <2>6 DEF WaitForTimeline, Drain, Snapshot, UnlockCommandProcessing, UseDevice, StopWorker,
       JoinRing, LockCommandProcessing
  <2>7. CASE RingStep
    BY <2>2, <2>3, <2>7 DEF RingStep, RingPop, RingRun, RingTimeout, IdleLock, IdleKick
  <2>8. CASE Perform \/ Complete \/ Terminated \/ UNCHANGED vars
    BY <2>8 DEF Perform, Complete, Terminated, vars
  <2>. QED BY <2>4, <2>5, <2>6, <2>7, <2>8 DEF Next, Progress
<1>2. IInv /\ [Next]_vars => [~worker_alive => ops' = ops]_vars
  BY <1>1
<1>. QED BY <1>2, Inductive, PTL DEF Spec, NoPushAfterDestruction
=============================================================================
