------------------------------- MODULE DumpReplay ------------------------------
(***************************************************************************)
(* A CommandProcessor that dumps (rdp_device, RDPDumpWriter), the dump,    *)
(* and what reads it: DumpPlayer, which replays it into a reference and    *)
(* into this renderer side by side, for rdp-validate-dump, which compares  *)
(* them, or for rdp-replayer, which may rewind.                            *)
(*                                                                         *)
(* The processor that dumps is one whose RDRAM the host sees.  A device is *)
(* its memories, in blocks of 4 KiB, TMEM as one value and the registers   *)
(* of the VI as one value.  A dump is a sequence of records; a crash of    *)
(* the process that writes it leaves a part of them.  Records also hold    *)
(* what the device was like ("was"), for the properties only.              *)
(***************************************************************************)
EXTENDS Naturals, Sequences, FiniteSets

CONSTANTS
    Blocks,             \* of each memory, 1 .. n
    Textures,           \* blocks of RDRAM that textures are loaded from
    Values,             \* the largest value
    MaxCalls,           \* bound: calls that the emulator makes
    MaxRewinds          \* bound: rewinds of the viewer

ASSUME BlocksAssumption == Textures \subseteq Blocks /\ \E n \in Blocks : Blocks = 1 .. n
ASSUME NumAssumption == {Values, MaxCalls, MaxRewinds} \subseteq Nat /\ Values > 0

VARIABLES
    dev, queue,         \* the device of the emulator, and commands enqueued and not executed
    open,               \* dump_in_command_list
    cache,              \* rdp_dram_cache, rdp_hidden_dram_cache
    file,
    host, touched,      \* blocks written by the host since the last flush; any in an open list
    calls, phase,
    user,               \* who reads the dump and how
    at, player_cache,   \* DumpPlayer: the next record, rdram_cache and rdram_hidden_cache
    drivers, wrong,     \* the devices replayed into; whether one was wrong where it is compared
    seen, last,         \* counters of context 1, as they are and as the validator has read them
    is_eof, failed, result, rewinds

recorder == <<dev, queue, open, cache, host, touched, calls>>
replay == <<at, player_cache, drivers, wrong, seen, last, is_eof, failed, result, rewinds>>
vars == <<recorder, file, phase, user, replay>>
-----------------------------------------------------------------------------
Memories == {"rdram", "hidden"}
Zero == [m \in Memories |-> [b \in Blocks |-> 0]]
\* clear_hidden_rdram: hidden bits start set.
NewDevice == [mem |-> [m \in Memories |-> [b \in Blocks |-> IF m = "hidden" THEN 1 ELSE 0]], tmem |-> 0, vi |-> 0]
More(v, n) == (v + n) % (Values + 1)

\* Commands: a load into TMEM, a draw with what is there, and SyncFull, which changes nothing.
Commands == [op : {"load"}, block : Textures] \union [op : {"draw"}, block : Blocks] \union {[op |-> "sync"]}
Executed(d, cmd, wrongly) ==
    CASE cmd.op = "load" -> [d EXCEPT !.tmem = IF wrongly THEN More(d.mem.rdram[cmd.block], 1) ELSE d.mem.rdram[cmd.block]]
      [] cmd.op = "draw" -> [d EXCEPT !.mem.rdram[cmd.block] = More(@, d.tmem + (IF wrongly THEN 2 ELSE 1)),
                                      !.mem.hidden[cmd.block] = More(@, 1)]
      [] OTHER -> d

(* The records of a dump: the blocks that are not as in the cache, and a   *)
(* flush.                                                                  *)
Ascending(blocks) ==
    CHOOSE s \in [1 .. Cardinality(blocks) -> blocks] : \A i, j \in DOMAIN s : i < j => s[i] < s[j]
Changed(m) == {b \in Blocks : dev.mem[m][b] # cache[m][b]}
Flush(m) ==
    LET blocks == Ascending(Changed(m))
    IN  [i \in 1 .. Len(blocks) |-> [rec |-> "update", of |-> m, block |-> blocks[i], data |-> dev.mem[m][blocks[i]]]]
        \o <<[rec |-> "flush", of |-> m, was |-> dev, host |-> host, touched |-> touched]>>
FlushAll == Flush("rdram") \o Flush("hidden")
Flushed == cache' = dev.mem /\ host' = {}
\* wait_for_timeline(signal_timeline())
Idle == queue = <<>>
-----------------------------------------------------------------------------
Init ==
    /\ dev = NewDevice /\ queue = <<>> /\ open = FALSE /\ cache = Zero
    /\ file = <<>> /\ host = {} /\ touched = FALSE /\ calls = 0 /\ phase = "record"
    /\ user = [tool |-> "none"]
    /\ at = 1 /\ player_cache = Zero /\ drivers = <<NewDevice, NewDevice>> /\ wrong = FALSE
    /\ seen = [draws |-> 0, frames |-> 0, syncs |-> 0] /\ last = seen
    /\ is_eof = FALSE /\ failed = FALSE /\ result = "none" /\ rewinds = 0

Call == phase = "record" /\ calls < MaxCalls /\ calls' = calls + 1 /\ UNCHANGED <<phase, user, replay>>

(* CommandProcessor::enqueue_command.  Opening a list waits, so that the   *)
(* dump has what the device has.                                           *)
Opens == open \/ Idle
Enqueue(cmd) ==
    /\ Call
    /\ Opens
    /\ queue' = Append(queue, cmd)
    /\ file' = file \o (IF open THEN <<>> ELSE FlushAll)
                    \o <<IF cmd.op = "sync" THEN [rec |-> "complete"] ELSE [rec |-> "command", cmd |-> cmd]>>
    /\ IF open THEN UNCHANGED <<cache, host>> ELSE Flushed
    /\ open' = (cmd.op # "sync")
    /\ UNCHANGED <<dev, touched>>

\* The ring, the renderer and the GPU.
Execute ==
    /\ phase = "record" /\ queue # <<>>
    /\ dev' = Executed(dev, Head(queue), FALSE)
    /\ queue' = Tail(queue)
    /\ UNCHANGED <<open, cache, file, host, touched, calls, phase, user, replay>>

\* The emulator writes memory when it has waited, in a list too.
HostWrite(b) ==
    /\ Call
    /\ Idle
    /\ dev' = [dev EXCEPT !.mem.rdram[b] = More(@, 1)]
    /\ host' = host \union {b}
    /\ touched' = (touched \/ open)
    /\ UNCHANGED <<queue, open, cache, file>>

SetViRegister ==
    /\ Call
    /\ dev' = [dev EXCEPT !.vi = More(@, 1)]
    /\ file' = Append(file, [rec |-> "vi", value |-> dev'.vi])
    /\ UNCHANGED <<queue, open, cache, host, touched>>

Scanout ==
    /\ Call
    /\ Idle
    /\ file' = file \o FlushAll \o <<[rec |-> "end_frame", was |-> dev]>>
    /\ Flushed
    /\ UNCHANGED <<dev, queue, open, touched>>

(* The reader: the validator, which may compare after draws or after       *)
(* syncs, from a frame on, with a renderer that gets some commands wrong;  *)
(* or the viewer.                                                          *)
Users ==
    [tool : {"validator"}, sync_only : BOOLEAN, begin_frame : {0}, faulty : {{}, {"draw"}, {"load"}}]
    \union [tool : {"validator"}, sync_only : {FALSE}, begin_frame : {1}, faulty : {{}, {"draw"}, {"load"}}]
    \union [tool : {"viewer"}, faulty : {{}}]

\* Nothing of the recorder is left.
Gone == /\ dev' = NewDevice /\ queue' = <<>> /\ open' = FALSE /\ cache' = Zero
        /\ host' = {} /\ touched' = FALSE /\ calls' = 0
\* ~CommandProcessor is idle first; ~RDPDumpWriter ends the dump, without a flush.
End ==
    /\ phase = "record" /\ Idle
    /\ file' = Append(file, [rec |-> "eof"])
    /\ phase' = "replay" /\ user' \in Users
    /\ Gone
    /\ UNCHANGED replay
\* A record that is cut is not read either.
Crash ==
    /\ phase = "record"
    /\ \E n \in 0 .. Len(file) : file' = SubSeq(file, 1, n)
    /\ phase' = "replay" /\ user' \in Users
    /\ Gone
    /\ UNCHANGED replay
-----------------------------------------------------------------------------
Faulty(cmd) == cmd.op \in user.faulty
\* What a driver makes of a record.
Replayed(d, r, second) ==
    CASE r.rec = "flush" -> [d EXCEPT !.mem[r.of] = player_cache[r.of]]
      [] r.rec = "command" -> Executed(d, r.cmd, second /\ Faulty(r.cmd))
      [] r.rec = "vi" -> [d EXCEPT !.vi = r.value]
      [] OTHER -> d
\* SideBySideDriver hands every call to both.
SideBySide(r) == [i \in 1 .. 2 |-> Replayed(drivers[i], r, i = 2)]
\* Interface, for the second context.
Counted(r) ==
    CASE r.rec = "command" /\ r.cmd.op = "draw" -> [seen EXCEPT !.draws = @ + 1]
      [] r.rec = "complete" -> [seen EXCEPT !.syncs = @ + 1]
      [] r.rec = "end_frame" -> [draws |-> 0, frames |-> seen.frames + 1, syncs |-> 0]
      [] OTHER -> seen
Differ(d) == d[1].tmem # d[2].tmem \/ d[1].mem # d[2].mem
\* Where the validator compares.
Compared(r) ==
    /\ user.tool = "validator" /\ seen.frames >= user.begin_frame
    /\ IF user.sync_only THEN r.rec = "complete" ELSE r.rec = "command" /\ r.cmd.op = "draw"

\* DumpPlayer::iterate, on a record other than the end.
Apply(r) ==
    /\ player_cache' = IF r.rec = "update" THEN [player_cache EXCEPT ![r.of][r.block] = r.data] ELSE player_cache
    /\ drivers' = SideBySide(r)
    /\ seen' = Counted(r)
    /\ wrong' = (wrong \/ (Compared(r) /\ Differ(drivers')))
    /\ at' = at + 1

AtEnd == at > Len(file)
Record == IF AtEnd THEN [rec |-> "none"] ELSE file[at]
Ending == {"none", "eof"}
(* The loop of the validator goes on until there is something to compare.  *)
(* Mutant: it compares frames only.                                        *)
GoesOnToFrame == ~failed /\ seen.frames = last.frames
GoesOn ==
    /\ ~failed
    /\ seen.frames = last.frames
    /\ IF user.sync_only THEN seen.syncs = last.syncs ELSE seen.draws = last.draws
Validating == phase = "replay" /\ user.tool = "validator" /\ result = "none"

Iterate ==
    /\ Validating /\ GoesOn /\ Record.rec \notin Ending
    /\ Apply(Record)
    /\ UNCHANGED <<last, is_eof, failed, result, rewinds>>
(* The end, or nothing left to be read. *)
EofSeen == is_eof \/ ~AtEnd
IterateFails ==
    /\ Validating /\ GoesOn /\ Record.rec \in Ending
    /\ failed' = TRUE
    /\ is_eof' = EofSeen
    /\ at' = IF AtEnd THEN at ELSE at + 1
    /\ UNCHANGED <<player_cache, drivers, wrong, seen, last, result, rewinds>>
Compare ==
    /\ Validating /\ ~GoesOn
    /\ failed' = FALSE
    /\ last' = seen
    /\ result' = IF seen.frames >= user.begin_frame /\ Differ(drivers) THEN "failure"
                  ELSE IF is_eof THEN "success" ELSE "none"
    /\ UNCHANGED <<at, player_cache, drivers, wrong, seen, is_eof, rewinds>>
Validate == (Iterate \/ IterateFails \/ Compare) /\ UNCHANGED <<recorder, file, phase, user>>

(* The viewer reads until it is at the end, and may rewind.                *)
(* Mutant: the caches stay.                                                *)
RewoundKeeping == player_cache
Rewound == Zero
View ==
    /\ phase = "replay" /\ user.tool = "viewer"
    /\ \/ /\ ~AtEnd /\ file[at].rec # "eof"
          /\ Apply(file[at])
          /\ UNCHANGED rewinds
       \/ /\ rewinds < MaxRewinds
          /\ rewinds' = rewinds + 1
          /\ at' = 1
          /\ player_cache' = Rewound
          /\ UNCHANGED <<drivers, wrong, seen>>
    /\ UNCHANGED <<recorder, file, phase, user, last, is_eof, failed, result>>
-----------------------------------------------------------------------------
Next == \/ \E cmd \in Commands : Enqueue(cmd)
        \/ Execute
        \/ \E b \in Blocks : HostWrite(b)
        \/ SetViRegister \/ Scanout \/ End \/ Crash
        \/ Validate \/ View
Spec == Init /\ [][Next]_vars
-----------------------------------------------------------------------------
(* Whenever memory is handed to the drivers, all of it is what the         *)
(* recorder saw at that point, after a crash and a rewind too.             *)
FlushRestores ==
    phase = "replay" /\ at > 1 /\ file[at - 1].rec = "flush" =>
        \A i \in 1 .. 2 : drivers[i].mem[file[at - 1].of] = file[at - 1].was.mem[file[at - 1].of]

(* Unless the host writes in a list, a first replay makes of the memory    *)
(* what the device made of it: what is handed over is new only where the   *)
(* host wrote.  Frames are shown from the memory and registers they were   *)
(* shown from.                                                             *)
ReplayMatches ==
    phase = "replay" /\ rewinds = 0 =>
        LET r == Record
        IN  /\ r.rec = "flush" /\ ~r.touched =>
                   /\ \A b \in Blocks \ (IF r.of = "rdram" /\ at > 1 THEN r.host ELSE {}) :
                          drivers[1].mem[r.of][b] = r.was.mem[r.of][b]
                   /\ drivers[1].tmem = r.was.tmem
            /\ r.rec = "end_frame" => drivers[1].vi = r.was.vi /\ drivers[1].mem = r.was.mem

(* A replay is given the memory that was recorded, and does with it what   *)
(* the device did.                                                         *)
ReplayIsFaithful == FlushRestores /\ ReplayMatches

(* A dump passes only if all of it was replayed and the two never differed *)
(* after a draw, or after a sync if only those are compared.               *)
ValidatorIsSound == result = "success" => ~wrong /\ file # <<>> /\ file[Len(file)].rec = "eof" /\ AtEnd
=============================================================================
