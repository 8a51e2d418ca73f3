---------------------------- MODULE WorkFifo ------------------------------
(***************************************************************************)
(* What the two worker threads (CommandRing and WorkerThread) promise to   *)
(* the threads that feed them: an unbounded FIFO whose items are executed  *)
(* one at a time, in the order they were accepted.  Draining returns when  *)
(* everything accepted so far has been executed, and so does closing.      *)
(***************************************************************************)
EXTENDS Sequences, Naturals

CONSTANTS Callers, Command

VARIABLES accepted, executed, phase

vars == <<accepted, executed, phase>>

Phase == {"idle", "put", "drain", "close", "reset", "dead"}

Init == /\ accepted = <<>> /\ executed = <<>>
        /\ phase = [c \in Callers |-> "idle"]

AllExecuted == Len(executed) = Len(accepted)

Goto(c, from, to) == phase[c] \in from /\ phase' = [phase EXCEPT ![c] = to]

\* A caller enters a method.
Call(c) == /\ \E p \in {"put", "drain", "close", "reset", "dead"} :
                    /\ Goto(c, {"idle"}, p)
                    /\ p = "dead" => AllExecuted
           /\ UNCHANGED <<accepted, executed>>

\* A caller may put several items before it returns.
Put(c) == /\ \E p \in {"idle", "put"} : Goto(c, {"put"}, p)
          /\ \E cmd \in Command : accepted' = Append(accepted, cmd)
          /\ UNCHANGED executed

DrainReturn(c) == /\ Goto(c, {"drain"}, "idle") /\ AllExecuted
                  /\ UNCHANGED <<accepted, executed>>

Closed(c) == /\ \E p \in {"reset", "dead"} : Goto(c, {"close"}, p)
             /\ AllExecuted
             /\ UNCHANGED <<accepted, executed>>

Reopen(c) == /\ Goto(c, {"reset"}, "idle") /\ AllExecuted
             /\ accepted' = <<>> /\ executed' = <<>>

Execute == /\ ~AllExecuted
           /\ executed' = Append(executed, accepted[Len(executed) + 1])
           /\ UNCHANGED <<accepted, phase>>

Next == \/ Execute
        \/ \E c \in Callers : Call(c) \/ Put(c) \/ DrainReturn(c) \/ Closed(c) \/ Reopen(c)

Spec == Init /\ [][Next]_vars

\* Every accepted command is executed.
FairSpec == Spec /\ WF_vars(Execute)
=============================================================================
