---------------------------- MODULE MCLifecycle ----------------------------
(* Lifecycle with commands that can be exchanged, up to the first race the *)
(* properties except, and with crashes while a command is left to come.    *)
EXTENDS Lifecycle, TLC

CommandSymmetry == Permutations(Commands)

Explored ==
    /\ ~raced
    /\ crashes = 0 \/ \E c \in Commands : At("command", c, "idle")

\* What a process has read and will not use again tells no states apart.
Used ==
    {"breaking", "checking", "inspecting", "pending", "launching", "recording", "adopting",
     "failing", "updating", "requesting", "waiting", "switching", "linking", "restoring"}
Remembered ==
    LET used == [k \in Kinds |-> [c \in Commands |->
                    IF pc[k][c] \in Used THEN seen[k][c] ELSE None]]
    IN <<operation, pc, used, lock, files, activated, raced, crashes>>

=============================================================================
