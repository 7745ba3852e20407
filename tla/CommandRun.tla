------------------------------ MODULE CommandRun ------------------------------
(***************************************************************************)
(* What ssh_task counts on when it runs a command (ssh_driver.h): the      *)
(* stages follow each other or the run fails; reading returns the output   *)
(* from its beginning, in order and without gaps; it ends only when all of *)
(* it has been read.  SshTask is written in these terms.                   *)
(***************************************************************************)
EXTENDS Naturals, Sequences

CONSTANT Lengths    \* how much a command may print

VARIABLES
    stage,
    length,     \* what this command prints
    read        \* what has been read of it

runVars == <<stage, length, read>>

RunInit ==
    /\ stage = "session"
    /\ length \in Lengths
    /\ read = << >>

Advance(from, to) ==
    /\ stage = from /\ stage' = to
    /\ UNCHANGED <<length, read>>

ReadSome ==
    /\ stage = "read"
    /\ \E n \in Len(read)+1..length : read' = [i \in 1..n |-> i]
    /\ UNCHANGED <<stage, length>>

ReadAll == Len(read) = length /\ Advance("read", "close")

GiveUp ==
    /\ stage \notin {"over", "failed"} /\ stage' = "failed"
    /\ UNCHANGED <<length, read>>

RunNext ==
    \/ Advance("session", "exec") \/ Advance("exec", "read")
    \/ ReadSome \/ ReadAll
    \/ Advance("close", "over")
    \/ GiveUp

RunSpec == RunInit /\ [][RunNext]_runVars

=============================================================================
