------------------------------ MODULE SshTask ------------------------------
(***************************************************************************)
(* components/ssh_task: run_ssh_task_blocked starts a task that runs one   *)
(* command on an SSH host, and waits for it on an event group.  The group  *)
(* and the task's parameters live on the caller's side and are gone when   *)
(* the call returns.                                                       *)
(*                                                                         *)
(* A command is a pointer into the caller's table, here its index.  Each   *)
(* run holds a socket, a session, a channel and a buffer at most once;     *)
(* what a run still holds when its task is deleted is lost.  libssh2's     *)
(* session blocks, so LIBSSH2_ERROR_EAGAIN is never seen and waitsocket    *)
(* never called.                                                           *)
(***************************************************************************)
EXTENDS Integers, Sequences

CONSTANTS
    Commands,      \* what a command pointer can be
    Outputs,       \* lengths of what a command may print
    ReadSize,      \* sizeof(buffer) in read_channel
    BufferSize,    \* buffer_size
    Sockets        \* sockets of the pool left to this server and its runs

ASSUME SshTaskAssumption ==
    /\ Outputs \subseteq Nat
    /\ ReadSize \in Nat \ {0} /\ BufferSize \in Nat \ {0}
    /\ Sockets \in Nat

VARIABLES
    caller,     \* where run_ssh_task_blocked is: "idle" outside it
    ret,        \* its result
    groupLive,  \* whether the event group exists
    bits,       \* the bits of the event group that are set
    command,    \* task_parameters.command
    task,       \* the statement ssh_task executes next
    held,       \* what the run has obtained and not released
    lost,       \* sockets held by tasks that are gone
    output,     \* length of what the command prints
    got,        \* how much of it libssh2_channel_read has returned
    input       \* rx_buff: the bytes kept of it

sshVars == <<caller, ret, groupLive, bits, command, task, held, lost,
             output, got, input>>

Bits == {"FINISH", "FAIL", "SUCCESS"}
Things == {"socket", "session", "channel", "buffer"}

SshInit ==
    /\ caller = "idle" /\ ret = "ESP_OK"
    /\ groupLive = FALSE /\ bits = {}
    /\ command \in Commands
    /\ task = "none" /\ held = {} /\ lost = 0
    /\ output = 0 /\ got = 0 /\ input = << >>

\* The task will not touch anything any more: only vTaskDelete may be left.
TaskGone == task \in {"none", "not_created", "deleting"}

SshSockets == lost + (IF "socket" \in held /\ ~TaskGone THEN 1 ELSE 0)

-----------------------------------------------------------------------------
(***************************************************************************)
(* The caller.                                                             *)
(***************************************************************************)

\* The event group is created and the task started; whether xTaskCreate could
\* is not looked at.
run_ssh_task_blocked(cmd) ==
    /\ caller = "idle" /\ caller' = "waiting"
    /\ groupLive' = TRUE /\ bits' = {}
    /\ command' = cmd
    /\ \/ task' = "init"
       \/ task' = "not_created"
    /\ ret' = "ESP_OK"
    /\ held' = {}
    /\ UNCHANGED <<lost, output, got, input>>

\* Faulty variant: any bit wakes the caller, SSH_CMD_SUCCESS_BIT too.
AnyBit == bits # {}

Finished == "FINISH" \in bits

\* xEventGroupWaitBits, which clears the bit it waited for.
WaitBits ==
    /\ caller = "waiting" /\ Finished
    /\ bits' = bits \ {"FINISH"}
    /\ caller' = "check"
    /\ UNCHANGED <<ret, groupLive, command, task, held, lost, output, got, input>>

GetBits ==
    /\ caller = "check"
    /\ ret' = IF "FAIL" \in bits THEN "ESP_FAIL" ELSE "ESP_OK"
    /\ caller' = "delete"
    /\ UNCHANGED <<groupLive, bits, command, task, held, lost, output, got, input>>

delete_ssh_task_input ==
    /\ caller = "delete"
    /\ groupLive' = FALSE /\ bits' = {}
    /\ caller' = "idle"
    /\ UNCHANGED <<ret, command, task, held, lost, output, got, input>>

CallerStep == WaitBits \/ GetBits \/ delete_ssh_task_input

-----------------------------------------------------------------------------
(***************************************************************************)
(* The task.                                                               *)
(***************************************************************************)
Goto(pc, next) == task = pc /\ task' = next

sshCaller == <<caller, ret, groupLive, command, lost>>
reading == <<output, got, input>>

Initialize ==
    /\ \/ Goto("init", "socket")
       \/ Goto("init", "fail")
    /\ UNCHANGED <<sshCaller, bits, held, reading>>

\* The name is resolved and a socket taken from the pool, if one of the
\* `free' ones is left.
create_socket(free) ==
    /\ \/ Goto("socket", "connect") /\ free > 0 /\ held' = {"socket"}
       \/ Goto("socket", "fail") /\ held' = held
    /\ UNCHANGED <<sshCaller, bits, reading>>

Connect ==
    /\ \/ Goto("connect", "session")
       \/ Goto("connect", "fail")
    /\ UNCHANGED <<sshCaller, bits, held, reading>>

\* libssh2_session_init, handshake and authentication.
create_ssh_session ==
    /\ \/ Goto("session", "exec") /\ held' = held \cup {"session"}
       \/ Goto("session", "fail") /\ held' \in {held, held \cup {"session"}}
    /\ UNCHANGED <<sshCaller, bits, reading>>

\* The channel is opened and the command sent; then rx_buff is allocated.
exec_ssh_command ==
    /\ \/ /\ Goto("exec", "read")
          /\ held' = held \cup {"channel", "buffer"}
          /\ output' \in Outputs
       \/ /\ Goto("exec", "fail")
          /\ held' \in {held, held \cup {"channel"}}
          /\ output' = output
    /\ UNCHANGED <<sshCaller, bits, got, input>>

\* Faulty variant: no space is left for the terminator.
ToCopyFull(n) == IF Len(input) + n > BufferSize THEN BufferSize - Len(input) ELSE n

bytes_to_copy(n) ==
    IF Len(input) + n >= BufferSize THEN BufferSize - Len(input) - 1 ELSE n

\* rc > 0
ReadSome ==
    /\ task = "read"
    /\ \E n \in 1..ReadSize :
          /\ got + n <= output
          /\ got' = got + n
          /\ input' = input \o [i \in 1..bytes_to_copy(n) |-> got + i]
    /\ UNCHANGED <<sshCaller, bits, task, held, output>>

\* rc = 0: the whole output has been read; it is logged and rx_buff freed.
ReadAll ==
    /\ got = output
    /\ Goto("read", "close")
    /\ held' = held \ {"buffer"}
    /\ UNCHANGED <<sshCaller, bits, reading>>

\* rc < 0
ReadFails ==
    /\ Goto("read", "fail")
    /\ UNCHANGED <<sshCaller, bits, held, reading>>

\* It fails also for a command that a signal has ended.
close_ssh_channel ==
    /\ \/ Goto("close", "success") /\ held' = held \ {"channel"}
       \/ Goto("close", "fail") /\ held' = held
    /\ UNCHANGED <<sshCaller, bits, reading>>

SetSuccess ==
    /\ Goto("success", "cleanup")
    /\ bits' = bits \cup {"SUCCESS"}
    /\ UNCHANGED <<sshCaller, held, reading>>

Freed == {"session", "socket"}

disconnect_and_cleanup ==
    /\ Goto("cleanup", "finish")
    /\ held' = held \ Freed
    /\ UNCHANGED <<sshCaller, bits, reading>>

\* Faulty variant: the failing task only exits.
FailBitForgotten == UNCHANGED bits

SetFailBit == bits' = bits \cup {"FAIL"}

ssh_task_fail ==
    /\ Goto("fail", "finish")
    /\ SetFailBit
    /\ UNCHANGED <<sshCaller, held, reading>>

\* Faulty variant: the task is deleted without the bit the caller waits for.
FinishBitForgotten == UNCHANGED bits

SetFinishBit == bits' = bits \cup {"FINISH"}

\* The bit, and the task is deleted with its locals; what it holds is lost.
ssh_task_exit ==
    /\ Goto("finish", "deleting")
    /\ SetFinishBit
    /\ lost' = IF "socket" \in held THEN lost + 1 ELSE lost
    /\ output' = 0 /\ got' = 0 /\ input' = << >>
    /\ UNCHANGED <<caller, ret, groupLive, command, held>>

ssh_task(free) ==
    \/ Initialize \/ create_socket(free) \/ Connect \/ create_ssh_session
    \/ exec_ssh_command \/ ReadSome \/ ReadAll \/ ReadFails
    \/ close_ssh_channel \/ SetSuccess \/ disconnect_and_cleanup
    \/ ssh_task_fail \/ ssh_task_exit

-----------------------------------------------------------------------------
\* The task's parameters and the event group are there as long as the task
\* may touch them (ssh_task.c:44-119, 357-372 against 316-319).
NoUseAfterDelete == ~TaskGone => groupLive

\* ESP_OK is the result of a command that was run to its end
\* (ssh_task.c:113, 306-314, 369-373).
OkMeansRun == caller = "delete" /\ ret = "ESP_OK" => "SUCCESS" \in bits

\* A run that went well gives back all it obtained (ssh_task.c:93-120).
OkReleasesAll == caller = "delete" /\ ret = "ESP_OK" => held = {}

\* The response kept is the beginning of what the command printed, as much of
\* it as fits before the terminator (ssh_driver.c:173-228).
ResponsePrefix ==
    /\ input = [i \in 1..Len(input) |-> i]
    /\ task = "close" =>
          Len(input) = IF output < BufferSize THEN output ELSE BufferSize - 1

\* What the caller of run_ssh_task_blocked may rely on: a result that is the
\* run's, nothing left behind by a good run, a response without gaps.
RunResult == OkMeansRun /\ OkReleasesAll /\ ResponsePrefix

=============================================================================
