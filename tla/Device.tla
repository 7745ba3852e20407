------------------------------- MODULE Device -------------------------------
(***************************************************************************)
(* Startup, text server and clock: the tasks between power-on and the      *)
(* normal running of the device, side by side.                             *)
(***************************************************************************)
EXTENDS ClockDisplay

vars == <<startupVars, textVars, clockVars>>

Init == StartupInit /\ TextInit /\ ClockInit

FrameMaker == frame_maker_task /\ UNCHANGED <<textVars, clockVars>>
TcpStartup == tcp_server_startup /\ UNCHANGED <<textVars, clockVars>>
TcpSession == do_retransmit /\ UNCHANGED clockVars

\* At that time neither the server nor the clock has run.
Reset == ConnectFails /\ UNCHANGED <<textVars, clockVars>>

Client == (ClientConnects \/ ClientGoes) /\ UNCHANGED clockVars
Ntp == NtpAnswers /\ UNCHANGED <<textVars, clockVars>>

Next ==
    \/ FrameMaker \/ TcpStartup \/ TcpSession \/ Loop
    \/ Reset \/ Ntp \/ Tick \/ Client

\* The tasks run when they can; the ticks go on.
Fairness ==
    /\ WF_vars(FrameMaker) /\ WF_vars(TcpStartup) /\ WF_vars(TcpSession)
    /\ WF_vars(Loop) /\ WF_vars(Tick)

Spec == Init /\ [][Next]_vars /\ Fairness

-----------------------------------------------------------------------------
\* Types; the terminator of a received segment is inside its buffer.
DeviceTypeOK ==
    /\ fm \in {"boot", "init_sync", "create_tcp", "wait_sync", "blocked",
               "create_servers", "loop"}
    /\ tcp \in {"none", "greet", "connect", "show_address", "init_sntp", "poll_status",
                "set_bit", "setup", "accept", "recv", "push", "echo", "close", "deleted"}
    /\ timeSyncEventGroup \in Nat /\ waitsOn \in Nat /\ synced \subseteq Nat
    /\ {netUp, servers, prev_io_level, time_on, blank_colon, shownColon} \subseteq BOOLEAN
    /\ sntp \in {"off", "RESET", "COMPLETED"}
    /\ peer \in {"none", "open", "fin", "rst"}
    /\ len \in 0..RxSize - 1 /\ to_write \in 0..len
    /\ got \in 0..Bytes
    /\ last_minute \in -1..Minutes - 1 /\ shownMinute \in -1..Minutes - 1
    /\ blank_second \in -1..Seconds - 1 /\ blank_tick \in 0..TickWidth - 1

\* A session whose client has gone ends (tcp_server_task.c:38-74, 140-152).
TextSessionEnds == tcp = "recv" /\ peer # "open" ~> tcp = "accept"

=============================================================================
