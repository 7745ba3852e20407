------------------------------ MODULE Startup ------------------------------
(***************************************************************************)
(* How the program comes up: frame_maker_task shows the boot animation,    *)
(* starts tcp_server_task and waits for the time; tcp_server_task connects *)
(* to the network, starts SNTP and, once the time is set, releases         *)
(* frame_maker_task through the event group of sntp_helper.c, which then   *)
(* starts the OTA and the button server and enters its loop.               *)
(*                                                                         *)
(* Event groups are numbered in the order they are created; 0 is NULL.     *)
(* What the tasks show on the way goes to MessageType.  At boot there is   *)
(* memory for every task and event group.                                  *)
(***************************************************************************)
EXTENDS Integers, Sequences

VARIABLES
    fm,          \* the statement frame_maker_task executes next
    waitsOn,     \* the event group it is blocked on
    tcp,         \* the statement tcp_server_task executes next
    timeSyncEventGroup,
    synced,      \* the event groups with TIME_SYNC_BIT
    netUp,       \* example_connect has returned ESP_OK
    sntp,        \* "off", or the status sntp_get_sync_status would return
    servers      \* ota_server_task and button_tcp_task have been created

startupVars == <<fm, waitsOn, tcp, timeSyncEventGroup, synced, netUp, sntp, servers>>
frameMaker == <<fm, waitsOn, servers>>
time == <<timeSyncEventGroup, synced, sntp>>

StartupInit ==
    /\ fm = "boot" /\ waitsOn = 0
    /\ tcp = "none"
    /\ timeSyncEventGroup = 0 /\ synced = {}
    /\ netUp = FALSE /\ sntp = "off" /\ servers = FALSE

-----------------------------------------------------------------------------
(***************************************************************************)
(* frame_maker_task                                                        *)
(***************************************************************************)
run_boot_animation ==
    /\ fm = "boot" /\ fm' = "init_sync"
    /\ UNCHANGED <<waitsOn, tcp, time, netUp, servers>>

\* Faulty variant: the group is left to init_sntp.
NotYetCreated == UNCHANGED timeSyncEventGroup

init_time_sync == timeSyncEventGroup' = timeSyncEventGroup + 1

InitTimeSync ==
    /\ fm = "init_sync" /\ fm' = "create_tcp"
    /\ init_time_sync
    /\ UNCHANGED <<waitsOn, tcp, synced, netUp, sntp, servers>>

CreateTcpServer ==
    /\ fm = "create_tcp" /\ fm' = "wait_sync"
    /\ tcp = "none" /\ tcp' = "greet"
    /\ UNCHANGED <<waitsOn, time, netUp, servers>>

\* Without a group it returns; otherwise it blocks on the group it finds.
wait_for_time_sync ==
    /\ fm = "wait_sync"
    /\ IF timeSyncEventGroup = 0
       THEN fm' = "create_servers" /\ UNCHANGED waitsOn
       ELSE fm' = "blocked" /\ waitsOn' = timeSyncEventGroup
    /\ UNCHANGED <<tcp, time, netUp, servers>>

TimeSynced ==
    /\ fm = "blocked" /\ waitsOn \in synced
    /\ fm' = "create_servers"
    /\ UNCHANGED <<waitsOn, tcp, time, netUp, servers>>

CreateServers ==
    /\ fm = "create_servers" /\ fm' = "loop"
    /\ servers' = TRUE
    /\ UNCHANGED <<waitsOn, tcp, time, netUp>>

frame_maker_task ==
    \/ run_boot_animation \/ InitTimeSync \/ CreateTcpServer
    \/ wait_for_time_sync \/ TimeSynced \/ CreateServers

-----------------------------------------------------------------------------
(***************************************************************************)
(* tcp_server_task up to its listening socket, and init_sntp.              *)
(***************************************************************************)

\* "Connecting...", nvs, netif and the event loop.
Greet ==
    /\ tcp = "greet" /\ tcp' = "connect"
    /\ UNCHANGED <<frameMaker, time, netUp>>

\* example_connect blocks until there is an address.
Connected ==
    /\ tcp = "connect" /\ tcp' = "show_address"
    /\ netUp' = TRUE
    /\ UNCHANGED <<frameMaker, time>>

\* It gives up: ESP_ERROR_CHECK aborts and the device boots again.
ConnectFails ==
    /\ tcp = "connect"
    /\ fm' = "boot" /\ waitsOn' = 0
    /\ tcp' = "none"
    /\ timeSyncEventGroup' = 0 /\ synced' = {}
    /\ netUp' = FALSE /\ sntp' = "off" /\ servers' = FALSE

\* "Connected!", lookup_ip and the address on the display.
ShowAddress ==
    /\ tcp = "show_address" /\ tcp' = "init_sntp"
    /\ UNCHANGED <<frameMaker, time, netUp>>

\* Faulty variant: a group is created whether there is one or not.
CreateAlways == TRUE

GroupMissing == timeSyncEventGroup = 0

init_sntp ==
    /\ tcp = "init_sntp" /\ tcp' = "poll_status"
    /\ IF GroupMissing THEN init_time_sync ELSE UNCHANGED timeSyncEventGroup
    /\ sntp' = "RESET"
    /\ UNCHANGED <<frameMaker, synced, netUp>>

\* External: the SNTP client has set the clock.
NtpAnswers ==
    /\ sntp = "RESET" /\ sntp' = "COMPLETED"
    /\ UNCHANGED <<frameMaker, tcp, timeSyncEventGroup, synced, netUp>>

\* The status is polled, and is RESET again once COMPLETED has been read.
StatusChanged ==
    /\ tcp = "poll_status" /\ sntp = "COMPLETED"
    /\ tcp' = "set_bit" /\ sntp' = "RESET"
    /\ UNCHANGED <<frameMaker, timeSyncEventGroup, synced, netUp>>

SetSyncBit ==
    /\ tcp = "set_bit" /\ tcp' = "setup"
    /\ synced' = synced \cup {timeSyncEventGroup}
    /\ UNCHANGED <<frameMaker, timeSyncEventGroup, sntp, netUp>>

\* setup_tcp_socket; without a socket the task ends.
SetupSocket ==
    /\ tcp = "setup" /\ tcp' \in {"accept", "deleted"}
    /\ UNCHANGED <<frameMaker, time, netUp>>

tcp_server_startup ==
    \/ Greet \/ Connected \/ ShowAddress \/ init_sntp \/ StatusChanged
    \/ SetSyncBit \/ SetupSocket

-----------------------------------------------------------------------------
\* The OTA and the button server, which open their sockets at once and look
\* the address up once, and the clock start only when the device is on the
\* network (frame_maker_task.c:33-44, sntp_helper.c:37-49).
ServersAfterNetwork == servers => netUp

\* Once the time is there they start: the bit is set in the very group that
\* frame_maker_task waits on (sntp_helper.c:16-34).
ServersStart == tcp = "setup" ~> servers

=============================================================================
