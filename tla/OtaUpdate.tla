----------------------------- MODULE OtaUpdate -----------------------------
(***************************************************************************)
(* The firmware update: the device's OTA server, the PC's OTA worker over  *)
(* one TCP connection at a time, which may have to wait while the server   *)
(* is still busy with the one before, and the tab that runs the worker,    *)
(* with the network going away and the device losing power at any moment.  *)
(***************************************************************************)
EXTENDS OtaTab

vars == <<srvVars, clVars, tabVars>>

Init == OtaInit /\ ClInit /\ TabInit

\* The path between the two is gone; some of what was under way is lost.
NetworkDrop ==
    /\ \/ /\ upEnd = "open" /\ downEnd = "open"
          /\ upEnd' = "lost" /\ downEnd' = "gone"
          /\ \E n \in 0..Len(up) : up' = SubSeq(up, 1, n)
          /\ UNCHANGED waitLink
       \/ /\ waitEnd = "open"
          /\ waitEnd' = "lost"
          /\ \E n \in 0..Len(waitUp) : waitUp' = SubSeq(waitUp, 1, n)
          /\ UNCHANGED <<upLink, downEnd>>
    /\ UNCHANGED <<persistent, running, srv, session, down, clVars, tabVars>>

Server == ServerStep /\ UNCHANGED <<clVars, tabVars>>

Worker == ClientStep /\ UNCHANGED tabVars

Next ==
    \/ Server
    \/ Worker
    \/ SendBinary \/ TabStep
    \/ NetworkDrop
    \/ PowerLoss /\ UNCHANGED <<clVars, tabVars>>

(***************************************************************************)
(* Both programs and both threads of the GUI run when they can; nobody has *)
(* to click, and neither the network nor the power has to fail.            *)
(***************************************************************************)
Fairness ==
    /\ WF_vars(Server) /\ WF_vars(Worker) /\ WF_vars(TabStep)

Spec == Init /\ [][Next]_vars /\ Fairness

InSession == srv \in {"recv", "bad_recv", "begin", "write", "ack", "end", "set_boot"}

-----------------------------------------------------------------------------
\* Types; the buffer never holds more than it has room for.
OtaTypeOK ==
    /\ flash \in [Slots -> [1..Units -> Unit \cup {Blank}]]
    /\ boot \in Slots /\ running \in Slots
    /\ srv \in {"setup", "accept", "recv", "bad_recv", "begin", "write", "ack",
                "end", "set_boot", "reply", "reboot"}
    /\ rx \in Seq(Unit) /\ Len(rx) <= BUFFSIZE
    /\ rxLive \in BOOLEAN /\ checked \in BOOLEAN
    /\ handle \in -1..Units /\ result \in {0, -3, -6, -7, -8, -9}
    /\ waitUp \in Seq(Unit) /\ waitEnd \in {"none", "open", "fin", "lost"}
    /\ up \in Seq(Unit) /\ upEnd \in {"none", "open", "fin", "rst", "lost"}
    /\ down \in Seq({"ACK", "NAK"}) /\ downEnd \in {"none", "open", "closed", "gone"}
    /\ cl \in {"idle", "connect", "send", "wait_ack", "final", "finish", "finished",
               "return"}
    /\ image \in Images \cup {Factory}
    /\ total \in 0..Units /\ heard \in 0..Len(signals)
    /\ tcp_worker_thread \in {"None", "started", "quit"}

\* The slot the bootloader will start holds a whole, verified image, through
\* refused and broken updates and a loss of power at any step.  No update may
\* begin between set_boot and the restart: it would overwrite the slot that
\* has just been chosen (ota_server_task.c:198-292, 392-411).
BootVerified == Verified(boot)

\* No unit is lost, repeated or put out of order on its way from the file to
\* the slot, through the header check that keeps the first units back
\* (ota_server_task.c:140-264): what is written, what is buffered and what is
\* on the way are the file's first units.
Written == SubSeq(flash[update_partition], 1, IF handle > 0 THEN handle ELSE 0)

StreamIntact ==
    InSession /\ srv # "bad_recv" /\ handle + Len(rx) + Len(up) > 0 =>
        LET received == Written \o rx \o up
        IN  \A i \in 1..Len(received) : received[i] = <<received[1][1], i>>

\* An update that reports success has installed one good image, and the
\* device will restart into it (ota_server_task.c:274-296, 392-411).
SuccessIsInstalled ==
    srv = "reply" /\ result = 0 => Verified(boot) /\ boot # running

\* rx_buffer is allocated exactly while do_retransmit runs: every return path
\* frees it, once (ota_server_task.c:61, 108-295).
BufferFreed == rxLive <=> InSession

\* Every way out of do_retransmit gives the update handle back to esp_ota_ops,
\* except the failed recv (ota_server_task.c:268-271).
HandleReleased ==
    srv \in {"reply", "accept", "reboot"} /\ result # -3 => handle = NoHandle

\* What a session obtained is given back.
SessionReleases == BufferFreed /\ HandleReleased

\* A session whose client has gone, by whatever way, ends: the server gets
\* back to accept or restarts (ota_server_task.c:140-271).
SessionEnds == (InSession /\ upEnd # "open") ~> ~InSession

\* The tab gives up a worker's thread and connection only when the thread has
\* ended: Qt aborts the program otherwise, and a second worker would talk
\* across the first (working_tab_base.py:11-18, tcp_worker.py:46-65).
OwnsItsWorker == cl # "idle" => tcp_worker_thread # "None"

\* A worker that is done has told the user how it ended, by whatever way
\* (tcp_worker.py:111-171, ota_tab.py:112-146).
EndShown ==
    tcp_worker_thread = "quit" =>
        status_label \notin {"as before", "Connected", "Updating"}

\* The tab and its worker in step: one worker at a time, whose last word is
\* heard before it is given up.
TabInStep == OwnsItsWorker /\ EndShown

\* Whatever way an update takes, the tab can start another in the end
\* (tcp_worker.py:46-171, working_tab_base.py:11-18).
TabServesAgain == tcp_worker_thread = "started" ~> tcp_worker_thread = "None"


-----------------------------------------------------------------------------
\* "Look for final ACK/NAK" (tcp_worker.py:152): the answer to an update
\* that went well finds the worker looking for it.
FinalAnswerHeard == srv = "reply" /\ result = 0 => cl = "final"

\* "OTA Complete!" (ota_tab.py:131), shown for status 0: over an unbroken
\* connection, no update that the server refuses with NAK is reported complete.
Refused == {-6, -7, -8, -9}

CompleteMeansNoNak ==
    srv \in {"reply", "accept"} /\ result \in Refused /\ upEnd # "lost" /\ ~backlog =>
        exits # <<0>>

=============================================================================
