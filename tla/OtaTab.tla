------------------------------- MODULE OtaTab -------------------------------
(***************************************************************************)
(* python/ui/ota_tab.py and working_tab_base.py: the tab that starts the   *)
(* OTA worker in a thread of its own and shows what becomes of it.  The    *)
(* worker's signals are queued to the GUI's thread, which handles them in  *)
(* order, between clicks.                                                  *)
(***************************************************************************)
EXTENDS OtaClient

VARIABLES
    tcp_worker_thread,  \* "None", "started", or "quit" while the GUI waits for its end
    heard               \* how many of the worker's signals have been handled

tabVars == <<tcp_worker_thread, heard>>

TabInit == tcp_worker_thread = "None" /\ heard = 0

\* send_binary_button_click with a file that is there: make_worker_thread
\* takes a worker only when there is none.
SendBinary ==
    /\ tcp_worker_thread = "None"
    /\ tcp_worker_thread' = "started"
    /\ cl' = "connect"
    /\ UNCHANGED <<srvVars, image, total, signals, heard>>

\* on_connect_status, progress_percent_update and ota_exit_status.
LabelFor(signal) ==
    CASE signal[1] = "connect_status" ->
             IF signal[2] >= 0 THEN "Connected" ELSE "Could not connect!"
      [] signal[1] = "progress_percent" -> "Updating"
      [] signal[1] = "exit_status" ->
             IF signal[2] = 0 THEN "OTA Complete!" ELSE "OTA Failed!"

\* The label that the signals handled so far have left: the last one that is
\* not `finished' has set it.
status_label ==
    LET told == {i \in 1..heard : signals[i][1] # "finished"}
    IN  IF told = {} THEN "as before"
        ELSE LabelFor(signals[CHOOSE i \in told : \A j \in told : j <= i])

\* progress_percent_update ends with processEvents, which handles the signals
\* and clicks that wait before it returns.  Nothing comes after that call, so
\* they are handled as if one after the other.
HandleSignal ==
    /\ tcp_worker_thread = "started" /\ heard < Len(signals)
    /\ heard' = heard + 1
    /\ tcp_worker_thread' = IF signals[heard'][1] = "finished" THEN "quit" ELSE "started"
    /\ UNCHANGED <<srvVars, clVars>>

\* Faulty variant: tcp_worker_finished does not wait for the thread.
WithoutWait == TRUE

ThreadEnded == cl = "idle"

\* tcp_worker_finished goes on after wait() and drops the worker.
tcp_worker_finished ==
    /\ tcp_worker_thread = "quit" /\ ThreadEnded
    /\ tcp_worker_thread' = "None"
    /\ heard' = 0 /\ signals' = << >>
    /\ UNCHANGED <<srvVars, cl, image, total>>

TabStep == HandleSignal \/ tcp_worker_finished

=============================================================================
