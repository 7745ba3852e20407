----------------------------- MODULE OtaClient -----------------------------
(***************************************************************************)
(* python/ui/tcp_worker.py, TcpOTAtWorker.perform_task: sends a firmware   *)
(* file in chunks, reads an answer after each, then one more, and reports  *)
(* to the OTA tab by signals, which wait for the GUI's thread.  The socket *)
(* closes when the worker's run returns, after its last signal: with a     *)
(* reset when answers are left unread.                                     *)
(***************************************************************************)
EXTENDS OtaServer

CONSTANT ChunkUnits        \* chunk_size (4096 bytes) in units

ASSUME OtaClientAssumption == ChunkUnits \in Nat \ {0}

VARIABLES
    cl,       \* the statement run executes next, "idle" when it does not
    image,    \* the file (Factory when there is none)
    total,    \* total_tx_size, in units
    signals   \* what this worker has emitted: <<signal, value>>

clVars == <<cl, image, total, signals>>

ClInit ==
    /\ cl = "idle" /\ image = Factory /\ total = 0 /\ signals = << >>

\* The exit_status values among the signals.
exits == LET codes == SelectSeq(signals, LAMBDA s : s[1] = "exit_status")
         IN  [i \in 1..Len(codes) |-> codes[i][2]]

Emits(new) == signals' = signals \o new

\* perform_task emits its exit_status values and returns; its locals go.
TaskReturns(codes) ==
    /\ Emits([i \in 1..Len(codes) |-> <<"exit_status", codes[i]>>])
    /\ cl' = "finished"
    /\ image' = Factory /\ total' = 0

\* The socket listens from its setup on, through sessions with earlier clients
\* and, after a success, until the restart.
Listening == srv # "setup" /\ (srv = "reboot" => boot # running)

\* run(): connect and open the file, whose path the tab has checked.
Connect ==
    /\ cl = "connect" /\ Listening /\ ~backlog
    /\ image' \in Images
    /\ total' = 0
    /\ cl' = "send"
    /\ Emits(<< <<"connect_status", 0>> >>)
    /\ waitUp' = << >> /\ waitEnd' = "open"
    /\ UNCHANGED <<persistent, running, srv, session, upLink, downLink>>

\* Faulty variant: without a connection run returns at once.
AfterRefusalReturn == "return"

AfterRefusal == "finished"

ConnectFails ==
    /\ cl = "connect"
    /\ cl' = AfterRefusal
    /\ Emits(<< <<"connect_status", -2>> >>)
    /\ UNCHANGED <<srvVars, image, total>>

\* Faulty variant: every chunk counts as a whole one, the empty one too.
WholeChunk == total + ChunkUnits

NextTotal == IF total + ChunkUnits < Units THEN total + ChunkUnits ELSE Units

\* The first n units of the next chunk go over the worker's connection, the
\* one that waits or the one accepted last; one given up takes them for nothing.
Put(n) ==
    LET chunk == [i \in 1..n |-> <<image, total + i>>]
    IN  IF backlog
        THEN /\ waitUp' = IF waitEnd = "open" THEN waitUp \o chunk ELSE waitUp
             /\ UNCHANGED up
        ELSE /\ up' = IF upEnd = "open" /\ downEnd = "open" THEN up \o chunk ELSE up
             /\ UNCHANGED waitUp

\* The next chunk is read and counted, then sent: whole, and the progress is
\* told, or up to where the connection breaks or five seconds are over, which
\* raises.
SendChunk ==
    /\ cl = "send" /\ total < Units
    /\ total' = NextTotal
    /\ \/ /\ cl' = "wait_ack"
          /\ Put(NextTotal - total)
          /\ Emits(<< <<"progress_percent", NextTotal>> >>)
       \/ /\ cl' = "finish"
          /\ \E n \in 0..NextTotal - total - 1 : Put(n)
          /\ UNCHANGED signals
    /\ UNCHANGED <<persistent, running, srv, session, waitEnd, upEnd, downLink, image>>

\* An empty chunk is counted like the others before it ends the loop.
NoMoreData ==
    /\ cl = "send" /\ total = Units
    /\ total' = NextTotal
    /\ cl' = "final"
    /\ UNCHANGED <<srvVars, image, signals>>

\* recv(1024) returns the answers that have arrived, as one string.
RecvAck ==
    /\ cl = "wait_ack"
    /\ \E n \in 1..Len(down) :
          /\ down' = SubSeq(down, n + 1, Len(down))
          /\ IF \E i \in 1..n : down[i] = "ACK"
             THEN cl' = "send" /\ UNCHANGED signals
                  /\ UNCHANGED <<image, total>>
             ELSE TaskReturns(<<-2>>)
    /\ UNCHANGED <<persistent, running, srv, session, waitLink, upLink, downEnd>>

\* Nothing for five seconds, or the end of the stream.
NoAck ==
    /\ cl = "wait_ack" /\ down = << >>
    /\ TaskReturns(<<-2>>)
    /\ UNCHANGED srvVars

\* The final answer is printed, not looked at; the end of the stream will do.
RecvFinal ==
    /\ cl = "final"
    /\ \/ \E n \in 1..Len(down) : down' = SubSeq(down, n + 1, Len(down))
       \/ down = << >> /\ downEnd = "closed" /\ down' = down
    /\ cl' = "finish"
    /\ UNCHANGED <<persistent, running, srv, session, waitLink, upLink, downEnd,
                   image, total, signals>>

\* Faulty variant: the socket has no timeout.
WaitsForever == FALSE

TimedOut == down = << >> /\ downEnd # "closed"

FinalTimeout ==
    /\ cl = "final" /\ TimedOut
    /\ TaskReturns(<<-3>>)
    /\ UNCHANGED srvVars

\* The connection broke: the exception is printed and execution goes on.
RecvRaises ==
    /\ cl \in {"wait_ack", "final"}
    /\ IF backlog THEN waitEnd # "open" ELSE downEnd # "open"
    /\ cl' = "finish"
    /\ UNCHANGED <<srvVars, image, total, signals>>

Finish ==
    /\ cl = "finish"
    /\ TaskReturns(IF total # Units THEN <<-1, 0>> ELSE <<0>>)
    /\ UNCHANGED srvVars

EmitFinished ==
    /\ cl = "finished"
    /\ cl' = "return"
    /\ Emits(<< <<"finished", 0>> >>)
    /\ UNCHANGED <<srvVars, image, total>>

\* run returns, and the socket goes with its locals.
Close ==
    /\ cl = "return"
    /\ cl' = "idle"
    /\ \/ /\ backlog
          /\ waitEnd' = IF waitEnd = "open" THEN "fin" ELSE waitEnd
          /\ UNCHANGED <<upEnd, downLink>>
       \/ /\ ~backlog
          /\ upEnd' = IF upEnd # "open" THEN upEnd
                      ELSE IF down = << >> THEN "fin" ELSE "rst"
          /\ down' = << >>
          /\ downEnd' = IF downEnd = "open" THEN "closed" ELSE downEnd
          /\ UNCHANGED waitEnd
    /\ UNCHANGED <<persistent, running, srv, session, waitUp, up, image, total, signals>>

ClientStep ==
    \/ Connect \/ ConnectFails
    \/ SendChunk \/ NoMoreData
    \/ RecvAck \/ NoAck \/ RecvFinal \/ FinalTimeout \/ RecvRaises
    \/ Finish \/ EmitFinished \/ Close

=============================================================================
