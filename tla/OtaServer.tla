----------------------------- MODULE OtaServer -----------------------------
(***************************************************************************)
(* main/src/ota_server_task.c: the task that takes a firmware image from a *)
(* TCP client, writes it to the application slot that is not running and   *)
(* points the bootloader at it.                                            *)
(*                                                                         *)
(* The image travels in units, a unit being a piece of the file no smaller *)
(* than the image header (288 bytes).  The connection is a byte stream:    *)
(* recv returns any number of units from 1 to what fits, whatever the      *)
(* client sent in one call.  The power may fail between any two steps.     *)
(*                                                                         *)
(* esp_ota_ops, the flash and the bootloader are modelled by what this     *)
(* task uses of them.  The build does not set APP_ROLLBACK_ENABLE, so no   *)
(* slot is ever pending verification or marked invalid: lines 86-98 and    *)
(* 172-187 have no effect.                                                 *)
(***************************************************************************)
EXTENDS Integers, Sequences

CONSTANTS
    Images,        \* files a client may send
    MagicImages,   \* those that begin like an application image
    GoodImages,    \* those esp_image_verify accepts (Factory among them)
    Factory,       \* the image the device was flashed with
    Units,         \* length of an image
    HeaderUnits,   \* header_size
    BUFFSIZE       \* size of rx_buffer in units

ASSUME OtaServerAssumption ==
    /\ Factory \in GoodImages
    /\ GoodImages \subseteq MagicImages
    /\ Units \in Nat \ {0}
    /\ HeaderUnits \in Nat /\ HeaderUnits < BUFFSIZE
    /\ BUFFSIZE \in Nat

VARIABLES
    \* flash, kept across resets
    flash,         \* what each slot holds, unit by unit
    boot,          \* the slot otadata names
    \* RAM
    running,       \* the slot the program was booted from
    srv,           \* the statement ota_server_task executes next
    rx,            \* rx_buffer[0 .. data_read-1]
    rxLive,        \* whether rx_buffer is allocated
    checked,       \* image_header_was_checked
    handle,        \* units written through update_handle, or NoHandle
    result,        \* ota_ret
    \* a connection that waits for accept (bound: one, as in listen)
    waitUp,        \* units that have come over it
    waitEnd,       \* and the stream's end, "none" when nobody waits
    \* the connection accepted last
    up, upEnd,     \* units on the way to the server, and the stream's end
    down, downEnd  \* answers on the way to the client, and the stream's end

persistent == <<flash, boot>>
session == <<rx, rxLive, checked, handle, result>>
waitLink == <<waitUp, waitEnd>>
upLink == <<up, upEnd>>
downLink == <<down, downEnd>>
srvVars == <<persistent, running, srv, session, waitLink, upLink, downLink>>

Slots == {"factory", "ota_0", "ota_1"}
Blank == <<"blank", 0>>
NoHandle == -1

Unit == (Images \cup {Factory}) \X (1..Units)
Whole(img) == [i \in 1..Units |-> <<img, i>>]
Verified(slot) == \E img \in GoodImages : flash[slot] = Whole(img)

\* esp_ota_get_next_update_partition(NULL).
update_partition == IF running = "ota_0" THEN "ota_1" ELSE "ota_0"

Space == BUFFSIZE - Len(rx)

OtaInit ==
    /\ flash = [s \in Slots |-> IF s = "factory" THEN Whole(Factory)
                                ELSE [i \in 1..Units |-> Blank]]
    /\ boot = "factory" /\ running = "factory"
    /\ srv = "setup"
    /\ rx = << >> /\ rxLive = FALSE /\ checked = FALSE
    /\ handle = NoHandle /\ result = 0
    /\ waitUp = << >> /\ waitEnd = "none"
    /\ up = << >> /\ upEnd = "none"
    /\ down = << >> /\ downEnd = "none"

-----------------------------------------------------------------------------
\* The socket is set up, or is not and the device restarts all the same.
SetupSocket ==
    /\ srv = "setup"
    /\ srv' \in {"accept", "reboot"}
    /\ UNCHANGED <<persistent, running, session, waitLink, upLink, downLink>>

backlog == waitEnd # "none"

\* The connection that waits, with what has come over it, is accepted.
TakeWaiting ==
    /\ backlog
    /\ up' = waitUp /\ upEnd' = waitEnd
    /\ down' = << >>
    /\ downEnd' = CASE waitEnd = "open" -> "open"
                    [] waitEnd = "lost" -> "gone"
                    [] OTHER -> "closed"
    /\ waitUp' = << >> /\ waitEnd' = "none"

\* accept and the entry of do_retransmit.  A failed accept goes the same way.
Accept ==
    /\ srv = "accept"
    /\ \/ TakeWaiting /\ srv' = "recv"
       \/ srv' = "bad_recv" /\ UNCHANGED <<waitLink, upLink, downLink>>
    /\ rx' = << >> /\ rxLive' = TRUE /\ checked' = FALSE
    /\ handle' = NoHandle /\ result' = 0
    /\ UNCHANGED <<persistent, running>>

\* do_retransmit with socket -1: recv, every send and close fail.
BadSession ==
    /\ srv = "bad_recv"
    /\ result' = -3 /\ rxLive' = FALSE
    /\ srv' = "accept"
    /\ UNCHANGED <<persistent, running, rx, checked, handle, waitLink,
                   upLink, downLink>>

\* do_retransmit frees the buffer and returns `r'.
Return(r) ==
    /\ srv' = "reply" /\ result' = r
    /\ rx' = << >> /\ rxLive' = FALSE /\ checked' = FALSE

Recv ==
    /\ srv = "recv" /\ upEnd # "none"
    /\ \E n \in 1..Len(up) :
          /\ n <= Space
          /\ rx' = rx \o SubSeq(up, 1, n)
          /\ up' = SubSeq(up, n + 1, Len(up))
    /\ srv' = IF checked THEN "write"
              ELSE IF Len(rx') > HeaderUnits THEN "begin" ELSE "ack"
    /\ UNCHANGED <<persistent, running, rxLive, checked, handle, result,
                   waitLink, upEnd, downLink>>

\* Faulty variant: the loop goes on while len >= 0.
RecvZeroIgnored ==
    /\ srv = "recv" /\ up = << >> /\ upEnd = "fin"
    /\ UNCHANGED srvVars

\* recv returns 0: the client has finished, or there is no space to ask for.
RecvZero ==
    /\ srv = "recv"
    /\ \/ up = << >> /\ upEnd = "fin"
       \/ Space = 0
    /\ srv' = "end"
    /\ UNCHANGED <<persistent, running, session, waitLink, upLink, downLink>>

\* A reset, or keepalive probes without an answer.  update_handle stays open.
RecvFails ==
    /\ srv = "recv" /\ upEnd \in {"rst", "lost"}
    /\ Return(-3)
    /\ UNCHANGED <<persistent, running, handle, waitLink, upLink, downLink>>

\* Faulty variant: the units that came with the header are dropped.
DropHeader == rx' = << >>

KeepHeader == rx' = rx

\* esp_ota_begin, which may fail and refuses the slot that is running; the
\* units that came with the header stay in the buffer.
Begin ==
    /\ srv = "begin"
    /\ \/ /\ update_partition # running
          /\ checked' = TRUE /\ KeepHeader
          /\ handle' = 0 /\ srv' = "ack" /\ UNCHANGED <<rxLive, result>>
       \/ handle' = NoHandle /\ Return(-6)
    /\ UNCHANGED <<persistent, running, waitLink, upLink, downLink>>

-----------------------------------------------------------------------------
(***************************************************************************)
(* esp_ota_write, one unit at a time so that the power can fail in the     *)
(* middle.  It refuses a first unit that does not begin an image and more  *)
(* than the slot holds, and the flash may fail.                            *)
(***************************************************************************)
WriteAccepted ==
    /\ handle < Units
    /\ handle = 0 => Head(rx)[1] \in MagicImages

WriteUnit ==
    /\ srv = "write" /\ rx # << >>
    /\ WriteAccepted
    /\ flash' = [flash EXCEPT ![update_partition][handle + 1] = Head(rx)]
    /\ handle' = handle + 1
    /\ rx' = Tail(rx)
    /\ UNCHANGED <<boot, running, srv, rxLive, checked, result, waitLink,
                   upLink, downLink>>

\* Faulty variant: the buffer is freed, the update left open.
ReleaseForgotten == UNCHANGED handle

Release == handle' = NoHandle

\* esp_ota_write failed: esp_ota_abort.
WriteFails ==
    /\ srv = "write" /\ rx # << >>
    /\ Release
    /\ Return(-7)
    /\ UNCHANGED <<persistent, running, waitLink, upLink, downLink>>

\* data_read = 0
WriteDone ==
    /\ srv = "write" /\ rx = << >>
    /\ srv' = "ack"
    /\ UNCHANGED <<persistent, running, session, waitLink, upLink, downLink>>

(***************************************************************************)
(* send: what reaches the client, if it is there.  A client that has       *)
(* closed its socket answers with a reset.                                 *)
(***************************************************************************)
Send(answers) ==
    /\ down' = IF upEnd = "open" /\ downEnd = "open" THEN down \o answers ELSE down
    /\ upEnd' \in IF upEnd = "fin" THEN {"fin", "rst"} ELSE {upEnd}

Ack ==
    /\ srv = "ack"
    /\ Send(<<"ACK">>)
    /\ srv' = "recv"
    /\ UNCHANGED <<persistent, running, session, waitLink, up, downEnd>>

-----------------------------------------------------------------------------
\* esp_ota_end: an update was begun, something was written, and the image
\* in the slot verifies.
EndAccepted == handle > 0 /\ Verified(update_partition)

End ==
    /\ srv = "end"
    /\ IF EndAccepted
       THEN srv' = "set_boot" /\ UNCHANGED <<rx, rxLive, checked, result>>
       ELSE Return(-8)
    /\ handle' = NoHandle
    /\ UNCHANGED <<persistent, running, waitLink, upLink, downLink>>

\* Faulty variant: the error of esp_ota_set_boot_partition is not returned.
BootFailedUnnoticed == boot' = boot /\ Return(0)

BootFailed == boot' = boot /\ Return(-9)

\* esp_ota_set_boot_partition verifies the image once more.
SetBoot ==
    /\ srv = "set_boot"
    /\ \/ Verified(update_partition) /\ boot' = update_partition /\ Return(0)
       \/ BootFailed
    /\ UNCHANGED <<flash, running, handle, waitLink, upLink, downLink>>

\* Faulty variant: the server takes the next client also after a success.
AcceptAgain == "accept"

AfterReply == IF result = 0 THEN "reboot" ELSE "accept"

\* The two answers at the end of a session, and close.
Reply ==
    /\ srv = "reply"
    /\ Send(<<"ACK", IF result = 0 THEN "ACK" ELSE "NAK">>)
    /\ downEnd' = IF downEnd = "open" THEN "closed" ELSE downEnd
    /\ up' = << >>
    /\ srv' = AfterReply
    /\ UNCHANGED <<persistent, running, session, waitLink>>

\* What a reset, commanded or not, leaves: flash.  Of the connections the
\* latest is the one that a client may still have.
Restart ==
    /\ running' = boot
    /\ srv' = "setup"
    /\ rx' = << >> /\ rxLive' = FALSE /\ checked' = FALSE
    /\ handle' = NoHandle /\ result' = 0
    /\ waitUp' = << >> /\ waitEnd' = "none"
    /\ up' = << >>
    /\ upEnd' = IF backlog THEN waitEnd ELSE upEnd
    /\ downEnd' = IF backlog \/ downEnd = "open" THEN "gone" ELSE downEnd
    /\ UNCHANGED <<persistent, down>>

system_reboot == srv = "reboot" /\ Restart

PowerLoss == Restart

ServerStep ==
    \/ SetupSocket \/ Accept \/ BadSession
    \/ Recv \/ RecvZero \/ RecvFails
    \/ Begin \/ WriteUnit \/ WriteFails \/ WriteDone \/ Ack
    \/ End \/ SetBoot \/ Reply
    \/ system_reboot

=============================================================================
