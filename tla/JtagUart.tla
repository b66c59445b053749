------------------------------ MODULE JtagUart ------------------------------
(***************************************************************************)
(* The driver of the JTAG UART, through which the keyboard program prints  *)
(* (usb_kb_bsp/drivers/src/altera_avalon_jtag_uart_*.c, the fast driver):  *)
(* one thread that writes, reads, sets the timeout and closes, the         *)
(* interrupt routine, and the alarm that looks for the host.               *)
(*                                                                         *)
(* Characters are numbered modulo Numbers, a new one following the last,   *)
(* so that one that is doubled or out of turn shows; how many are under    *)
(* way is counted apart.                                                   *)
(*                                                                         *)
(* Interrupts come between any two steps of the thread.  One turn of the   *)
(* loop of the interrupt routine is one action: what the host does in the  *)
(* meantime can as well be done after it.                                  *)
(***************************************************************************)
EXTENDS Naturals, Sequences

CONSTANTS BUF_LEN,      \* bytes of rx_buf and tx_buf: 2048
          FifoSize,     \* characters either FIFO of the device holds
          Threshold,    \* WI is raised at this many in the write FIFO
          Numbers,      \* characters are numbered modulo this
          MaxCount,     \* bound: characters of one call
          Timeouts,     \* what the timeout may be, in seconds
          Forever       \* INT_MAX: no alarm, the host is taken for present

ASSUME JtagUartAssumption ==
    /\ BUF_LEN \in Nat /\ BUF_LEN >= 2
    /\ FifoSize \in Nat /\ Threshold \in Nat /\ Threshold < FifoSize
    /\ Numbers \in Nat /\ Numbers >= BUF_LEN
    /\ MaxCount \in Nat \ {0}
    /\ Forever \in Nat /\ Forever > 2
    /\ Timeouts \subseteq 2 .. Forever - 1

(* `sent` characters the host has not taken yet, of which the first is     *)
(* number `taken`; `typed` characters the thread has not read yet, of      *)
(* which the first is number `read`.                                       *)
VARIABLES
    pc, nonblock, count, moved, seen,              \* the thread
    tx_buf, tx_in, tx_out, rx_buf, rx_in, rx_out,  \* the rings
    irq_enable, timeout, host_inactive,            \* the rest of the driver
    txFifo, rxFifo, ac,                            \* the device
    sent, taken, typed, read                       \* the streams

thread  == <<pc, nonblock, count, moved, seen>>
locals  == <<nonblock, count, moved, seen>>
tx      == <<tx_buf, tx_in, tx_out>>
rx      == <<rx_buf, rx_in, rx_out>>
clock   == <<timeout, host_inactive>>
device  == <<txFifo, rxFifo, ac>>
streams == <<sent, taken, typed, read>>
vars    == <<thread, tx, rx, irq_enable, clock, device, streams>>

Bytes == 0 .. BUF_LEN - 1

(* The pointers wrap: none of them is ever further than BUF_LEN.           *)
Wrap(i)      == IF i >= BUF_LEN THEN i - BUF_LEN ELSE i
Number(c, k) == (c + k) % Numbers
Least(a, b)  == IF a <= b THEN a ELSE b

(* How many characters wait between two pointers, and which.               *)
Fill(i, o)         == IF i >= o THEN i - o ELSE BUF_LEN + i - o
Waiting(buf, i, o) == [k \in 1 .. Fill(i, o) |-> buf[Wrap(o + k - 1)]]

(* Without a system clock, as in this system, alt_alarm_start fails and    *)
(* the host is taken for present.                                          *)
Init ==
    /\ pc = "idle" /\ nonblock = FALSE /\ count = 0 /\ moved = FALSE
    /\ seen = 0
    /\ tx_buf = [b \in Bytes |-> 0] /\ tx_in = 0 /\ tx_out = 0
    /\ rx_buf = [b \in Bytes |-> 0] /\ rx_in = 0 /\ rx_out = 0
    /\ irq_enable = {"RE"} /\ host_inactive = 0
    /\ timeout \in Timeouts \union {Forever}
    /\ txFifo = <<>> /\ rxFifo = <<>> /\ ac = FALSE
    /\ sent = 0 /\ taken = 0 /\ typed = 0 /\ read = 0

Connected == host_inactive < timeout

(***************************************************************************)
(* The thread: altera_avalon_jtag_uart_write.  Of the two pointers of a    *)
(* ring the thread moves one itself; `seen` is the other as it read it.    *)
(***************************************************************************)
Call ==
    /\ pc = "idle"
    /\ \/ pc' \in {"fill", "empty"} /\ count' \in 1 .. MaxCount
       \/ pc' = "close" /\ count' = 0
    /\ nonblock' \in BOOLEAN
    /\ UNCHANGED <<moved, seen, tx, rx, irq_enable, clock, device, streams>>

EndCall == /\ pc' = "idle" /\ nonblock' = FALSE /\ count' = 0
           /\ moved' = FALSE /\ seen' = 0

(* The bytes that can be copied at once: one byte stays free.              *)
ToTheEnd(i, o) == IF i < o THEN o - 1 - i ELSE BUF_LEN - i    \* mutant
Space(i, o) == IF i < o THEN o - 1 - i
               ELSE IF o > 0 THEN BUF_LEN - i ELSE BUF_LEN - 1 - i

WriteSnapshot ==
    /\ pc = "fill"
    /\ seen' = tx_out
    /\ pc' = IF Space(tx_in, tx_out) = 0 THEN "kick" ELSE "copyOut"
    /\ UNCHANGED <<nonblock, count, moved, tx, rx, irq_enable, clock, device,
                   streams>>

WriteCopy ==
    LET n == Least(Space(tx_in, seen), count)
    IN  /\ pc = "copyOut"
        /\ tx_buf' = [b \in Bytes |->
                        IF b \in tx_in .. tx_in + n - 1
                        THEN Number(taken, sent + b - tx_in) ELSE tx_buf[b]]
        /\ tx_in' = Wrap(tx_in + n)
        /\ sent' = sent + n
        /\ count' = count - n
        /\ pc' = IF count - n > 0 THEN "fill" ELSE "kick"
        /\ UNCHANGED <<nonblock, moved, seen, tx_out, rx, irq_enable, clock,
                       device, taken, typed, read>>

(* With interrupts disabled: the interrupt routine is made to transmit.    *)
KicksIfMore ==                                            \* mutant
    /\ pc = "kick"
    /\ irq_enable' = IF count > 0 THEN irq_enable \union {"WE"} ELSE irq_enable
    /\ IF count = 0 \/ nonblock THEN EndCall
       ELSE pc' = "spinOut" /\ UNCHANGED locals
    /\ UNCHANGED <<tx, rx, clock, device, streams>>
WriteKick ==
    /\ pc = "kick"
    /\ irq_enable' = irq_enable \union {"WE"}
    /\ IF count = 0 \/ nonblock THEN EndCall
       ELSE pc' = "spinOut" /\ UNCHANGED locals
    /\ UNCHANGED <<tx, rx, clock, device, streams>>

SpinsForSpace ==                                          \* mutant
    /\ pc = "spinOut" /\ seen # tx_out
    /\ pc' = "spunOut"
    /\ UNCHANGED <<locals, tx, rx, irq_enable, clock, device, streams>>
WriteSpin ==
    /\ pc = "spinOut" /\ (seen # tx_out \/ ~Connected)
    /\ pc' = "spunOut"
    /\ UNCHANGED <<locals, tx, rx, irq_enable, clock, device, streams>>

(* A host that has missed one second is enough to give up here.            *)
WriteSpun ==
    /\ pc = "spunOut"
    /\ IF host_inactive > 0 THEN EndCall
       ELSE pc' = "fill" /\ UNCHANGED locals
    /\ UNCHANGED <<tx, rx, irq_enable, clock, device, streams>>

(***************************************************************************)
(* The thread: altera_avalon_jtag_uart_read, close and ioctl.              *)
(***************************************************************************)
ReadSnapshot ==
    /\ pc = "empty"
    /\ seen' = rx_in
    /\ pc' = IF rx_in # rx_out THEN "copyIn"
             ELSE IF moved THEN "enable" ELSE "nothing"
    /\ UNCHANGED <<nonblock, count, moved, tx, rx, irq_enable, clock, device,
                   streams>>

ReadCopy ==
    LET n == Least(IF seen >= rx_out THEN seen - rx_out ELSE BUF_LEN - rx_out,
                   count)
    IN  /\ pc = "copyIn"
        /\ rx_out' = Wrap(rx_out + n)
        /\ read' = Number(read, n) /\ typed' = typed - n
        /\ count' = count - n /\ moved' = TRUE
        /\ pc' = IF count - n > 0 THEN "empty" ELSE "enable"
        /\ UNCHANGED <<nonblock, seen, tx, rx_buf, rx_in, irq_enable, clock,
                       device, sent, taken>>

(* There is space now, so that interrupts can be enabled, if they were off.*)
ReadEnable ==
    /\ pc = "enable"
    /\ irq_enable' = irq_enable \union {"RE"}
    /\ EndCall
    /\ UNCHANGED <<tx, rx, clock, device, streams>>

ReadNothing ==
    /\ pc = "nothing"
    /\ IF nonblock THEN EndCall
       ELSE pc' = "spinIn" /\ UNCHANGED locals
    /\ UNCHANGED <<tx, rx, irq_enable, clock, device, streams>>

ReadSpin ==
    /\ pc = "spinIn" /\ (seen # rx_in \/ ~Connected)
    /\ pc' = "spunIn"
    /\ UNCHANGED <<locals, tx, rx, irq_enable, clock, device, streams>>

ReadSpun ==
    /\ pc = "spunIn"
    /\ IF seen = rx_in THEN EndCall
       ELSE pc' = "empty" /\ UNCHANGED locals
    /\ UNCHANGED <<tx, rx, irq_enable, clock, device, streams>>

CloseUart ==
    /\ pc = "close"
    /\ tx_in = tx_out \/ ~Connected \/ nonblock
    /\ EndCall
    /\ UNCHANGED <<tx, rx, irq_enable, clock, device, streams>>

(* TIOCSTIMEOUT, refused where there is no alarm.                          *)
SetTimeout ==
    /\ pc = "idle" /\ timeout # Forever
    /\ timeout' \in Timeouts
    /\ UNCHANGED <<thread, tx, rx, irq_enable, host_inactive, device, streams>>

(***************************************************************************)
(* The interrupt routine.                                                  *)
(***************************************************************************)
RI == "RE" \in irq_enable /\ rxFifo # <<>>
WI == "WE" \in irq_enable /\ Len(txFifo) <= Threshold

(* The read half takes characters until the buffer or the FIFO gives out;  *)
(* it turns its interrupt off if the buffer is full and the device had     *)
(* more to give when it was last asked, or could not be asked at all.      *)
RoomFor      == BUF_LEN - 1 - Fill(rx_in, rx_out)
Reads        == IF RI THEN Least(RoomFor, Len(rxFifo)) ELSE 0
MasksReading == /\ RI /\ Reads = RoomFor
                /\ Reads = 0 \/ Len(rxFifo) > Reads

(* The write half fills the space the control register told of, and turns  *)
(* its interrupt off if some is left.                                      *)
SpaceInFifo  == FifoSize - Len(txFifo)
Writes       == IF WI THEN Least(SpaceInFifo, Fill(tx_in, tx_out)) ELSE 0
MasksAlways  == WI                                        \* mutant
MasksWriting == WI /\ SpaceInFifo > Writes

Interrupt ==
    /\ RI \/ WI
    /\ rx_buf' = [b \in Bytes |->
                    IF \E k \in 1 .. Reads : b = Wrap(rx_in + k - 1)
                    THEN rxFifo[CHOOSE k \in 1 .. Reads :
                                    b = Wrap(rx_in + k - 1)]
                    ELSE rx_buf[b]]
    /\ rx_in' = Wrap(rx_in + Reads)
    /\ rxFifo' = SubSeq(rxFifo, Reads + 1, Len(rxFifo))
    /\ txFifo' = txFifo \o SubSeq(Waiting(tx_buf, tx_in, tx_out), 1, Writes)
    /\ tx_out' = Wrap(tx_out + Writes)
    /\ irq_enable' = irq_enable \ ((IF MasksReading THEN {"RE"} ELSE {})
                                   \union (IF MasksWriting THEN {"WE"} ELSE {}))
    /\ UNCHANGED <<thread, tx_buf, tx_in, rx_out, clock, ac, streams>>

(* Once a second: was the host there since?  The count stops before        *)
(* INT_MAX - 1, the timeout that never comes.                              *)
Timeout ==
    /\ timeout # Forever
    /\ IF ac THEN ac' = FALSE /\ host_inactive' = 0
       ELSE /\ UNCHANGED ac
            /\ host_inactive' = IF host_inactive < Forever - 2
                                THEN host_inactive + 1 ELSE host_inactive
    /\ UNCHANGED <<thread, tx, rx, irq_enable, timeout, txFifo, rxFifo, streams>>

(***************************************************************************)
(* The host, on the other side of the cable: each access marks the device. *)
(***************************************************************************)
HostTakes ==
    /\ txFifo # <<>>
    /\ txFifo' = Tail(txFifo) /\ ac' = TRUE
    /\ taken' = Number(taken, 1) /\ sent' = sent - 1
    /\ UNCHANGED <<thread, tx, rx, irq_enable, clock, rxFifo, typed, read>>

HostTypes ==
    /\ Len(rxFifo) < FifoSize
    /\ rxFifo' = Append(rxFifo, Number(read, typed)) /\ ac' = TRUE
    /\ typed' = typed + 1
    /\ UNCHANGED <<thread, tx, rx, irq_enable, clock, txFifo, sent, taken, read>>

(***************************************************************************)
(* The specification.                                                      *)
(***************************************************************************)
Goes ==
    \/ WriteSnapshot \/ WriteCopy \/ WriteKick \/ WriteSpin \/ WriteSpun
    \/ ReadSnapshot \/ ReadCopy \/ ReadEnable \/ ReadNothing
    \/ ReadSpin \/ ReadSpun \/ CloseUart

Next == \/ Call \/ Goes \/ SetTimeout
        \/ Interrupt \/ Timeout \/ HostTakes \/ HostTypes

Spec == Init /\ [][Next]_vars

(* The thread runs on within a call, interrupts and alarms are served.     *)
FairSpec == Spec /\ WF_vars(Goes) /\ WF_vars(Interrupt) /\ WF_vars(Timeout)

(***************************************************************************)
(* Properties.                                                             *)
(***************************************************************************)
(* What is under way in either direction is what was sent and has not      *)
(* arrived, in order: the interrupt routine takes characters in the middle *)
(* of a call that copies, and neither side has a lock                      *)
(* (write.c:100-127, read.c:117-144, init.c:125-195).                      *)
Stream(s, from, n) == /\ Len(s) = n
                      /\ \A k \in 1 .. n : s[k] = Number(from, k - 1)
InOrder ==
    /\ Stream(txFifo \o Waiting(tx_buf, tx_in, tx_out), taken, sent)
    /\ Stream(Waiting(rx_buf, rx_in, rx_out) \o rxFifo, read, typed)

(* No wakeup is lost.  Characters that wait for the device have its        *)
(* interrupt on, or the thread is about to turn it on; and its read        *)
(* interrupt is off only as long as characters wait for the thread, or it  *)
(* is about to turn it on (write.c:136-139, read.c:188-195,                *)
(* init.c:156-195).                                                        *)
NoLostWakeup ==
    /\ tx_in = tx_out \/ "WE" \in irq_enable \/ pc \in {"fill", "copyOut", "kick"}
    /\ "RE" \in irq_enable \/ rx_in # rx_out \/ pc = "enable"
       \/ (pc = "empty" /\ moved)

(* A write or a close comes back if the host goes on taking characters, or *)
(* an alarm finds out that it does not: the thread is again and again in   *)
(* no such call (write.c:183-187, init.c:241-254).                         *)
InWriteOrClose ==
    pc \in {"fill", "copyOut", "kick", "spinOut", "spunOut", "close"}
CallsReturn ==
    []<>(txFifo = <<>>) \/ <>[](timeout < Forever - 1)
        => []<>~InWriteOrClose

(* What a call handed over goes on to the device, if the host takes what   *)
(* is there: no character stays the next one for ever (init.c:169-195).    *)
Delivered ==
    []<>(txFifo = <<>>)
        => \A b \in Bytes : []<>~(tx_out = b /\ tx_in # b)

=============================================================================
