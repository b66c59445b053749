------------------------------ MODULE UsbLists ------------------------------
(***************************************************************************)
(* The requests of the enumeration (software/usb_kb/usb.c): each is a list *)
(* of transfer descriptors that the software writes, word by word, into    *)
(* the memory of the USB controller from 0x500 on, where the eight bytes   *)
(* of the request itself follow the first descriptor.  A descriptor is     *)
(*    <<buffer, length, packet id and address, control, next>>;            *)
(* its sixth word, 0x0013, makes it active with three attempts.            *)
(*                                                                         *)
(* The controller follows `next` and stores what it receives in the        *)
(* buffers, which lie in the same memory, behind the list.                 *)
(***************************************************************************)
EXTENDS Naturals, Sequences, FiniteSets

ListStart == \h500
Slots     == {ListStart} \union {\h514 + 12 * i : i \in 0 .. 8}

(* The first descriptor sends the request, to address 0 or 2.              *)
SetupTo0 == <<\h50C, 8, \h0D0, \h01, \h514>>
SetupTo2 == <<\h50C, 8, \h2D0, \h01, \h514>>
StatusIn == <<0, 0, \h290, \h41, 0>>

UsbSetAddress ==
    [wLength |-> 0, tds |-> <<SetupTo0, <<0, 0, \h090, \h41, 0>>>>]

UsbGetDeviceDesc1 ==
    [wLength |-> 8,
     tds |-> <<SetupTo2, <<\h52C, 8, \h290, \h41, \h520>>,
               <<0, 0, \h210, \h41, 0>>>>]

BufferInList ==                                           \* mutant
    [wLength |-> \h12,
     tds |-> <<SetupTo2, <<\h52C, 8, \h290, \h41, \h520>>,
               <<\h534, 8, \h290, \h01, \h52C>>,
               <<\h53C, 2, \h290, \h41, \h538>>,
               <<0, 0, \h210, \h41, 0>>>>]
UsbGetDeviceDesc2 ==
    [wLength |-> \h12,
     tds |-> <<SetupTo2, <<\h544, 8, \h290, \h41, \h520>>,
               <<\h54C, 8, \h290, \h01, \h52C>>,
               <<\h554, 2, \h290, \h41, \h538>>,
               <<0, 0, \h210, \h41, 0>>>>]

UsbGetConfigDesc1 ==
    [wLength |-> 9,
     tds |-> <<SetupTo2, <<\h544, 8, \h290, \h41, \h520>>,
               <<\h54C, 1, \h290, \h01, \h52C>>,
               <<0, 0, \h210, \h41, 0>>>>]

UsbGetConfigDesc2 ==
    [wLength |-> \hFF,
     tds |-> <<SetupTo2, <<\h55C, 8, \h290, \h41, \h520>>,
               <<\h564, 8, \h290, \h01, \h52C>>,
               <<\h56C, 8, \h290, \h41, \h538>>,
               <<\h574, 8, \h290, \h01, \h544>>,
               <<\h57C, 2, \h290, \h41, \h550>>,
               <<0, 0, \h210, \h41, 0>>>>]

UsbSetConfig    == [wLength |-> 0, tds |-> <<SetupTo2, StatusIn>>]
UsbClassRequest == [wLength |-> 0, tds |-> <<SetupTo2, StatusIn>>]

UsbGetHidDesc ==
    [wLength |-> \h7B,
     tds |-> <<SetupTo2, <<\h544, 8, \h290, \h41, \h520>>,
               <<0, 0, \h210, \h41, 0>>>>]

LowBuffer == <<\h448, 8, \h290, \h01, \h52C>>              \* mutant
ReportIn2 == <<\h588, 8, \h290, \h01, \h52C>>

UsbGetReportDesc ==
    [wLength |-> \h7B,
     tds |-> <<SetupTo2, <<\h580, 8, \h290, \h41, \h520>>,
               ReportIn2,
               <<\h590, 8, \h290, \h41, \h538>>,
               <<\h598, 8, \h290, \h01, \h544>>,
               <<\h5A0, 8, \h290, \h41, \h550>>,
               <<\h5A8, 8, \h290, \h01, \h55C>>,
               <<\h5B0, 8, \h290, \h41, \h568>>,
               <<\h5B8, 3, \h290, \h01, \h574>>,
               <<0, 0, \h210, \h41, 0>>>>]

(* The key loop asks endpoint 1 for a report of eight bytes.  The toggle   *)
(* bit of its control word changes from one poll to the next, whether or   *)
(* not a report came: one that comes out of turn may be dropped, which is  *)
(* like a poll that brings nothing new.                                    *)
KeyPoll == [wLength |-> 8, tds |-> <<<<\h51C, 8, \h291, \h01, 0>>>>]

Requests == <<UsbSetAddress, UsbGetDeviceDesc1, UsbGetDeviceDesc2,
              UsbGetConfigDesc1, UsbGetConfigDesc2, UsbSetConfig,
              UsbClassRequest, UsbGetHidDesc, UsbGetReportDesc, KeyPoll>>

(***************************************************************************)
(* The memory, as far as lists go: the descriptor each slot holds.         *)
(***************************************************************************)
Other == <<0, 0, 0, 0, 0>>       \* words that were not written as a list

SlotOf(i) == IF i = 1 THEN ListStart ELSE \h514 + 12 * (i - 2)

Written(mem, request) ==
    [a \in Slots |->
        IF \E i \in DOMAIN request.tds : a = SlotOf(i)
        THEN request.tds[CHOOSE i \in DOMAIN request.tds : a = SlotOf(i)]
        ELSE mem[a]]

Overlap(a, la, b, lb) == a < b + lb /\ b < a + la

(* The slots the controller comes to, 0 once it has stopped.  It would     *)
(* take any words for a descriptor: Holds says that it meets none but the  *)
(* slots.                                                                  *)
Walk(mem) ==
    LET at[i \in 1 .. 11] ==
            IF i = 1 THEN ListStart
            ELSE IF at[i - 1] \in Slots THEN mem[at[i - 1]][5] ELSE 0
    IN  at

(* The slots that received bytes lie in hold a list no longer: those that  *)
(* the buffers of the IN packets reach into.                               *)
Received(mem) ==
    LET at == Walk(mem)
        ins == {td \in {mem[a] : a \in {at[i] : i \in 1 .. 10} \cap Slots} :
                   td[3] \in {\h090, \h290, \h291} /\ td[2] > 0}
    IN  [a \in Slots |-> IF \E td \in ins : Overlap(a, 12, td[1], td[2])
                         THEN Other ELSE mem[a]]

(* The bytes of request r that its data phase transfers, of those asked.   *)
Bytes(r) ==
    LET upto[i \in 0 .. Len(r.tds)] ==
            IF i = 0 THEN 0
            ELSE upto[i - 1]
                 + (IF r.tds[i][1] > \h50C THEN r.tds[i][2] ELSE 0)
    IN  upto[Len(r.tds)]

(* A request that can be executed: what it receives overwrites neither its *)
(* list, nor the eight bytes behind the first descriptor, nor other        *)
(* received bytes; the packets of the data phase alternate, DATA1 first,   *)
(* all but the last are full, and together they are no more than announced.*)
Fits(r) ==
    LET n == Len(r.tds)
        data == 2 .. n - 1
        Lies(i, a, l) == Overlap(r.tds[i][1], r.tds[i][2], a, l)
    IN  /\ \A i, j \in data :
              i # j => ~Lies(i, r.tds[j][1], r.tds[j][2])
        /\ \A i \in data, j \in 1 .. n : ~Lies(i, SlotOf(j), 12)
        /\ \A i \in data : ~Lies(i, \h50C, 8)
        /\ \A i \in data : r.tds[i][4] = IF i % 2 = 0 THEN \h41 ELSE \h01
        /\ \A i \in 2 .. n - 2 : r.tds[i][2] = 8
        /\ Bytes(r) <= r.wLength

FittingRequests == {k \in DOMAIN Requests : Fits(Requests[k])}

(* The controller reaches every descriptor of r once, in order, and stops. *)
Holds(mem, r) ==
    LET n == Len(r.tds)
        at == Walk(mem)
    IN  /\ \A i \in 1 .. 10 : at[i] = IF i <= n THEN SlotOf(i) ELSE 0
        /\ \A i \in 1 .. n : mem[SlotOf(i)] = r.tds[i]

=============================================================================
