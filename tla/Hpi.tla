-------------------------------- MODULE Hpi --------------------------------
(***************************************************************************)
(* The bus between the processor and the USB controller: the accesses of   *)
(* io_handler.c and usb.c are sequences of stores to the parallel ports of *)
(* the processor; hpi_io_intf.sv copies the ports to the pins of the       *)
(* controller, one clock later, and the data pins back. The two sides run  *)
(* at their own speed: nothing tells the software that the pins follow.    *)
(*                                                                         *)
(* The controller (outside the repository) is modelled from its use: a     *)
(* write ends when WR_N or CS_N rises, at the pins of that moment; while   *)
(* RD_N and CS_N are low it drives the selected word on the data pins.     *)
(***************************************************************************)
EXTENDS Naturals, Sequences

CONSTANTS Addresses,  \* addresses of words of the controller
          Data,       \* their values
          Zero,       \* the zero both contain: reset values
          Gap         \* least number of clocks between two port accesses

ASSUME HpiAssumption == /\ Zero \in Addresses \intersect Data
                        /\ Gap \in Nat

VARIABLES todo,   \* the rest of the port accesses of the call in progress
          wait,   \* clocks until the next one
          ports,  \* the parallel ports: address, data, r, w, cs
          pins,   \* the registers of hpi_io_intf
          input,  \* from_sw_data_in
          temp,   \* what IO_read returns
          chip,   \* the controller: its address register and its words
          words,  \* history: what the finished calls of UsbWrite wrote
          call,   \* the call in progress
          reset,  \* Reset_h: the push button resets hpi_io_intf, not the processor
          cut     \* history: a reset met a call

hpiVars == <<todo, wait, ports, pins, input, temp, chip, words, call, reset, cut>>

Idle == [op |-> "none"]
AddressPort == 2   \* HPI register numbers
DataPort    == 0
Quiet == [address |-> DataPort, data |-> Zero, r |-> 1, w |-> 1, cs |-> 1]

\* The ports after IO_init().
HpiInit ==
    /\ todo = <<>> /\ wait = 0 /\ call = Idle
    /\ ports = Quiet /\ pins = Quiet /\ input = Zero /\ temp = Zero
    /\ chip = [address |-> Zero, words |-> [a \in Addresses |-> Zero]]
    /\ words = [a \in Addresses |-> Zero]
    /\ reset = FALSE /\ cut = FALSE
-----------------------------------------------------------------------------
\* The strobe before the data.
StrobeFirst(address, data) ==
    << <<"address", address>>, <<"cs", 0>>, <<"r", 1>>, <<"w", 0>>, <<"w", 1>>,
       <<"data", data>>, <<"cs", 1>> >>

\* The stores of io_handler.c: <<port, value>>; <<"load">> reads the data
\* port.
IO_write(address, data) ==
    << <<"address", address>>, <<"cs", 0>>, <<"r", 1>>, <<"data", data>>,
       <<"w", 0>>, <<"w", 1>>, <<"cs", 1>> >>
IO_read(address) ==
    << <<"address", address>>, <<"cs", 0>>, <<"w", 1>>, <<"r", 0>>, <<"load">>,
       <<"r", 1>>, <<"cs", 1>> >>

\* UsbWrite() and UsbRead(): the address register first, then the word.
UsbWrite(address, data) == IO_write(AddressPort, address) \o IO_write(DataPort, data)
UsbRead(address)        == IO_write(AddressPort, address) \o IO_read(DataPort)

\* After a reset has met a call nothing is promised: no further call then.
CallUsb ==
    /\ todo = <<>> /\ call = Idle /\ ~cut
    /\ \E a \in Addresses :
          \/ \E d \in Data : /\ call' = [op |-> "write", address |-> a, data |-> d]
                             /\ todo' = UsbWrite(a, d)
          \/ /\ call' = [op |-> "read", address |-> a]
             /\ todo' = UsbRead(a)
    /\ UNCHANGED <<wait, ports, pins, input, temp, chip, words, reset, cut>>

ReturnUsb ==
    /\ todo = <<>> /\ call # Idle
    /\ words' = IF call.op = "write" THEN [words EXCEPT ![call.address] = call.data]
                ELSE words
    /\ call' = Idle
    /\ UNCHANGED <<todo, wait, ports, pins, input, temp, chip, reset, cut>>

\* One access to a port, at least Gap clocks after the one before.
Access ==
    /\ todo # <<>> /\ wait = 0
    /\ LET step == Head(todo)
       IN  IF step[1] = "load"
           THEN temp' = input /\ UNCHANGED ports
           ELSE ports' = [ports EXCEPT ![step[1]] = step[2]] /\ UNCHANGED temp
    /\ todo' = Tail(todo)
    /\ wait' = Gap
    /\ UNCHANGED <<pins, input, chip, words, call, reset, cut>>
-----------------------------------------------------------------------------
\* What is on the data pins: hpi_io_intf drives them while WR_N is low, the
\* controller while it is read, otherwise nobody does.
OtgData == IF pins.w = 0 THEN {pins.data}
           ELSE IF pins.r = 0 /\ pins.cs = 0 /\ pins.address = DataPort
                THEN {chip.words[chip.address]} ELSE Data

\* One clock: the pins follow the ports or are reset, and the controller
\* sees a write end.
WriteEnds(then) == pins.w = 0 /\ pins.cs = 0 /\ (then.w = 1 \/ then.cs = 1)
Written ==
    CASE pins.address = AddressPort -> [chip EXCEPT !.address = pins.data]
      [] pins.address = DataPort    -> [chip EXCEPT !.words[chip.address] = pins.data]
Clk ==
    /\ wait' = IF wait = 0 THEN 0 ELSE wait - 1
    /\ pins' = IF reset THEN Quiet ELSE ports
    /\ input' \in IF reset THEN {Zero} ELSE OtgData
    /\ chip' = IF WriteEnds(pins') THEN Written ELSE chip
    /\ cut' = (cut \/ (reset /\ call # Idle))
    /\ UNCHANGED <<todo, ports, temp, words, call, reset>>

Button == /\ reset' = ~reset
          /\ UNCHANGED <<todo, wait, ports, pins, input, temp, chip, words, call, cut>>

HpiNext == CallUsb \/ ReturnUsb \/ Access \/ Clk \/ Button
HpiSpec == HpiInit /\ [][HpiNext]_hpiVars
-----------------------------------------------------------------------------
(***************************************************************************)
(* As long as no reset meets a call, a finished UsbWrite has put its word  *)
(* at its address and no other, and UsbRead returns the last word written  *)
(* there: the pins strobed by the software never catch the data, the       *)
(* address or the answer of the access before. A reset between calls does  *)
(* no harm.                                                                *)
(***************************************************************************)
WordsAsWritten ==
    todo = <<>> /\ ~cut =>
        /\ call # Idle /\ call.op = "read" => temp = words[call.address]
        /\ call = Idle => \A a \in Addresses : chip.words[a] = words[a]
=============================================================================
