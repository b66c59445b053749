------------------------------ MODULE UsbHost ------------------------------
(***************************************************************************)
(* The keyboard: the program on the NIOS II (software/usb_kb/main.c and    *)
(* usb.c), the USB controller it talks to through the HPI registers, and   *)
(* the keyboard itself, which may be pulled out and put back.              *)
(*                                                                         *)
(* The program is one thread without interrupts; its state is where it is  *)
(* (pc, step), the message it read (got), and the key codes.  An action    *)
(* ends where the controller's state is read or written, so that the       *)
(* controller and the user come in between at every place that matters.    *)
(*                                                                         *)
(* The controller and the keyboard are not in the repository: their        *)
(* actions are everything the program is written to meet.  The controller  *)
(* takes the list the pointer names at the start of a USB frame, may start *)
(* over when it is given the pointer again, and posts TDListDone at the    *)
(* end.  The flag of the status register says that a message was posted    *)
(* and not been read since, the word 0x508 how the first descriptor fared. *)
(*                                                                         *)
(* A request is sent again as long as no message has come, and the message *)
(* of the first sending lets the program go on to the next request while   *)
(* the controller still has the second sending before it.  The next list   *)
(* is then written, word by word, under a controller that reads it, and    *)
(* what the controller says of the old request counts for the new one.     *)
(* `taken` is the request the controller has really taken, and the history *)
(* `late` tells that a list was overtaken in this way since the bus reset. *)
(***************************************************************************)
EXTENDS UsbLists, KeySlots

CONSTANTS Reports,      \* the reports the keyboard may send
          MaxFaults,    \* bound: requests on which a keyboard in place fails or is slow
          MaxPlugs      \* bound: times the keyboard is pulled out

ASSUME UsbHostAssumption ==
    /\ NSlots <= 6 /\ 0 .. 255 \subseteq Codes
    /\ Reports \subseteq Rows
    /\ MaxFaults \in Nat /\ MaxPlugs \in Nat

VARIABLES
    pc, step, got,                                 \* the program
    row, old, new, next,                           \* its key loop
    sie, pending, taken, msg, flag, ctl, mem,      \* the controller and
    content, received,                             \*   its memory
    plugged, addressed, seen,                      \* the keyboard
    late, strays, upset, faults, plugs             \* history and bounds

program    == <<pc, step, got>>
keys       == <<row, old, new, next>>
controller == <<sie, pending, taken, msg, flag, ctl, mem, content, received>>
keyboard   == <<plugged, addressed, seen>>
history    == <<late, strays, upset, faults, plugs>>
vars       == <<program, keys, controller, keyboard, history>>

(* The requests by number.                                                 *)
SetAddress  == 1
DeviceDesc1 == 2
ConfigDesc2 == 5
Last        == 9
Poll        == 10

Locations == {"reset", "init", "detect", "absent", "write", "writing", "start", "poll",
              "rewrite", "restart", "sleep", "wait", "clear", "check",
              "retry", "drop", "spin", "recheck", "endpoint", "point", "read",
              "show", "present", "gone"}

Init ==
    /\ pc = "reset" /\ step = SetAddress /\ got = "none"
    /\ row = Empty /\ old = Empty /\ new = Empty
    /\ next = NSlots + 1
    /\ sie = "idle" /\ pending = "none" /\ taken = 0
    /\ msg = "none" /\ flag = FALSE
    /\ ctl = "active" /\ mem = [a \in Slots |-> Other]
    /\ content = 0 /\ received = Empty
    /\ plugged \in BOOLEAN /\ addressed = FALSE /\ seen = {}
    /\ late = FALSE /\ strays = FALSE
    /\ upset = FALSE /\ faults = 0 /\ plugs = 0

(***************************************************************************)
(* The program: reset of the controller and of the bus.                    *)
(***************************************************************************)
(* USB_HOT_PLUG: the controller forgets its list and messages.             *)
UsbSoftReset ==
    /\ pc = "reset" /\ pc' = "init"
    /\ sie' = "idle" /\ pending' = "none" /\ msg' = "none" /\ flag' = FALSE
    /\ UNCHANGED <<step, got, keys, taken, ctl, mem, content, received, keyboard,
                   history>>

(* Steps 1 and 2: the controller is set up and the bus is reset, which     *)
(* takes the address of the keyboard away.  Any other answer than COMM_ACK *)
(* starts all over.                                                        *)
InitAcknowledged ==
    /\ pc = "init" /\ pc' = "detect"
    /\ addressed' = FALSE /\ seen' = {} /\ late' = FALSE
    /\ UNCHANGED <<step, got, keys, controller, plugged, strays, upset, faults,
                   plugs>>

InitRefused ==
    /\ pc = "init" /\ pc' = "reset"
    /\ UNCHANGED <<step, got, keys, controller, keyboard, history>>

Detect ==
    /\ pc = "detect"
    /\ pc' = IF plugged THEN "write" ELSE "absent"
    /\ step' = SetAddress
    /\ UNCHANGED <<got, keys, controller, keyboard, history>>

(* Nothing was there: as soon as something is, the program starts over.    *)
Appears ==
    /\ pc \in {"absent", "gone"} /\ plugged
    /\ pc' = "reset"
    /\ UNCHANGED <<step, got, keys, controller, keyboard, history>>

(***************************************************************************)
(* The program: one request.  It is written and started, and again as long *)
(* as no message has come, with a sleep after each time but the first.     *)
(***************************************************************************)
(* The report is received at 0x51C, its key codes from 0x51E on: between   *)
(* the last word of the second descriptor of a longer list and the third   *)
(* word of its third.                                                      *)
WordsAtReport(m) ==
    LET word == <<m[\h514][5], m[\h520][1], m[\h520][2]>>
    IN  [i \in Places |-> IF i % 2 = 1 THEN word[(i + 1) \div 2] % 256
                                      ELSE word[i \div 2] \div 256]

(* What the keyboard is asked for while there is a list to execute.        *)
Executing == pending = "list" \/ sie \in {"setup", "rest"}

(* The list of another request: word by word, the first descriptor with    *)
(* its word at 0x508 before the rest.  The controller may come in between. *)
BeginList ==
    /\ pc = "write" /\ content # step
    /\ pc' = "writing"
    /\ mem' = [mem EXCEPT ![ListStart] = Requests[step].tds[1]]
    /\ ctl' = "active"
    /\ late' = (late \/ Executing)
    /\ UNCHANGED <<step, got, keys, sie, pending, taken, msg, flag, content,
                   received, keyboard, strays, upset, faults, plugs>>

EndList ==
    /\ pc = "writing" /\ pc' = "start"
    /\ mem' = Written(mem, Requests[step])
    /\ content' = step
    /\ received' = IF step = Poll THEN received ELSE WordsAtReport(mem')
    /\ UNCHANGED <<step, got, keys, sie, pending, taken, msg, flag, ctl,
                   keyboard, history>>

(* The same request again: the words that are there, but for 0x508, for    *)
(* what was received, and for the toggle bit of a poll.                    *)
RepeatList ==
    /\ pc \in {"write", "rewrite"} /\ content = step
    /\ pc' = IF pc = "write" THEN "start" ELSE "restart"
    /\ mem' = Written(mem, Requests[step])
    /\ ctl' = "active"
    /\ received' = IF step = Poll THEN received ELSE WordsAtReport(mem')
    /\ UNCHANGED <<step, got, keys, sie, pending, taken, msg, flag, content,
                   keyboard, history>>

(* HUSB_SIE1_pCurrentTDPtr.  The second configuration request sleeps       *)
(* before it looks for the message.                                        *)
StartList ==
    /\ pc \in {"start", "restart"}
    /\ pc' = IF pc = "start" /\ step # ConfigDesc2 THEN "poll" ELSE "sleep"
    /\ pending' = "list"
    /\ UNCHANGED <<step, got, keys, sie, taken, msg, flag, ctl, mem, content,
                   received, keyboard, history>>

(* 10 ms, in which the list ends, or a slow keyboard has not answered yet. *)
Sleep ==
    /\ pc = "sleep" /\ pc' = "poll"
    /\ \/ sie = "idle" /\ pending = "none" /\ UNCHANGED history
       \/ /\ sie # "idle" \/ pending # "none"
          /\ faults < MaxFaults
          /\ faults' = faults + 1 /\ upset' = TRUE
          /\ UNCHANGED <<late, strays, plugs>>
    /\ UNCHANGED <<step, got, keys, controller, keyboard>>

PollFlag ==
    /\ pc = "poll"
    /\ pc' = IF flag THEN "wait" ELSE "rewrite"
    /\ UNCHANGED <<step, got, keys, controller, keyboard, history>>

(***************************************************************************)
(* The program: the end of a request.                                      *)
(***************************************************************************)
(* UsbWaitTDListDone: reading the message takes the flag back; it is then  *)
(* overwritten with 0, whatever it is by then.                             *)
ReadMessage ==
    /\ pc = "wait" /\ pc' = "clear"
    /\ got' = msg /\ flag' = FALSE
    /\ UNCHANGED <<step, keys, sie, pending, taken, msg, ctl, mem, content,
                   received, keyboard, history>>

ClearMessage ==
    /\ pc = "clear"
    /\ pc' = IF got # "done" THEN "wait"
             ELSE IF step = Poll THEN "read" ELSE "check"
    /\ msg' = "none"
    /\ UNCHANGED <<step, got, keys, sie, pending, taken, flag, ctl, mem,
                   content, received, keyboard, history>>

GoesOn ==
    /\ step' = IF step = ConfigDesc2 THEN step ELSE step + 1
    /\ pc' = IF step = ConfigDesc2 THEN "endpoint" ELSE "write"

(* The first word of the list: 0x03 means done at the first attempt.  The  *)
(* first two requests start all over otherwise, the others ask for ever.   *)
Unchecked ==                                              \* mutant
    /\ pc = "check"
    /\ GoesOn
    /\ UNCHANGED <<got, keys, controller, keyboard, history>>
Insists ==                                                \* mutant
    /\ pc = "check"
    /\ \/ ctl = "ok" /\ GoesOn
       \/ ctl # "ok" /\ pc' = "retry" /\ UNCHANGED step
    /\ UNCHANGED <<got, keys, controller, keyboard, history>>
CheckControl ==
    /\ pc = "check"
    /\ \/ ctl = "ok" /\ GoesOn
       \/ /\ ctl # "ok"
          /\ pc' = IF step = DeviceDesc1 THEN "reset" ELSE "retry"
          /\ UNCHANGED step
    /\ UNCHANGED <<got, keys, controller, keyboard, history>>

(* UsbGetRetryCnt: a second TDListDone is taken off, and another message   *)
(* waited for, before the control word is read again.                      *)
RetryMessage ==
    /\ pc = "retry"
    /\ got' = msg /\ flag' = FALSE
    /\ pc' = IF msg = "done" THEN "drop" ELSE "recheck"
    /\ UNCHANGED <<step, keys, sie, pending, taken, msg, ctl, mem, content,
                   received, keyboard, history>>

DropMessage ==
    /\ pc = "drop" /\ pc' = "spin"
    /\ msg' = "none"
    /\ UNCHANGED <<step, got, keys, sie, pending, taken, flag, ctl, mem,
                   content, received, keyboard, history>>

SpinForFlag ==
    /\ pc = "spin" /\ flag /\ pc' = "recheck"
    /\ UNCHANGED <<step, got, keys, controller, keyboard, history>>

RecheckControl ==
    /\ pc = "recheck"
    /\ \/ step = SetAddress /\ pc' = "reset" /\ UNCHANGED step
       \/ step # SetAddress /\ ctl = "ok" /\ GoesOn
       \/ step # SetAddress /\ ctl # "ok" /\ pc' = "retry" /\ UNCHANGED step
    /\ UNCHANGED <<got, keys, controller, keyboard, history>>

(* Five words are written over the endpoint descriptor just received, and  *)
(* the pointer is set to them as if they were a list.                      *)
WriteEndpoint ==
    /\ pc = "endpoint" /\ pc' = "point"
    /\ mem' = [mem EXCEPT ![\h574] = Other]
    /\ UNCHANGED <<step, got, keys, sie, pending, taken, msg, flag, ctl,
                   content, received, keyboard, history>>

PointAtEndpoint ==
    /\ pc = "point" /\ pc' = "write"
    /\ pending' = "junk" /\ step' = step + 1
    /\ UNCHANGED <<got, keys, sie, taken, msg, flag, ctl, mem, content,
                   received, keyboard, history>>

(***************************************************************************)
(* The program: the key loop.                                              *)
(***************************************************************************)
FirstKeyOnly ==                                           \* mutant
    /\ pc = "read" /\ pc' = "show"
    /\ new' = (IF received[1] = new[1] THEN new ELSE received) /\ next' = 1 /\ strays' = late
    /\ UNCHANGED <<step, got, row, old, controller, keyboard, late, upset,
                   faults, plugs>>
ReadReport ==
    /\ pc = "read" /\ pc' = "show"
    /\ new' = received /\ next' = 1 /\ strays' = late
    /\ UNCHANGED <<step, got, row, old, controller, keyboard, late, upset,
                   faults, plugs>>

(* *keyA .. *keyF, one after the other.                                    *)
Backwards(i) == NSlots + 1 - i                            \* mutant
Forwards(i)  == i
ShowKey ==
    /\ pc = "show"
    /\ row' = [row EXCEPT ![Forwards(next)] = new[Forwards(next)]]
    /\ next' = next + 1
    /\ pc' = IF next = NSlots THEN "present" ELSE "show"
    /\ old' = IF next = NSlots THEN new ELSE old
    /\ UNCHANGED <<step, got, new, controller, keyboard, history>>

(* A keyboard that is back before the last look was never gone.            *)
LookForDevice ==
    /\ pc = "present"
    /\ pc' = IF plugged THEN "write" ELSE "gone"
    /\ UNCHANGED <<step, got, keys, controller, keyboard, history>>

(***************************************************************************)
(* The controller and the keyboard on its bus.                             *)
(***************************************************************************)
(* What listens to the request that was taken.                             *)
Answers == plugged /\ taken # 0 /\ (addressed <=> taken # SetAddress)

(* While the next list is being written the controller takes the old       *)
(* request, the new one, or some words of each: 0 stands for a request     *)
(* that is neither, and that no keyboard answers.                          *)
TakeList ==
    /\ sie = "idle" /\ pending # "none"
    /\ IF pending = "junk" THEN sie' = "junk" /\ UNCHANGED taken
       ELSE /\ sie' = "setup"
            /\ taken' \in IF pc = "writing" THEN {content, step, 0}
                          ELSE {content}
    /\ pending' = "none"
    /\ UNCHANGED <<program, keys, msg, flag, ctl, mem, content, received,
                   keyboard, history>>

StartOver ==
    /\ sie # "idle" /\ pending # "none"
    /\ sie' = "idle"
    /\ UNCHANGED <<program, keys, pending, taken, msg, flag, ctl, mem, content,
                   received, keyboard, history>>

HearsAll == seen' = seen \union {taken}                   \* mutant
Hears    == seen' = seen \union ({taken} \intersect (SetAddress .. Last))

(* The control word is at 0x508 whatever list lies there by now.           *)
FirstAccepted ==
    /\ sie = "setup" /\ Answers
    /\ sie' = "rest" /\ ctl' = "ok" /\ Hears
    /\ UNCHANGED <<program, keys, pending, taken, msg, flag, mem, content,
                   received, plugged, addressed, history>>

(* A keyboard in place misses the request, or answers a later attempt.     *)
FirstDisturbed ==
    /\ sie = "setup" /\ Answers /\ faults < MaxFaults
    /\ ctl' = "retried" /\ faults' = faults + 1
    /\ \/ sie' = "rest" /\ Hears
       \/ sie' = "failed" /\ UNCHANGED seen
    /\ upset' = (upset \/ taken \notin {SetAddress, DeviceDesc1, Poll})
    /\ UNCHANGED <<program, keys, pending, taken, msg, flag, mem, content,
                   received, plugged, addressed, late, strays, plugs>>

FirstUnanswered ==
    /\ sie = "setup" /\ ~Answers
    /\ sie' = "failed" /\ ctl' = "retried"
    /\ upset' = (upset \/ taken \notin {SetAddress, DeviceDesc1, Poll}
                       \/ (taken = Poll /\ plugged))
    /\ UNCHANGED <<program, keys, pending, taken, msg, flag, mem, content,
                   received, keyboard, late, strays, faults, plugs>>

PostsDone == sie' = "idle" /\ msg' = "done" /\ flag' = TRUE

(* The other descriptors.  The address counts from the end of its request; *)
(* a poll brings a report, or nothing new.                                 *)
RestDone ==
    /\ sie = "rest" /\ PostsDone
    /\ mem' = Received(mem)
    /\ addressed' = (addressed \/ (taken = SetAddress /\ taken \in seen))
    /\ IF taken = Poll /\ Answers
       THEN received' \in Reports \union {received} ELSE UNCHANGED received
    /\ UNCHANGED <<program, keys, pending, taken, ctl, content, plugged, seen,
                   history>>

ListFailed ==
    /\ sie = "failed" /\ PostsDone
    /\ UNCHANGED <<program, keys, pending, taken, ctl, mem, content, received,
                   keyboard, history>>

(* The words at 0x576 are no list: nobody knows whether the controller     *)
(* says it is done with them.                                              *)
JunkEnds ==
    /\ sie = "junk"
    /\ \/ sie' = "idle" /\ UNCHANGED <<msg, flag, upset>>
       \/ PostsDone /\ upset' = TRUE
    /\ UNCHANGED <<program, keys, pending, taken, ctl, mem, content, received,
                   keyboard, late, strays, faults, plugs>>

(***************************************************************************)
(* The user.                                                               *)
(***************************************************************************)
Unplug ==
    /\ plugged /\ plugs < MaxPlugs
    /\ plugged' = FALSE /\ addressed' = FALSE /\ seen' = {}
    /\ plugs' = plugs + 1
    /\ UNCHANGED <<program, keys, controller, late, strays, upset, faults>>

Plug ==
    /\ ~plugged /\ plugged' = TRUE
    /\ UNCHANGED <<program, keys, controller, addressed, seen, history>>

(***************************************************************************)
(* The specification.                                                      *)
(***************************************************************************)
Program ==
    \/ UsbSoftReset \/ InitAcknowledged \/ InitRefused \/ Detect \/ Appears
    \/ BeginList \/ EndList \/ RepeatList \/ StartList \/ Sleep \/ PollFlag
    \/ ReadMessage \/ ClearMessage \/ CheckControl
    \/ RetryMessage \/ DropMessage \/ SpinForFlag \/ RecheckControl
    \/ WriteEndpoint \/ PointAtEndpoint
    \/ ReadReport \/ ShowKey \/ LookForDevice

Controller ==
    \/ TakeList \/ FirstAccepted \/ FirstDisturbed \/ FirstUnanswered
    \/ RestDone \/ ListFailed \/ JunkEnds

Next == Program \/ Controller \/ StartOver \/ Unplug \/ Plug

Spec == Init /\ [][Next]_vars

(* The program runs, the controller goes on with a list it was given, and  *)
(* its answer to the initialisation is not refused for ever.               *)
Fairness == WF_vars(Program) /\ WF_vars(Controller) /\ SF_vars(InitAcknowledged)

FairSpec == Spec /\ Fairness

(***************************************************************************)
(* Properties.                                                             *)
(***************************************************************************)
(* The state is well formed.                                               *)
TypeOK ==
    /\ pc \in Locations /\ step \in SetAddress .. Poll
    /\ got \in {"none", "done"} /\ msg \in {"none", "done"}
    /\ row \in Rows /\ old \in Rows /\ new \in Rows
    /\ next \in 1 .. NSlots + 1
    /\ sie \in {"idle", "setup", "rest", "failed", "junk"}
    /\ pending \in {"none", "list", "junk"} /\ taken \in 0 .. Poll
    /\ flag \in BOOLEAN
    /\ ctl \in {"active", "ok", "retried"} /\ content \in 0 .. Poll
    /\ received \in Rows
    /\ plugged \in BOOLEAN /\ addressed \in BOOLEAN
    /\ seen \subseteq SetAddress .. Last
    /\ late \in BOOLEAN /\ strays \in BOOLEAN
    /\ upset \in BOOLEAN /\ faults \in 0 .. MaxFaults /\ plugs \in 0 .. MaxPlugs

(* The requests are heard one after the other: what lets the program go on *)
(* to the next request is the end of this one ("call the appropriate       *)
(* function again if it wasn't processed successfully", main.c:180-469).   *)
NoneSkipped == \A k \in seen : 1 .. k \subseteq seen

(* As long as no list is overtaken: whatever is sent twice, taken for an   *)
(* answer too early, fails or is pulled out, a keyboard hears the requests *)
(* in their order without a gap, and is polled only when it has heard them *)
(* all (main.c:173-469).                                                   *)
RequestsInOrder ==
    ~late => /\ NoneSkipped
             /\ content = Poll /\ plugged /\ addressed => seen = 1 .. Last

(* As long as no list is overtaken: when the controller has a list to      *)
(* execute, it is the one in memory, and the memory holds it whole:        *)
(* neither what was received, nor what is left of longer lists, nor the    *)
(* words written over the endpoint descriptor can lead it astray           *)
(* (usb.c:116-534, main.c:344-353).                                        *)
ListsAreSound ==
    ~late /\ Executing
        => /\ content \in FittingRequests /\ Holds(mem, Requests[content])
           /\ sie \in {"setup", "rest"} => taken = content

(* A player who holds one direction key keeps moving, and in no other      *)
(* direction, while keys of both players come and go around it, although   *)
(* the registers are written one by one (main.c:530-535, movement.sv).     *)
HeldMoveStays ==
    \A p \in Players : \A d \in Directions[p] :
        HoldsOnly(old, new, p, d) => Moves(row, p) = d

(* No key is shown that no keyboard reported: a keyboard that has nothing  *)
(* to report since it was put in leaves the words of the enumeration where *)
(* its report belongs, and these must not be keys of the game              *)
(* (main.c:520-535, usb.c:443-534, movement.sv:7-86).  Not promised of     *)
(* what is read after a list was overtaken: what words of two lists bring  *)
(* in is not in the model.                                                 *)
NoPhantomKeys ==
    new \notin Reports /\ ~strays =>
        \A p \in Players : Moves(new, p) = 0 /\ ~PlacesBomb(new, p)

(* The keyboard works: the program polls one that answers.                 *)
Serving == step = Poll /\ pc = "read" /\ plugged /\ addressed

(* The frames of the bus are not in step with the program: if the first    *)
(* request is sent twice again and again, the second sending at times ends *)
(* before the controller has begun with the first.                         *)
SentTwice   == step = SetAddress /\ pc = "sleep" /\ pending = "list"
FramesDrift == []<>SentTwice => []<>(SentTwice /\ sie = "idle" /\ ~flag)

(* A keyboard that is put in and stays is served, in sessions in which no  *)
(* request after the second fails and none takes longer than a sleep       *)
(* (~upset): whatever happens to the first two, whether or not it was      *)
(* pulled out of a running game, the program starts over and comes to the  *)
(* end (main.c:63-469, 537-570).                                           *)
Enumerates == FramesDrift /\ <>[]plugged => []<>Serving

(* And what it reports last gets to the hardware, in the same sessions.    *)
LatestReportShown ==
    \A r \in Reports :
        FramesDrift /\ <>[]plugged /\ <>[](received = r) => <>[](row = r)

(* A request that the keyboard has not heard is sent again.                *)
FailedIsSentAgain ==
    \A k \in SetAddress .. Last :
        (step = k /\ pc = "retry" /\ k \notin seen /\ sie = "idle")
            ~> (step # k \/ pc \in {"write", "rewrite", "reset"})

=============================================================================
