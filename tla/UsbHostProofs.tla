--------------------------- MODULE UsbHostProofs ---------------------------
(***************************************************************************)
(* Proofs about the keyboard program, its controller and its keyboard: the *)
(* state is well formed (TypeOK) and a held key goes on moving its player  *)
(* (HeldMoveStays); and as long as no list is written over one that the    *)
(* controller has before it, a keyboard hears the requests in their order  *)
(* and is polled only after the last (RequestsInOrder), the list in memory *)
(* is whole while it is executed (ListsAreSound), and what the enumeration *)
(* leaves where the report belongs is no key (NoPhantomKeys); for every    *)
(* set of reports, keys and players and any number of faults and replugs.  *)
(***************************************************************************)
EXTENDS UsbHost, Integers, WellFoundedInduction, TLAPS

(* A descriptor is five words.                                             *)
Words      == 0 .. 65535
IsFive(td) == /\ td[1] \in Words /\ td[2] \in Words /\ td[3] \in Words
              /\ td[4] \in Words /\ td[5] \in Words
IsMemory(m) == m = [a \in Slots |-> m[a]] /\ \A a \in Slots : IsFive(m[a])

(* Where the program has not yet begun to enumerate, or begins again.      *)
Outside == {"reset", "init", "detect", "absent", "gone"}

(* The list in memory is that of the request, or, where the program has    *)
(* gone on to the next, that of the one before.                            *)
ListOfStep ==
    /\ pc \in {"start", "poll", "rewrite", "restart", "sleep", "wait", "clear",
               "check", "retry", "drop", "spin", "recheck", "endpoint", "point"}
          => content = step
    /\ pc \in {"write", "writing"} /\ step # SetAddress
          => content \in {step - 1, step}
    /\ pc \in {"check", "retry", "drop", "spin", "recheck"} => step # Poll
    /\ pc \in {"endpoint", "point"} => step = ConfigDesc2
    /\ pc \in {"read", "show", "present"} => step = Poll /\ content = Poll

(* Where no list was overtaken the controller has what is in memory, and   *)
(* nothing to execute while the next list is written.                      *)
Taken ==
    ~late => /\ sie \in {"setup", "rest"} => taken = content
             /\ pc = "writing" => ~Executing /\ ctl = "active"

(* What a keyboard that answers to its address has heard: up to the request*)
(* before the one in memory, that one if its first descriptor was accepted,*)
(* and all those the program has gone past.                                *)
InOrder ==
    /\ NoneSkipped
    /\ addressed =>
          /\ SetAddress \in seen /\ content # 0
          /\ 1 .. content - 1 \subseteq seen
          /\ ctl = "ok" /\ content \in SetAddress .. Last => content \in seen
          /\ pc \notin Outside => 1 .. step - 1 \subseteq seen
          /\ pc \in {"endpoint", "point"} => step \in seen

Heard == /\ ~plugged => seen = {} /\ ~addressed
         /\ ~late => InOrder

(* A bus reset finds the controller without a list.                        *)
Quiet == pc = "init" => sie = "idle" /\ pending = "none"

(* The registers of the key codes while a report is shown, and otherwise.  *)
KeysShown ==
    IF pc = "show"
    THEN /\ next \in Places
         /\ \A i \in Places : row[i] = IF i < next THEN new[i] ELSE old[i]
    ELSE row = new /\ old = new

IInv == /\ TypeOK /\ IsMemory(mem)
        /\ ListOfStep /\ Quiet /\ Taken /\ Heard /\ KeysShown

-----------------------------------------------------------------------------
(***************************************************************************)
(* The memory of the controller.                                           *)
(***************************************************************************)
LEMMA RequestWords ==
    ASSUME NEW k \in SetAddress .. Poll, NEW i \in DOMAIN Requests[k].tds
    PROVE  IsFive(Requests[k].tds[i])
<1>1. DOMAIN Requests = 1 .. 10
  BY DEF Requests
<1>. DEFINE t == Requests[k].tds
<1>2. CASE k = 1
  <2>1. /\ DOMAIN t = 1 .. 2 /\ IsFive(t[1]) /\ IsFive(t[2])
    <3>1. t = UsbSetAddress.tds
      BY <1>2 DEF Requests
    <3>. HIDE DEF t
    <3>. QED  BY <3>1 DEF IsFive, Words, UsbSetAddress, SetupTo0
  <2>. HIDE DEF t
  <2>2. \A j \in DOMAIN t : IsFive(t[j])
    BY <2>1
  <2>. QED  BY <2>2 DEF t
<1>3. CASE k = 2
  <2>1. /\ DOMAIN t = 1 .. 3 /\ IsFive(t[1]) /\ IsFive(t[2])
        /\ IsFive(t[3])
    <3>1. t = UsbGetDeviceDesc1.tds
      BY <1>3 DEF Requests
    <3>. HIDE DEF t
    <3>. QED  BY <3>1 DEF IsFive, Words, UsbGetDeviceDesc1, SetupTo2
  <2>. HIDE DEF t
  <2>2. \A j \in DOMAIN t : IsFive(t[j])
    BY <2>1
  <2>. QED  BY <2>2 DEF t
<1>4. CASE k = 3
  <2>1. /\ DOMAIN t = 1 .. 5 /\ IsFive(t[1]) /\ IsFive(t[2])
        /\ IsFive(t[3]) /\ IsFive(t[4]) /\ IsFive(t[5])
    <3>1. t = UsbGetDeviceDesc2.tds
      BY <1>4 DEF Requests
    <3>. HIDE DEF t
    <3>. QED  BY <3>1 DEF IsFive, Words, UsbGetDeviceDesc2, SetupTo2
  <2>. HIDE DEF t
  <2>2. \A j \in DOMAIN t : IsFive(t[j])
    BY <2>1
  <2>. QED  BY <2>2 DEF t
<1>5. CASE k = 4
  <2>1. /\ DOMAIN t = 1 .. 4 /\ IsFive(t[1]) /\ IsFive(t[2])
        /\ IsFive(t[3]) /\ IsFive(t[4])
    <3>1. t = UsbGetConfigDesc1.tds
      BY <1>5 DEF Requests
    <3>. HIDE DEF t
    <3>. QED  BY <3>1 DEF IsFive, Words, UsbGetConfigDesc1, SetupTo2
  <2>. HIDE DEF t
  <2>2. \A j \in DOMAIN t : IsFive(t[j])
    BY <2>1
  <2>. QED  BY <2>2 DEF t
<1>6. CASE k = 5
  <2>1. /\ DOMAIN t = 1 .. 7 /\ IsFive(t[1]) /\ IsFive(t[2])
        /\ IsFive(t[3]) /\ IsFive(t[4]) /\ IsFive(t[5]) /\ IsFive(t[6])
        /\ IsFive(t[7])
    <3>1. t = UsbGetConfigDesc2.tds
      BY <1>6 DEF Requests
    <3>. HIDE DEF t
    <3>2. DOMAIN t = 1 .. 7
      BY <3>1 DEF UsbGetConfigDesc2
    <3>3. IsFive(t[1]) /\ IsFive(t[2]) /\ IsFive(t[3])
      BY <3>1 DEF IsFive, Words, UsbGetConfigDesc2, SetupTo2
    <3>4. IsFive(t[4]) /\ IsFive(t[5]) /\ IsFive(t[6])
      BY <3>1 DEF IsFive, Words, UsbGetConfigDesc2, SetupTo2
    <3>5. IsFive(t[7])
      BY <3>1 DEF IsFive, Words, UsbGetConfigDesc2, SetupTo2
    <3>. QED  BY <3>2, <3>3, <3>4, <3>5
  <2>. HIDE DEF t
  <2>2. \A j \in DOMAIN t : IsFive(t[j])
    BY <2>1
  <2>. QED  BY <2>2 DEF t
<1>7. CASE k = 6
  <2>1. /\ DOMAIN t = 1 .. 2 /\ IsFive(t[1]) /\ IsFive(t[2])
    <3>1. t = UsbSetConfig.tds
      BY <1>7 DEF Requests
    <3>. HIDE DEF t
    <3>. QED  BY <3>1 DEF IsFive, Words, UsbSetConfig, SetupTo2, StatusIn
  <2>. HIDE DEF t
  <2>2. \A j \in DOMAIN t : IsFive(t[j])
    BY <2>1
  <2>. QED  BY <2>2 DEF t
<1>8. CASE k = 7
  <2>1. /\ DOMAIN t = 1 .. 2 /\ IsFive(t[1]) /\ IsFive(t[2])
    <3>1. t = UsbClassRequest.tds
      BY <1>8 DEF Requests
    <3>. HIDE DEF t
    <3>. QED  BY <3>1 DEF IsFive, Words, UsbClassRequest, SetupTo2, StatusIn
  <2>. HIDE DEF t
  <2>2. \A j \in DOMAIN t : IsFive(t[j])
    BY <2>1
  <2>. QED  BY <2>2 DEF t
<1>9. CASE k = 8
  <2>1. /\ DOMAIN t = 1 .. 3 /\ IsFive(t[1]) /\ IsFive(t[2])
        /\ IsFive(t[3])
    <3>1. t = UsbGetHidDesc.tds
      BY <1>9 DEF Requests
    <3>. HIDE DEF t
    <3>. QED  BY <3>1 DEF IsFive, Words, UsbGetHidDesc, SetupTo2
  <2>. HIDE DEF t
  <2>2. \A j \in DOMAIN t : IsFive(t[j])
    BY <2>1
  <2>. QED  BY <2>2 DEF t
<1>10. CASE k = 9
  <2>1. /\ DOMAIN t = 1 .. 10 /\ IsFive(t[1]) /\ IsFive(t[2])
        /\ IsFive(t[3]) /\ IsFive(t[4]) /\ IsFive(t[5]) /\ IsFive(t[6])
        /\ IsFive(t[7]) /\ IsFive(t[8]) /\ IsFive(t[9]) /\ IsFive(t[10])
    <3>1. t = UsbGetReportDesc.tds
      BY <1>10 DEF Requests
    <3>. HIDE DEF t
    <3>2. DOMAIN t = 1 .. 10
      BY <3>1 DEF UsbGetReportDesc
    <3>3. IsFive(t[1]) /\ IsFive(t[2]) /\ IsFive(t[3])
      BY <3>1 DEF IsFive, Words, UsbGetReportDesc, SetupTo2, ReportIn2
    <3>4. IsFive(t[4]) /\ IsFive(t[5]) /\ IsFive(t[6])
      BY <3>1 DEF IsFive, Words, UsbGetReportDesc, SetupTo2, ReportIn2
    <3>5. IsFive(t[7]) /\ IsFive(t[8]) /\ IsFive(t[9])
      BY <3>1 DEF IsFive, Words, UsbGetReportDesc, SetupTo2, ReportIn2
    <3>6. IsFive(t[10])
      BY <3>1 DEF IsFive, Words, UsbGetReportDesc, SetupTo2, ReportIn2
    <3>. QED  BY <3>2, <3>3, <3>4, <3>5, <3>6
  <2>. HIDE DEF t
  <2>2. \A j \in DOMAIN t : IsFive(t[j])
    BY <2>1
  <2>. QED  BY <2>2 DEF t
<1>11. CASE k = 10
  <2>1. /\ DOMAIN t = 1 .. 1 /\ IsFive(t[1])
    <3>1. t = KeyPoll.tds
      BY <1>11 DEF Requests
    <3>. HIDE DEF t
    <3>. QED  BY <3>1 DEF IsFive, Words, KeyPoll
  <2>. HIDE DEF t
  <2>2. \A j \in DOMAIN t : IsFive(t[j])
    BY <2>1
  <2>. QED  BY <2>2 DEF t
<1>. QED  BY <1>2, <1>3, <1>4, <1>5, <1>6, <1>7, <1>8, <1>9, <1>10, <1>11
          DEF SetAddress, Poll

LEMMA WrittenWords ==
    ASSUME NEW m, IsMemory(m), NEW k \in SetAddress .. Poll
    PROVE  IsMemory(Written(m, Requests[k]))
<1>. DEFINE r == Requests[k]
<1>. HIDE DEF r
<1>1. ASSUME NEW a \in Slots, \E i \in DOMAIN r.tds : a = SlotOf(i)
      PROVE  IsFive(r.tds[CHOOSE i \in DOMAIN r.tds : a = SlotOf(i)])
  <2>1. (CHOOSE i \in DOMAIN r.tds : a = SlotOf(i)) \in DOMAIN r.tds
    BY <1>1
  <2>. QED  BY <2>1, RequestWords DEF r
<1>2. IsMemory(Written(m, r))
  BY <1>1 DEF Written, IsMemory
<1>. QED  BY <1>2 DEF r

LEMMA ReceivedWords ==
    ASSUME NEW m, IsMemory(m)
    PROVE  IsMemory(Received(m))
<1>1. IsFive(Other)
  BY DEF Other, IsFive, Words
<1>. QED  BY <1>1 DEF Received, IsMemory

LEMMA ReportRow ==
    ASSUME NEW m, IsMemory(m)
    PROVE  WordsAtReport(m) \in Rows
<1>. DEFINE word == <<m[\h514][5], m[\h520][1], m[\h520][2]>>
<1>1. \h514 \in Slots /\ \h520 \in Slots
  <2>1. 0 \in 0 .. 8 /\ 1 \in 0 .. 8 /\ \h514 = \h514 + 12 * 0 /\ \h520 = \h514 + 12 * 1
    OBVIOUS
  <2>. QED  BY <2>1 DEF Slots
<1>2. word[1] \in Words /\ word[2] \in Words /\ word[3] \in Words
  BY <1>1 DEF IsMemory, IsFive
<1>3. ASSUME NEW w \in Words
      PROVE  w % 256 \in 0 .. 255 /\ w \div 256 \in 0 .. 255
  <2>1. w \in Int /\ w >= 0 /\ w < 65536
    BY DEF Words
  <2>2. w = 256 * (w \div 256) + (w % 256) /\ w % 256 \in 0 .. 255 /\ w \div 256 \in Int
    BY <2>1
  <2>. QED  BY <2>1, <2>2
<1>4. 0 .. 255 \subseteq Codes /\ NSlots \in Nat /\ NSlots <= 6
  BY UsbHostAssumption, KeySlotsAssumption
<1>. HIDE DEF word
<1>5. ASSUME NEW i \in Places
      PROVE  (IF i % 2 = 1 THEN word[(i + 1) \div 2] % 256
                           ELSE word[i \div 2] \div 256) \in Codes
  <2>1. i \in 1 .. 6
    BY <1>4 DEF Places
  <2>2. CASE i = 1
    BY <2>2, <1>2, <1>3, <1>4
  <2>3. CASE i = 2
    BY <2>3, <1>2, <1>3, <1>4
  <2>4. CASE i = 3
    BY <2>4, <1>2, <1>3, <1>4
  <2>5. CASE i = 4
    BY <2>5, <1>2, <1>3, <1>4
  <2>6. CASE i = 5
    BY <2>6, <1>2, <1>3, <1>4
  <2>7. CASE i = 6
    BY <2>7, <1>2, <1>3, <1>4
  <2>. QED  BY <2>1, <2>2, <2>3, <2>4, <2>5, <2>6, <2>7
<1>. QED  BY <1>5 DEF WordsAtReport, Rows, word

-----------------------------------------------------------------------------
(***************************************************************************)
(* The lists.  A request can be executed because it is linked slot by slot *)
(* and its data packets lie behind the list, one after the other.          *)
(***************************************************************************)
End(r)       == SlotOf(Len(r.tds)) + 12
Receives(td) == td[3] \in {\h090, \h290, \h291} /\ td[2] > 0

Linked(r) ==
    /\ Len(r.tds) \in 1 .. 10 /\ DOMAIN r.tds = 1 .. Len(r.tds)
    /\ \A i \in 1 .. Len(r.tds) :
          r.tds[i][5] = IF i = Len(r.tds) THEN 0 ELSE SlotOf(i + 1)

Behind(r) ==
    \A i \in 1 .. Len(r.tds) :
        /\ r.tds[i][1] \in Nat /\ r.tds[i][2] \in Nat
        /\ Receives(r.tds[i]) => r.tds[i][1] >= End(r)

Packed(r, base) ==
    \A i \in 2 .. Len(r.tds) - 1 :
        /\ base >= End(r)
        /\ r.tds[i][1] = base + 8 * (i - 2) /\ r.tds[i][2] <= 8
        /\ r.tds[i][4] = (IF i % 2 = 0 THEN \h41 ELSE \h01)
        /\ i < Len(r.tds) - 1 => r.tds[i][2] = 8

(* Where the data of each request begins.                                  *)
DataAt == <<\h50C, \h52C, \h544, \h544, \h55C, \h50C, \h50C, \h544, \h580,
            \h51C>>

LEMMA RequestsAreLists ==
    ASSUME NEW k \in 1 .. 10
    PROVE  Linked(Requests[k]) /\ Behind(Requests[k]) /\ Packed(Requests[k], DataAt[k])
<1>. USE DEF Linked, Behind, Packed, SlotOf, End, Receives
<1>1. Linked(UsbSetAddress) /\ Behind(UsbSetAddress) /\ Packed(UsbSetAddress, \h50C)
  BY DEF UsbSetAddress, SetupTo0
<1>2. Linked(UsbGetDeviceDesc1) /\ Behind(UsbGetDeviceDesc1) /\ Packed(UsbGetDeviceDesc1, \h52C)
  BY DEF UsbGetDeviceDesc1, SetupTo2
<1>3. Linked(UsbGetDeviceDesc2) /\ Behind(UsbGetDeviceDesc2) /\ Packed(UsbGetDeviceDesc2, \h544)
  <2>1. Linked(UsbGetDeviceDesc2)
    BY DEF UsbGetDeviceDesc2, SetupTo2
  <2>2. Behind(UsbGetDeviceDesc2)
    BY DEF UsbGetDeviceDesc2, SetupTo2
  <2>3. Packed(UsbGetDeviceDesc2, \h544)
    BY DEF UsbGetDeviceDesc2, SetupTo2
  <2>. QED  BY ONLY <2>1, <2>2, <2>3
<1>4. Linked(UsbGetConfigDesc1) /\ Behind(UsbGetConfigDesc1) /\ Packed(UsbGetConfigDesc1, \h544)
  <2>1. Linked(UsbGetConfigDesc1)
    BY DEF UsbGetConfigDesc1, SetupTo2
  <2>2. Behind(UsbGetConfigDesc1)
    BY DEF UsbGetConfigDesc1, SetupTo2
  <2>3. Packed(UsbGetConfigDesc1, \h544)
    BY DEF UsbGetConfigDesc1, SetupTo2
  <2>. QED  BY ONLY <2>1, <2>2, <2>3
<1>5. Linked(UsbGetConfigDesc2) /\ Behind(UsbGetConfigDesc2) /\ Packed(UsbGetConfigDesc2, \h55C)
  <2>1. Linked(UsbGetConfigDesc2)
    BY DEF UsbGetConfigDesc2, SetupTo2
  <2>2. Behind(UsbGetConfigDesc2)
    BY DEF UsbGetConfigDesc2, SetupTo2
  <2>3. Packed(UsbGetConfigDesc2, \h55C)
    BY DEF UsbGetConfigDesc2, SetupTo2
  <2>. QED  BY ONLY <2>1, <2>2, <2>3
<1>6. Linked(UsbSetConfig) /\ Behind(UsbSetConfig) /\ Packed(UsbSetConfig, \h50C)
  BY DEF UsbSetConfig, SetupTo2, StatusIn
<1>7. Linked(UsbClassRequest) /\ Behind(UsbClassRequest) /\ Packed(UsbClassRequest, \h50C)
  BY DEF UsbClassRequest, SetupTo2, StatusIn
<1>8. Linked(UsbGetHidDesc) /\ Behind(UsbGetHidDesc) /\ Packed(UsbGetHidDesc, \h544)
  <2>1. Linked(UsbGetHidDesc)
    BY DEF UsbGetHidDesc, SetupTo2
  <2>2. Behind(UsbGetHidDesc)
    BY DEF UsbGetHidDesc, SetupTo2
  <2>3. Packed(UsbGetHidDesc, \h544)
    BY DEF UsbGetHidDesc, SetupTo2
  <2>. QED  BY ONLY <2>1, <2>2, <2>3
<1>9. Linked(UsbGetReportDesc) /\ Behind(UsbGetReportDesc) /\ Packed(UsbGetReportDesc, \h580)
  <2>1. Linked(UsbGetReportDesc)
    BY DEF UsbGetReportDesc, SetupTo2, ReportIn2
  <2>2. Behind(UsbGetReportDesc)
    BY DEF UsbGetReportDesc, SetupTo2, ReportIn2
  <2>3. Packed(UsbGetReportDesc, \h580)
    BY DEF UsbGetReportDesc, SetupTo2, ReportIn2
  <2>. QED  BY ONLY <2>1, <2>2, <2>3
<1>10. Linked(KeyPoll) /\ Behind(KeyPoll) /\ Packed(KeyPoll, \h51C)
  BY DEF KeyPoll, ListStart
<1>. HIDE DEF Linked, Behind, Packed, SlotOf, End, Receives
<1>11. CASE k = 1
  <2>1. Requests[k] = UsbSetAddress /\ DataAt[k] = \h50C
    BY <1>11 DEF Requests, DataAt
  <2>. QED  BY ONLY <2>1, <1>1
<1>12. CASE k = 2
  <2>1. Requests[k] = UsbGetDeviceDesc1 /\ DataAt[k] = \h52C
    BY <1>12 DEF Requests, DataAt
  <2>. QED  BY ONLY <2>1, <1>2
<1>13. CASE k = 3
  <2>1. Requests[k] = UsbGetDeviceDesc2 /\ DataAt[k] = \h544
    BY <1>13 DEF Requests, DataAt
  <2>. QED  BY ONLY <2>1, <1>3
<1>14. CASE k = 4
  <2>1. Requests[k] = UsbGetConfigDesc1 /\ DataAt[k] = \h544
    BY <1>14 DEF Requests, DataAt
  <2>. QED  BY ONLY <2>1, <1>4
<1>15. CASE k = 5
  <2>1. Requests[k] = UsbGetConfigDesc2 /\ DataAt[k] = \h55C
    BY <1>15 DEF Requests, DataAt
  <2>. QED  BY ONLY <2>1, <1>5
<1>16. CASE k = 6
  <2>1. Requests[k] = UsbSetConfig /\ DataAt[k] = \h50C
    BY <1>16 DEF Requests, DataAt
  <2>. QED  BY ONLY <2>1, <1>6
<1>17. CASE k = 7
  <2>1. Requests[k] = UsbClassRequest /\ DataAt[k] = \h50C
    BY <1>17 DEF Requests, DataAt
  <2>. QED  BY ONLY <2>1, <1>7
<1>18. CASE k = 8
  <2>1. Requests[k] = UsbGetHidDesc /\ DataAt[k] = \h544
    BY <1>18 DEF Requests, DataAt
  <2>. QED  BY ONLY <2>1, <1>8
<1>19. CASE k = 9
  <2>1. Requests[k] = UsbGetReportDesc /\ DataAt[k] = \h580
    BY <1>19 DEF Requests, DataAt
  <2>. QED  BY ONLY <2>1, <1>9
<1>20. CASE k = 10
  <2>1. Requests[k] = KeyPoll /\ DataAt[k] = \h51C
    BY <1>20 DEF Requests, DataAt
  <2>. QED  BY ONLY <2>1, <1>10
<1>. QED  BY <1>11, <1>12, <1>13, <1>14, <1>15, <1>16, <1>17, <1>18, <1>19, <1>20

(* The bytes a request asks for, added up descriptor by descriptor.  A sum *)
(* over at most ten can be given outright, so that the function exists.    *)
Weight(td) == IF td[1] > \h50C THEN td[2] ELSE 0

LEMMA SumsExist ==
    ASSUME NEW w \in [1 .. 10 -> Nat], NEW n \in 1 .. 10
    PROVE  \E f : f = [i \in 0 .. n |-> IF i = 0 THEN 0 ELSE f[i - 1] + w[i]]
<1>. DEFINE s1 == w[1]
            s2 == s1 + w[2]
            s3 == s2 + w[3]
            s4 == s3 + w[4]
            s5 == s4 + w[5]
            s6 == s5 + w[6]
            s7 == s6 + w[7]
            s8 == s7 + w[8]
            s9 == s8 + w[9]
            s10 == s9 + w[10]
            t == <<0, s1, s2, s3, s4, s5, s6, s7, s8, s9, s10>>
            g == [i \in 0 .. n |-> t[i + 1]]
<1>1. /\ s1 \in Nat /\ s2 \in Nat /\ s3 \in Nat /\ s4 \in Nat /\ s5 \in Nat
      /\ s6 \in Nat /\ s7 \in Nat /\ s8 \in Nat /\ s9 \in Nat /\ s10 \in Nat
  OBVIOUS
<1>2. /\ t[1] = 0 /\ t[2] = t[1] + w[1] /\ t[3] = t[2] + w[2] /\ t[4] = t[3] + w[3]
      /\ t[5] = t[4] + w[4] /\ t[6] = t[5] + w[5] /\ t[7] = t[6] + w[6]
      /\ t[8] = t[7] + w[7] /\ t[9] = t[8] + w[8] /\ t[10] = t[9] + w[9]
      /\ t[11] = t[10] + w[10]
  BY <1>1
<1>. HIDE DEF t
<1>3. ASSUME NEW i \in 1 .. 10
      PROVE  t[i + 1] = t[i] + w[i]
  <2>1. i = 1 \/ i = 2 \/ i = 3 \/ i = 4 \/ i = 5 \/ i = 6 \/ i = 7 \/ i = 8 \/ i = 9 \/ i = 10
    OBVIOUS
  <2>. QED  BY <2>1, <1>2
<1>4. ASSUME NEW i \in 0 .. n
      PROVE  g[i] = IF i = 0 THEN 0 ELSE g[i - 1] + w[i]
  <2>1. CASE i = 0
    BY <2>1, <1>2
  <2>2. CASE i # 0
    <3>1. i \in 1 .. 10 /\ i - 1 \in 0 .. n /\ (i - 1) + 1 = i
      BY <2>2
    <3>2. g[i] = t[i + 1] /\ g[i - 1] = t[i]
      BY <3>1
    <3>. QED  BY <2>2, <3>1, <3>2, <1>3
  <2>. QED  BY <2>1, <2>2
<1>5. g = [i \in 0 .. n |-> IF i = 0 THEN 0 ELSE g[i - 1] + w[i]]
  <2>. DEFINE h == [i \in 0 .. n |-> IF i = 0 THEN 0 ELSE g[i - 1] + w[i]]
  <2>1. DOMAIN g = DOMAIN h /\ \A i \in 0 .. n : g[i] = h[i]
    BY <1>4
  <2>2. g = [i \in 0 .. n |-> g[i]] /\ h = [i \in 0 .. n |-> h[i]]
    OBVIOUS
  <2>. HIDE DEF g, h
  <2>3. g = h
    BY ONLY <2>1, <2>2
  <2>. QED  BY <2>3 DEF h
<1>. HIDE DEF g
<1>. QED  BY <1>5

LEMMA BytesAddUp ==
    ASSUME NEW r, NEW n \in 1 .. 10, Len(r.tds) = n,
           \A i \in 1 .. n : r.tds[i][1] \in Nat /\ r.tds[i][2] \in Nat
    PROVE  \E s : /\ s[0] = 0 /\ Bytes(r) = s[n]
                  /\ \A i \in 1 .. n : s[i] = s[i - 1] + Weight(r.tds[i])
<1>. DEFINE w == [i \in 1 .. 10 |-> IF i <= n THEN Weight(r.tds[i]) ELSE 0]
            P(f) == f = [i \in 0 .. n |-> IF i = 0 THEN 0
                             ELSE f[i - 1] + (IF r.tds[i][1] > \h50C THEN r.tds[i][2] ELSE 0)]
            Q(f) == f = [i \in 0 .. n |-> IF i = 0 THEN 0 ELSE f[i - 1] + w[i]]
<1>1. w \in [1 .. 10 -> Nat]
  BY DEF Weight
<1>2. \A i \in 0 .. n : i # 0 =>
          w[i] = IF r.tds[i][1] > \h50C THEN r.tds[i][2] ELSE 0
  <2>. SUFFICES ASSUME NEW i \in 0 .. n, i # 0
                PROVE  w[i] = Weight(r.tds[i])
    BY DEF Weight
  <2>1. i \in 1 .. 10 /\ i <= n
    OBVIOUS
  <2>. QED  BY <2>1
<1>3. \E f : Q(f)
  <2>. HIDE DEF w
  <2>. QED  BY <1>1, SumsExist
<1>4. \A f : Q(f) => P(f)
  <2>. HIDE DEF w
  <2>. SUFFICES ASSUME NEW f, Q(f)
                PROVE  P(f)
    OBVIOUS
  <2>. DEFINE h == [i \in 0 .. n |-> IF i = 0 THEN 0
                       ELSE f[i - 1] + (IF r.tds[i][1] > \h50C THEN r.tds[i][2] ELSE 0)]
              e == [i \in 0 .. n |-> IF i = 0 THEN 0 ELSE f[i - 1] + w[i]]
  <2>1. \A i \in 0 .. n : e[i] = h[i]
    BY <1>2
  <2>2. e = [i \in 0 .. n |-> e[i]] /\ h = [i \in 0 .. n |-> h[i]]
    OBVIOUS
  <2>. HIDE DEF e, h
  <2>3. e = h
    BY ONLY <2>1, <2>2
  <2>. QED  BY <2>3 DEF e, h
<1>5. \E f : P(f)
  <2>. HIDE DEF P, Q
  <2>. QED  BY <1>3, <1>4
<1>. DEFINE s == CHOOSE f : P(f)
<1>6. P(s)
  <2>. HIDE DEF P
  <2>. QED  BY <1>5
<1>7. Bytes(r) = s[n]
  BY ONLY Len(r.tds) = n DEF Bytes, s, P
<1>. HIDE DEF s
<1>8. s[0] = 0 /\ \A i \in 1 .. n : s[i] = s[i - 1] + Weight(r.tds[i])
  <2>. DEFINE h == [i \in 0 .. n |-> IF i = 0 THEN 0
                       ELSE s[i - 1] + (IF r.tds[i][1] > \h50C THEN r.tds[i][2] ELSE 0)]
  <2>1. s = h
    BY <1>6
  <2>2. h[0] = 0 /\ \A i \in 1 .. n : h[i] = s[i - 1] + Weight(r.tds[i])
    BY DEF Weight
  <2>. HIDE DEF h
  <2>. QED  BY ONLY <2>1, <2>2
<1>. QED  BY <1>7, <1>8

(* The way of the controller through the memory, slot after slot.          *)
Onward(m, a) == IF a \in Slots THEN m[a][5] ELSE 0

LEMMA WalkGoesOn ==
    ASSUME NEW m
    PROVE  /\ Walk(m)[1] = ListStart
           /\ \A i \in 1 .. 10 : Walk(m)[i + 1] = Onward(m, Walk(m)[i])
<1>. DEFINE P(f) == f = [i \in 1 .. 11 |-> IF i = 1 THEN ListStart
                            ELSE IF f[i - 1] \in Slots THEN m[f[i - 1]][5] ELSE 0]
            N(a) == IF a \in Slots THEN m[a][5] ELSE 0
            a2 == N(ListStart)
            a3 == N(a2)
            a4 == N(a3)
            a5 == N(a4)
            a6 == N(a5)
            a7 == N(a6)
            a8 == N(a7)
            a9 == N(a8)
            a10 == N(a9)
            a11 == N(a10)
            g == <<ListStart, a2, a3, a4, a5, a6, a7, a8, a9, a10, a11>>
<1>1. /\ g[1] = ListStart /\ g[2] = N(g[1]) /\ g[3] = N(g[2]) /\ g[4] = N(g[3])
      /\ g[5] = N(g[4]) /\ g[6] = N(g[5]) /\ g[7] = N(g[6]) /\ g[8] = N(g[7])
      /\ g[9] = N(g[8]) /\ g[10] = N(g[9]) /\ g[11] = N(g[10])
      /\ g = [i \in 1 .. 11 |-> g[i]]
  <2>. HIDE DEF N
  <2>1. DOMAIN g = 1 .. 11
    OBVIOUS
  <2>2. g = [i \in DOMAIN g |-> g[i]]
    OBVIOUS
  <2>3. /\ g[1] = ListStart /\ g[2] = N(g[1]) /\ g[3] = N(g[2]) /\ g[4] = N(g[3])
        /\ g[5] = N(g[4]) /\ g[6] = N(g[5]) /\ g[7] = N(g[6]) /\ g[8] = N(g[7])
        /\ g[9] = N(g[8]) /\ g[10] = N(g[9]) /\ g[11] = N(g[10])
    OBVIOUS
  <2>. HIDE DEF g
  <2>. QED  BY <2>1, <2>2, <2>3
<1>. HIDE DEF g
<1>2. P(g)
  <2>. DEFINE h == [i \in 1 .. 11 |-> IF i = 1 THEN ListStart
                       ELSE IF g[i - 1] \in Slots THEN m[g[i - 1]][5] ELSE 0]
  <2>1. ASSUME NEW i \in 1 .. 11
        PROVE  g[i] = h[i]
    <3>1. \/ i = 1 \/ i = 2 \/ i = 3 \/ i = 4 \/ i = 5 \/ i = 6 \/ i = 7 \/ i = 8
          \/ i = 9 \/ i = 10 \/ i = 11
      OBVIOUS
    <3>2. h[i] = IF i = 1 THEN ListStart ELSE N(g[i - 1])
      OBVIOUS
    <3>. HIDE DEF h, N
    <3>. QED  BY <1>1, <3>1, <3>2
  <2>2. h = [i \in 1 .. 11 |-> h[i]]
    OBVIOUS
  <2>. HIDE DEF h
  <2>3. g = h
    BY ONLY <1>1, <2>1, <2>2
  <2>. QED  BY <2>3 DEF h
<1>. DEFINE s == CHOOSE f : P(f)
<1>3. P(s)
  <2>. HIDE DEF P
  <2>. QED  BY <1>2
<1>4. Walk(m) = s
  BY DEF Walk
<1>. HIDE DEF s
<1>5. s[1] = ListStart /\ \A i \in 1 .. 10 : s[i + 1] = Onward(m, s[i])
  <2>. DEFINE h == [i \in 1 .. 11 |-> IF i = 1 THEN ListStart
                       ELSE IF s[i - 1] \in Slots THEN m[s[i - 1]][5] ELSE 0]
  <2>1. s = h
    BY <1>3
  <2>2. h[1] = ListStart /\ \A i \in 1 .. 10 : h[i + 1] = Onward(m, s[i])
    BY DEF Onward
  <2>. HIDE DEF h
  <2>. QED  BY ONLY <2>1, <2>2
<1>. QED  BY <1>4, <1>5

LEMMA SlotsApart ==
    /\ 0 \notin Slots
    /\ \A i \in 1 .. 10 : SlotOf(i) \in Slots /\ SlotOf(i) \in Nat
    /\ \A i, j \in 1 .. 10 : SlotOf(i) = SlotOf(j) => i = j
    /\ \A i, j \in 1 .. 10 : i < j => SlotOf(i) + 12 <= SlotOf(j)
<1>1. 0 \notin Slots
  BY DEF Slots, ListStart
<1>2. ASSUME NEW i \in 1 .. 10
      PROVE  SlotOf(i) \in Slots
  <2>1. CASE i = 1
    BY <2>1 DEF SlotOf, Slots
  <2>2. CASE i # 1
    <3>1. i - 2 \in 0 .. 8 /\ SlotOf(i) = \h514 + 12 * (i - 2)
      BY <2>2 DEF SlotOf
    <3>. QED  BY <3>1 DEF Slots
  <2>. QED  BY <2>1, <2>2
<1>3. /\ \A i \in 1 .. 10 : SlotOf(i) \in Nat
      /\ \A i, j \in 1 .. 10 : SlotOf(i) = SlotOf(j) => i = j
      /\ \A i, j \in 1 .. 10 : i < j => SlotOf(i) + 12 <= SlotOf(j)
  BY DEF SlotOf, ListStart
<1>. QED  BY <1>1, <1>2, <1>3

(* A list whose descriptors are in their slots is walked from its first to *)
(* its last descriptor and no further.                                     *)
InPlace(m, r) == \A i \in 1 .. Len(r.tds) : m[SlotOf(i)] = r.tds[i]

LEMMA ListsAreWalked ==
    ASSUME NEW m, NEW r, Linked(r), InPlace(m, r)
    PROVE  Holds(m, r)
<1>. DEFINE n == Len(r.tds)
            at == Walk(m)
<1>1. n \in 1 .. 10
  BY DEF Linked
<1>2. at[1] = ListStart /\ SlotOf(1) = ListStart
  BY WalkGoesOn DEF SlotOf
<1>3. ASSUME NEW i \in 1 .. 9, at[i] = IF i <= n THEN SlotOf(i) ELSE 0
      PROVE  at[i + 1] = IF i + 1 <= n THEN SlotOf(i + 1) ELSE 0
  <2>1. at[i + 1] = Onward(m, at[i])
    BY WalkGoesOn
  <2>2. CASE i <= n
    <3>1. SlotOf(i) \in Slots /\ m[SlotOf(i)] = r.tds[i]
      <4>1. i \in 1 .. 10 /\ i \in 1 .. n
        BY <2>2, <1>1
      <4>2. SlotOf(i) \in Slots
        BY <4>1, SlotsApart
      <4>3. m[SlotOf(i)] = r.tds[i]
        BY <4>1 DEF InPlace
      <4>. QED  BY <4>2, <4>3
    <3>2. at[i + 1] = r.tds[i][5]
      BY <2>1, <2>2, <3>1, <1>3 DEF Onward
    <3>3. r.tds[i][5] = IF i = n THEN 0 ELSE SlotOf(i + 1)
      BY <2>2, <1>1 DEF Linked
    <3>. HIDE DEF at, n
    <3>. QED  BY <3>2, <3>3, <2>2, <1>1
  <2>3. CASE ~ (i <= n)
    <3>1. at[i + 1] = 0
      BY <2>1, <2>3, <1>3, SlotsApart DEF Onward
    <3>. HIDE DEF at, n
    <3>. QED  BY <3>1, <2>3, <1>1
  <2>. QED  BY <2>2, <2>3
<1>. HIDE DEF at, n
<1>4. at[1] = IF 1 <= n THEN SlotOf(1) ELSE 0
  BY <1>1, <1>2
<1>5. at[2] = IF 2 <= n THEN SlotOf(2) ELSE 0
  BY <1>3, <1>4
<1>6. at[3] = IF 3 <= n THEN SlotOf(3) ELSE 0
  BY <1>3, <1>5
<1>7. at[4] = IF 4 <= n THEN SlotOf(4) ELSE 0
  BY <1>3, <1>6
<1>8. at[5] = IF 5 <= n THEN SlotOf(5) ELSE 0
  BY <1>3, <1>7
<1>9. at[6] = IF 6 <= n THEN SlotOf(6) ELSE 0
  BY <1>3, <1>8
<1>10. at[7] = IF 7 <= n THEN SlotOf(7) ELSE 0
  BY <1>3, <1>9
<1>11. at[8] = IF 8 <= n THEN SlotOf(8) ELSE 0
  BY <1>3, <1>10
<1>12. at[9] = IF 9 <= n THEN SlotOf(9) ELSE 0
  BY <1>3, <1>11
<1>13. at[10] = IF 10 <= n THEN SlotOf(10) ELSE 0
  BY <1>3, <1>12
<1>14. \A i \in 1 .. 10 : at[i] = IF i <= n THEN SlotOf(i) ELSE 0
  <2>. TAKE i \in 1 .. 10
  <2>1. i = 1 \/ i = 2 \/ i = 3 \/ i = 4 \/ i = 5 \/ i = 6 \/ i = 7 \/ i = 8 \/ i = 9 \/ i = 10
    OBVIOUS
  <2>. QED  BY <2>1, <1>4, <1>5, <1>6, <1>7, <1>8, <1>9, <1>10, <1>11, <1>12, <1>13
<1>. QED  BY <1>14 DEF Holds, InPlace, at, n

(* A request made like that can be executed.                               *)
LEMMA ListsFit ==
    ASSUME NEW r, NEW base \in Nat, Linked(r), Behind(r), Packed(r, base),
           Bytes(r) <= r.wLength
    PROVE  Fits(r)
<1>. DEFINE n == Len(r.tds)
            data == 2 .. n - 1
            at(i) == r.tds[i][1]
            long(i) == r.tds[i][2]
<1>1. n \in 1 .. 10
  BY DEF Linked
<1>2. \A i \in data : /\ at(i) = base + 8 * (i - 2) /\ long(i) <= 8 /\ base >= End(r)
                      /\ r.tds[i][4] = (IF i % 2 = 0 THEN \h41 ELSE \h01)
                      /\ i < n - 1 => long(i) = 8
  BY DEF Packed
<1>3. \A i \in data : long(i) \in Nat
  BY <1>1 DEF Behind
<1>4. n > 1 => End(r) >= \h520
  <2>1. End(r) = SlotOf(n) + 12
    BY DEF End
  <2>. HIDE DEF n
  <2>. QED  BY <1>1, <2>1 DEF SlotOf
<1>5. \A j \in 1 .. n : SlotOf(j) + 12 <= End(r) /\ SlotOf(j) \in Nat
  <2>. SUFFICES ASSUME NEW j \in 1 .. n  PROVE SlotOf(j) + 12 <= End(r) /\ SlotOf(j) \in Nat
    OBVIOUS
  <2>1. End(r) = SlotOf(n) + 12
    BY DEF End
  <2>. HIDE DEF n
  <2>2. j \in 1 .. 10 /\ (j = n \/ j < n)
    BY <1>1
  <2>3. SlotOf(j) \in Nat /\ SlotOf(n) \in Nat /\ (j < n => SlotOf(j) + 12 <= SlotOf(n))
    BY <2>2, <1>1, SlotsApart
  <2>. QED  BY ONLY <2>1, <2>2, <2>3
<1>6. End(r) \in Nat
  <2>1. End(r) = SlotOf(n) + 12
    BY DEF End
  <2>. HIDE DEF n
  <2>. QED  BY <1>1, <2>1, SlotsApart
<1>7. \A i, j \in data : i # j => ~Overlap(at(i), long(i), at(j), long(j))
  <2>. SUFFICES ASSUME NEW i \in data, NEW j \in data, i # j,
                       Overlap(at(i), long(i), at(j), long(j))
                PROVE  FALSE
    OBVIOUS
  <2>1. at(i) < at(j) + long(j) /\ at(j) < at(i) + long(i)
    BY DEF Overlap
  <2>2. /\ i \in Int /\ j \in Int /\ i # j /\ long(i) \in Nat /\ long(j) \in Nat
        /\ long(i) <= 8 /\ long(j) <= 8
        /\ at(i) = base + 8 * (i - 2) /\ at(j) = base + 8 * (j - 2)
    BY <1>1, <1>2, <1>3
  <2>. HIDE DEF at, long
  <2>. QED  BY ONLY <2>1, <2>2, base \in Nat
<1>8. \A i \in data, j \in 1 .. n : ~Overlap(at(i), long(i), SlotOf(j), 12)
  <2>. SUFFICES ASSUME NEW i \in data, NEW j \in 1 .. n,
                       Overlap(at(i), long(i), SlotOf(j), 12)
                PROVE  FALSE
    OBVIOUS
  <2>1. at(i) < SlotOf(j) + 12
    BY DEF Overlap
  <2>2. i >= 2 /\ i \in Int /\ at(i) = base + 8 * (i - 2) /\ base >= End(r)
    BY <1>1, <1>2
  <2>3. SlotOf(j) + 12 <= End(r) /\ SlotOf(j) \in Nat
    BY <1>5
  <2>. HIDE DEF at, long
  <2>. QED  BY ONLY <2>1, <2>2, <2>3, <1>6, base \in Nat
<1>9. \A i \in data : ~Overlap(at(i), long(i), \h50C, 8)
  <2>. SUFFICES ASSUME NEW i \in data, Overlap(at(i), long(i), \h50C, 8)
                PROVE  FALSE
    OBVIOUS
  <2>1. at(i) < \h50C + 8
    BY DEF Overlap
  <2>2. i >= 2 /\ i \in Int /\ at(i) = base + 8 * (i - 2) /\ base >= End(r) /\ n > 1
    BY <1>1, <1>2
  <2>. HIDE DEF at, long
  <2>. QED  BY ONLY <2>1, <2>2, <1>4, <1>6, base \in Nat
<1>10. \A i \in data : r.tds[i][4] = IF i % 2 = 0 THEN \h41 ELSE \h01
  BY <1>2
<1>11. \A i \in 2 .. n - 2 : r.tds[i][2] = 8
  <2>. SUFFICES ASSUME NEW i \in 2 .. n - 2  PROVE long(i) = 8
    OBVIOUS
  <2>1. i \in data /\ i < n - 1
    BY <1>1
  <2>. QED  BY <2>1, <1>2
<1>. QED  BY <1>7, <1>8, <1>9, <1>10, <1>11 DEF Fits

(* What is received while it is executed leaves it as it is.               *)
LEMMA ReceivedSpares ==
    ASSUME NEW m, NEW r, Linked(r), Behind(r), InPlace(m, r)
    PROVE  InPlace(Received(m), r)
<1>. DEFINE n == Len(r.tds)
            at == Walk(m)
            ins == {td \in {m[a] : a \in {at[i] : i \in 1 .. 10} \cap Slots} :
                        td[3] \in {\h090, \h290, \h291} /\ td[2] > 0}
<1>1. n \in 1 .. 10 /\ Holds(m, r)
  BY ListsAreWalked DEF Linked
<1>2. ASSUME NEW td \in ins
      PROVE  td[1] >= End(r) /\ td[1] \in Nat /\ td[2] \in Nat
  <2>1. PICK i \in 1 .. 10 : at[i] \in Slots /\ td = m[at[i]] /\ Receives(td)
    BY DEF Receives
  <2>2. at[i] = IF i <= n THEN SlotOf(i) ELSE 0
    BY <1>1 DEF Holds
  <2>3. i \in 1 .. n /\ at[i] = SlotOf(i)
    BY <2>1, <2>2, <1>1, SlotsApart
  <2>4. td = r.tds[i]
    BY <2>1, <2>3 DEF InPlace
  <2>. QED  BY <2>1, <2>3, <2>4 DEF Behind
<1>3. ASSUME NEW j \in 1 .. n
      PROVE  Received(m)[SlotOf(j)] = m[SlotOf(j)]
  <2>1. j \in 1 .. 10 /\ (j = n \/ j < n)
    <3>. HIDE DEF n
    <3>. QED  BY <1>1
  <2>2. /\ SlotOf(j) \in Slots /\ SlotOf(j) \in Nat /\ SlotOf(n) \in Nat
        /\ j < n => SlotOf(j) + 12 <= SlotOf(n)
    BY <2>1, <1>1, SlotsApart
  <2>3. End(r) = SlotOf(n) + 12
    BY DEF End
  <2>4. ASSUME NEW td \in ins, Overlap(SlotOf(j), 12, td[1], td[2])
        PROVE  FALSE
    <3>1. td[1] < SlotOf(j) + 12
      BY <2>4 DEF Overlap
    <3>2. td[1] >= End(r) /\ td[1] \in Nat
      BY <1>2
    <3>. HIDE DEF n
    <3>. QED  BY ONLY <3>1, <3>2, <2>1, <2>2, <2>3
  <2>5. Received(m) = [a \in Slots |-> IF \E td \in ins : Overlap(a, 12, td[1], td[2])
                                       THEN Other ELSE m[a]]
    BY DEF Received
  <2>. HIDE DEF ins
  <2>. QED  BY <2>2, <2>4, <2>5
<1>. QED  BY <1>3 DEF InPlace

(* Writing a list puts every descriptor into its slot.                     *)
LEMMA WrittenInPlace ==
    ASSUME NEW m, NEW r, Linked(r)
    PROVE  InPlace(Written(m, r), r)
<1>1. SUFFICES ASSUME NEW i \in 1 .. Len(r.tds)
               PROVE  Written(m, r)[SlotOf(i)] = r.tds[i]
  BY DEF InPlace
<1>. DEFINE n == Len(r.tds)
<1>2. i \in 1 .. 10 /\ DOMAIN r.tds = 1 .. n /\ n \in 1 .. 10 /\ i \in 1 .. n
  <2>1. DOMAIN r.tds = 1 .. n /\ n \in 1 .. 10 /\ i \in 1 .. n
    BY DEF Linked
  <2>. HIDE DEF n
  <2>. QED  BY <2>1
<1>. HIDE DEF n
<1>3. SlotOf(i) \in Slots
  BY <1>2, SlotsApart
<1>. DEFINE j == CHOOSE j \in DOMAIN r.tds : SlotOf(i) = SlotOf(j)
<1>4. j \in DOMAIN r.tds /\ SlotOf(i) = SlotOf(j)
  BY <1>2
<1>. HIDE DEF j
<1>5. i = j
  <2>1. j \in 1 .. 10
    BY <1>2, <1>4
  <2>. QED  BY <1>2, <1>4, <2>1, SlotsApart
<1>6. Written(m, r)[SlotOf(i)] = r.tds[j]
  BY <1>2, <1>3 DEF Written, j
<1>. QED  BY <1>5, <1>6

(* What the requests ask for is no more than they announce.                *)
LEMMA RequestsAnnounce ==
    ASSUME NEW k \in 1 .. 10
    PROVE  Bytes(Requests[k]) <= Requests[k].wLength
<1>1. Bytes(UsbSetAddress) <= UsbSetAddress.wLength
  <2>. DEFINE r == UsbSetAddress
  <2>1. Len(r.tds) = 2 /\ \A i \in 1 .. Len(r.tds) : r.tds[i][1] \in Nat /\ r.tds[i][2] \in Nat
    BY DEF UsbSetAddress, SetupTo0
  <2>2. /\ Weight(r.tds[1]) = 0 /\ Weight(r.tds[2]) = 0
    BY DEF Weight, UsbSetAddress, SetupTo0
  <2>3. r.wLength = 0
    BY DEF UsbSetAddress
  <2>. HIDE DEF r
  <2>4. PICK s : /\ s[0] = 0 /\ Bytes(r) = s[2]
                 /\ \A i \in 1 .. 2 : s[i] = s[i - 1] + Weight(r.tds[i])
    BY <2>1, BytesAddUp
  <2>5. /\ s[1] = s[0] + Weight(r.tds[1]) /\ s[2] = s[1] + Weight(r.tds[2])
    BY <2>4
  <2>6. s[2] = 0
    BY ONLY <2>2, <2>4, <2>5
  <2>. QED  BY <2>3, <2>4, <2>6 DEF r
<1>2. Bytes(UsbGetDeviceDesc1) <= UsbGetDeviceDesc1.wLength
  <2>. DEFINE r == UsbGetDeviceDesc1
  <2>1. Len(r.tds) = 3 /\ \A i \in 1 .. Len(r.tds) : r.tds[i][1] \in Nat /\ r.tds[i][2] \in Nat
    BY DEF UsbGetDeviceDesc1, SetupTo2
  <2>2. /\ Weight(r.tds[1]) = 0 /\ Weight(r.tds[2]) = 8
        /\ Weight(r.tds[3]) = 0
    BY DEF Weight, UsbGetDeviceDesc1, SetupTo2
  <2>3. r.wLength = 8
    BY DEF UsbGetDeviceDesc1
  <2>. HIDE DEF r
  <2>4. PICK s : /\ s[0] = 0 /\ Bytes(r) = s[3]
                 /\ \A i \in 1 .. 3 : s[i] = s[i - 1] + Weight(r.tds[i])
    BY <2>1, BytesAddUp
  <2>5. /\ s[1] = s[0] + Weight(r.tds[1]) /\ s[2] = s[1] + Weight(r.tds[2])
        /\ s[3] = s[2] + Weight(r.tds[3])
    BY <2>4
  <2>6. s[3] = 8
    BY ONLY <2>2, <2>4, <2>5
  <2>. QED  BY <2>3, <2>4, <2>6 DEF r
<1>3. Bytes(UsbGetDeviceDesc2) <= UsbGetDeviceDesc2.wLength
  <2>. DEFINE r == UsbGetDeviceDesc2
  <2>1. Len(r.tds) = 5 /\ \A i \in 1 .. Len(r.tds) : r.tds[i][1] \in Nat /\ r.tds[i][2] \in Nat
    BY DEF UsbGetDeviceDesc2, SetupTo2
  <2>2. /\ Weight(r.tds[1]) = 0 /\ Weight(r.tds[2]) = 8
        /\ Weight(r.tds[3]) = 8 /\ Weight(r.tds[4]) = 2
        /\ Weight(r.tds[5]) = 0
    BY DEF Weight, UsbGetDeviceDesc2, SetupTo2
  <2>3. r.wLength = 18
    BY DEF UsbGetDeviceDesc2
  <2>. HIDE DEF r
  <2>4. PICK s : /\ s[0] = 0 /\ Bytes(r) = s[5]
                 /\ \A i \in 1 .. 5 : s[i] = s[i - 1] + Weight(r.tds[i])
    BY <2>1, BytesAddUp
  <2>5. /\ s[1] = s[0] + Weight(r.tds[1]) /\ s[2] = s[1] + Weight(r.tds[2])
        /\ s[3] = s[2] + Weight(r.tds[3]) /\ s[4] = s[3] + Weight(r.tds[4])
        /\ s[5] = s[4] + Weight(r.tds[5])
    BY <2>4
  <2>6. s[5] = 18
    BY ONLY <2>2, <2>4, <2>5
  <2>. QED  BY <2>3, <2>4, <2>6 DEF r
<1>4. Bytes(UsbGetConfigDesc1) <= UsbGetConfigDesc1.wLength
  <2>. DEFINE r == UsbGetConfigDesc1
  <2>1. Len(r.tds) = 4 /\ \A i \in 1 .. Len(r.tds) : r.tds[i][1] \in Nat /\ r.tds[i][2] \in Nat
    BY DEF UsbGetConfigDesc1, SetupTo2
  <2>2. /\ Weight(r.tds[1]) = 0 /\ Weight(r.tds[2]) = 8
        /\ Weight(r.tds[3]) = 1 /\ Weight(r.tds[4]) = 0
    BY DEF Weight, UsbGetConfigDesc1, SetupTo2
  <2>3. r.wLength = 9
    BY DEF UsbGetConfigDesc1
  <2>. HIDE DEF r
  <2>4. PICK s : /\ s[0] = 0 /\ Bytes(r) = s[4]
                 /\ \A i \in 1 .. 4 : s[i] = s[i - 1] + Weight(r.tds[i])
    BY <2>1, BytesAddUp
  <2>5. /\ s[1] = s[0] + Weight(r.tds[1]) /\ s[2] = s[1] + Weight(r.tds[2])
        /\ s[3] = s[2] + Weight(r.tds[3]) /\ s[4] = s[3] + Weight(r.tds[4])
    BY <2>4
  <2>6. s[4] = 9
    BY ONLY <2>2, <2>4, <2>5
  <2>. QED  BY <2>3, <2>4, <2>6 DEF r
<1>5. Bytes(UsbGetConfigDesc2) <= UsbGetConfigDesc2.wLength
  <2>. DEFINE r == UsbGetConfigDesc2
  <2>1. Len(r.tds) = 7 /\ \A i \in 1 .. Len(r.tds) : r.tds[i][1] \in Nat /\ r.tds[i][2] \in Nat
    BY DEF UsbGetConfigDesc2, SetupTo2
  <2>2. /\ Weight(r.tds[1]) = 0 /\ Weight(r.tds[2]) = 8
        /\ Weight(r.tds[3]) = 8 /\ Weight(r.tds[4]) = 8
        /\ Weight(r.tds[5]) = 8 /\ Weight(r.tds[6]) = 2
        /\ Weight(r.tds[7]) = 0
    BY DEF Weight, UsbGetConfigDesc2, SetupTo2
  <2>3. r.wLength = 255
    BY DEF UsbGetConfigDesc2
  <2>. HIDE DEF r
  <2>4. PICK s : /\ s[0] = 0 /\ Bytes(r) = s[7]
                 /\ \A i \in 1 .. 7 : s[i] = s[i - 1] + Weight(r.tds[i])
    BY <2>1, BytesAddUp
  <2>5. /\ s[1] = s[0] + Weight(r.tds[1]) /\ s[2] = s[1] + Weight(r.tds[2])
        /\ s[3] = s[2] + Weight(r.tds[3]) /\ s[4] = s[3] + Weight(r.tds[4])
        /\ s[5] = s[4] + Weight(r.tds[5]) /\ s[6] = s[5] + Weight(r.tds[6])
        /\ s[7] = s[6] + Weight(r.tds[7])
    BY <2>4
  <2>6. s[7] = 34
    BY ONLY <2>2, <2>4, <2>5
  <2>. QED  BY <2>3, <2>4, <2>6 DEF r
<1>6. Bytes(UsbSetConfig) <= UsbSetConfig.wLength
  <2>. DEFINE r == UsbSetConfig
  <2>1. Len(r.tds) = 2 /\ \A i \in 1 .. Len(r.tds) : r.tds[i][1] \in Nat /\ r.tds[i][2] \in Nat
    BY DEF UsbSetConfig, SetupTo2, StatusIn
  <2>2. /\ Weight(r.tds[1]) = 0 /\ Weight(r.tds[2]) = 0
    BY DEF Weight, UsbSetConfig, SetupTo2, StatusIn
  <2>3. r.wLength = 0
    BY DEF UsbSetConfig
  <2>. HIDE DEF r
  <2>4. PICK s : /\ s[0] = 0 /\ Bytes(r) = s[2]
                 /\ \A i \in 1 .. 2 : s[i] = s[i - 1] + Weight(r.tds[i])
    BY <2>1, BytesAddUp
  <2>5. /\ s[1] = s[0] + Weight(r.tds[1]) /\ s[2] = s[1] + Weight(r.tds[2])
    BY <2>4
  <2>6. s[2] = 0
    BY ONLY <2>2, <2>4, <2>5
  <2>. QED  BY <2>3, <2>4, <2>6 DEF r
<1>7. Bytes(UsbClassRequest) <= UsbClassRequest.wLength
  <2>. DEFINE r == UsbClassRequest
  <2>1. Len(r.tds) = 2 /\ \A i \in 1 .. Len(r.tds) : r.tds[i][1] \in Nat /\ r.tds[i][2] \in Nat
    BY DEF UsbClassRequest, SetupTo2, StatusIn
  <2>2. /\ Weight(r.tds[1]) = 0 /\ Weight(r.tds[2]) = 0
    BY DEF Weight, UsbClassRequest, SetupTo2, StatusIn
  <2>3. r.wLength = 0
    BY DEF UsbClassRequest
  <2>. HIDE DEF r
  <2>4. PICK s : /\ s[0] = 0 /\ Bytes(r) = s[2]
                 /\ \A i \in 1 .. 2 : s[i] = s[i - 1] + Weight(r.tds[i])
    BY <2>1, BytesAddUp
  <2>5. /\ s[1] = s[0] + Weight(r.tds[1]) /\ s[2] = s[1] + Weight(r.tds[2])
    BY <2>4
  <2>6. s[2] = 0
    BY ONLY <2>2, <2>4, <2>5
  <2>. QED  BY <2>3, <2>4, <2>6 DEF r
<1>8. Bytes(UsbGetHidDesc) <= UsbGetHidDesc.wLength
  <2>. DEFINE r == UsbGetHidDesc
  <2>1. Len(r.tds) = 3 /\ \A i \in 1 .. Len(r.tds) : r.tds[i][1] \in Nat /\ r.tds[i][2] \in Nat
    BY DEF UsbGetHidDesc, SetupTo2
  <2>2. /\ Weight(r.tds[1]) = 0 /\ Weight(r.tds[2]) = 8
        /\ Weight(r.tds[3]) = 0
    BY DEF Weight, UsbGetHidDesc, SetupTo2
  <2>3. r.wLength = 123
    BY DEF UsbGetHidDesc
  <2>. HIDE DEF r
  <2>4. PICK s : /\ s[0] = 0 /\ Bytes(r) = s[3]
                 /\ \A i \in 1 .. 3 : s[i] = s[i - 1] + Weight(r.tds[i])
    BY <2>1, BytesAddUp
  <2>5. /\ s[1] = s[0] + Weight(r.tds[1]) /\ s[2] = s[1] + Weight(r.tds[2])
        /\ s[3] = s[2] + Weight(r.tds[3])
    BY <2>4
  <2>6. s[3] = 8
    BY ONLY <2>2, <2>4, <2>5
  <2>. QED  BY <2>3, <2>4, <2>6 DEF r
<1>9. Bytes(UsbGetReportDesc) <= UsbGetReportDesc.wLength
  <2>. DEFINE r == UsbGetReportDesc
  <2>1. Len(r.tds) = 10 /\ \A i \in 1 .. Len(r.tds) : r.tds[i][1] \in Nat /\ r.tds[i][2] \in Nat
    BY DEF UsbGetReportDesc, SetupTo2, ReportIn2
  <2>2. /\ Weight(r.tds[1]) = 0 /\ Weight(r.tds[2]) = 8
        /\ Weight(r.tds[3]) = 8 /\ Weight(r.tds[4]) = 8
        /\ Weight(r.tds[5]) = 8 /\ Weight(r.tds[6]) = 8
        /\ Weight(r.tds[7]) = 8 /\ Weight(r.tds[8]) = 8
        /\ Weight(r.tds[9]) = 3 /\ Weight(r.tds[10]) = 0
    BY DEF Weight, UsbGetReportDesc, SetupTo2, ReportIn2
  <2>3. r.wLength = 123
    BY DEF UsbGetReportDesc
  <2>. HIDE DEF r
  <2>4. PICK s : /\ s[0] = 0 /\ Bytes(r) = s[10]
                 /\ \A i \in 1 .. 10 : s[i] = s[i - 1] + Weight(r.tds[i])
    BY <2>1, BytesAddUp
  <2>5. /\ s[1] = s[0] + Weight(r.tds[1]) /\ s[2] = s[1] + Weight(r.tds[2])
        /\ s[3] = s[2] + Weight(r.tds[3]) /\ s[4] = s[3] + Weight(r.tds[4])
        /\ s[5] = s[4] + Weight(r.tds[5]) /\ s[6] = s[5] + Weight(r.tds[6])
        /\ s[7] = s[6] + Weight(r.tds[7]) /\ s[8] = s[7] + Weight(r.tds[8])
        /\ s[9] = s[8] + Weight(r.tds[9]) /\ s[10] = s[9] + Weight(r.tds[10])
    BY <2>4
  <2>6. s[10] = 59
    BY ONLY <2>2, <2>4, <2>5
  <2>. QED  BY <2>3, <2>4, <2>6 DEF r
<1>10. Bytes(KeyPoll) <= KeyPoll.wLength
  <2>. DEFINE r == KeyPoll
  <2>1. Len(r.tds) = 1 /\ \A i \in 1 .. Len(r.tds) : r.tds[i][1] \in Nat /\ r.tds[i][2] \in Nat
    BY DEF KeyPoll
  <2>2. /\ Weight(r.tds[1]) = 8
    BY DEF Weight, KeyPoll
  <2>3. r.wLength = 8
    BY DEF KeyPoll
  <2>. HIDE DEF r
  <2>4. PICK s : /\ s[0] = 0 /\ Bytes(r) = s[1]
                 /\ \A i \in 1 .. 1 : s[i] = s[i - 1] + Weight(r.tds[i])
    BY <2>1, BytesAddUp
  <2>5. /\ s[1] = s[0] + Weight(r.tds[1])
    BY <2>4
  <2>6. s[1] = 8
    BY ONLY <2>2, <2>4, <2>5
  <2>. QED  BY <2>3, <2>4, <2>6 DEF r
<1>11. CASE k = 1
  <2>1. Requests[k] = UsbSetAddress
    BY <1>11 DEF Requests
  <2>. QED  BY ONLY <2>1, <1>1
<1>12. CASE k = 2
  <2>1. Requests[k] = UsbGetDeviceDesc1
    BY <1>12 DEF Requests
  <2>. QED  BY ONLY <2>1, <1>2
<1>13. CASE k = 3
  <2>1. Requests[k] = UsbGetDeviceDesc2
    BY <1>13 DEF Requests
  <2>. QED  BY ONLY <2>1, <1>3
<1>14. CASE k = 4
  <2>1. Requests[k] = UsbGetConfigDesc1
    BY <1>14 DEF Requests
  <2>. QED  BY ONLY <2>1, <1>4
<1>15. CASE k = 5
  <2>1. Requests[k] = UsbGetConfigDesc2
    BY <1>15 DEF Requests
  <2>. QED  BY ONLY <2>1, <1>5
<1>16. CASE k = 6
  <2>1. Requests[k] = UsbSetConfig
    BY <1>16 DEF Requests
  <2>. QED  BY ONLY <2>1, <1>6
<1>17. CASE k = 7
  <2>1. Requests[k] = UsbClassRequest
    BY <1>17 DEF Requests
  <2>. QED  BY ONLY <2>1, <1>7
<1>18. CASE k = 8
  <2>1. Requests[k] = UsbGetHidDesc
    BY <1>18 DEF Requests
  <2>. QED  BY ONLY <2>1, <1>8
<1>19. CASE k = 9
  <2>1. Requests[k] = UsbGetReportDesc
    BY <1>19 DEF Requests
  <2>. QED  BY ONLY <2>1, <1>9
<1>20. CASE k = 10
  <2>1. Requests[k] = KeyPoll
    BY <1>20 DEF Requests
  <2>. QED  BY ONLY <2>1, <1>10
<1>. QED  BY <1>11, <1>12, <1>13, <1>14, <1>15, <1>16, <1>17, <1>18, <1>19, <1>20

-----------------------------------------------------------------------------
(***************************************************************************)
(* The key registers.                                                      *)
(***************************************************************************)
LEMMA KeysKept ==
    ASSUME [Next]_vars, ~ReadReport, ~ShowKey
    PROVE  UNCHANGED keys /\ (pc' = "show" <=> pc = "show")
<1>1. CASE Program
  BY <1>1 DEF Program, UsbSoftReset, InitAcknowledged, InitRefused, Detect, Appears,
              BeginList, EndList, RepeatList, StartList, Sleep, PollFlag, ReadMessage,
              ClearMessage, CheckControl, RetryMessage, DropMessage, SpinForFlag,
              RecheckControl, WriteEndpoint, PointAtEndpoint, LookForDevice, GoesOn, keys
<1>2. CASE Controller \/ StartOver \/ Unplug \/ Plug \/ UNCHANGED vars
  BY <1>2 DEF Controller, TakeList, StartOver, FirstAccepted, FirstDisturbed,
              FirstUnanswered, RestDone, ListFailed, JunkEnds, Unplug, Plug,
              program, vars
<1>. QED  BY <1>1, <1>2 DEF Next

LEMMA KeysStep ==
    ASSUME IInv, [Next]_vars
    PROVE  KeysShown'
<1>1. /\ row \in [Places -> Codes] /\ old \in [Places -> Codes] /\ KeysShown
      /\ new \in [Places -> Codes] /\ next \in 1 .. NSlots + 1 /\ NSlots \in Nat \ {0}
  BY KeySlotsAssumption DEF IInv, TypeOK, Rows
<1>2. CASE ReadReport
  <2>1. /\ pc = "read" /\ pc' = "show" /\ new' = received /\ next' = 1
        /\ row' = row /\ old' = old
    BY <1>2 DEF ReadReport
  <2>. QED  BY <2>1, <1>1 DEF KeysShown, Places
<1>3. CASE ShowKey
  <2>1. /\ pc = "show" /\ row' = [row EXCEPT ![next] = new[next]]
        /\ next' = next + 1 /\ new' = new
        /\ pc' = IF next = NSlots THEN "present" ELSE "show"
        /\ old' = IF next = NSlots THEN new ELSE old
    BY <1>3 DEF ShowKey, Forwards
  <2>2. \A i \in Places : row'[i] = IF i < next + 1 THEN new[i] ELSE old[i]
    BY <2>1, <1>1 DEF KeysShown, Places
  <2>3. CASE next = NSlots
    <3>1. \A i \in Places : row'[i] = new[i]
      BY <2>2, <2>3, <1>1 DEF Places
    <3>2. row' = new
      BY <3>1, <2>1, <1>1
    <3>. QED  BY <3>2, <2>1, <2>3 DEF KeysShown
  <2>4. CASE next # NSlots
    <3>1. next + 1 \in Places
      BY <2>1, <2>4, <1>1 DEF KeysShown, Places
    <3>. QED  BY <3>1, <2>1, <2>2, <2>4 DEF KeysShown
  <2>. QED  BY <2>3, <2>4
<1>4. CASE ~ReadReport /\ ~ShowKey
  BY <1>1, <1>4, KeysKept DEF KeysShown, keys
<1>. QED  BY <1>2, <1>3, <1>4

(* Of the places that hold a direction of the player there is a last one.  *)
LEMMA LastDecides ==
    ASSUME NEW r, NEW p, NEW i \in Places, r[i] \in Directions[p]
    PROVE  \E j \in Places : Decides(r, p, j)
<1>. DEFINE T == {n \in Nat : n <= NSlots /\ NSlots - n \in Places
                              /\ r[NSlots - n] \in Directions[p]}
<1>1. NSlots \in Nat
  BY KeySlotsAssumption
<1>2. NSlots - i \in T
  BY <1>1 DEF Places
<1>3. PICK n \in T : \A m \in T : ~ (m < n)
  <2>1. \E x \in T : \A y \in T : ~ (<<y, x>> \in OpToRel(<, Nat))
    <3>1. T \subseteq Nat /\ T # {}
      BY <1>2
    <3>. HIDE DEF T
    <3>. QED  BY <3>1, NatLessThanWellFounded, WFMin
  <2>2. \A x, y \in Nat : <<y, x>> \in OpToRel(<, Nat) <=> y < x
    BY DEF OpToRel
  <2>3. T \subseteq Nat
    OBVIOUS
  <2>. HIDE DEF T
  <2>. QED  BY <2>1, <2>2, <2>3
<1>4. NSlots - n \in Places /\ r[NSlots - n] \in Directions[p] /\ n \in Nat
  OBVIOUS
<1>5. ASSUME NEW j \in Places, j > NSlots - n, r[j] \in Directions[p]
      PROVE  FALSE
  <2>1. NSlots - j \in Nat /\ NSlots - j <= NSlots /\ NSlots - (NSlots - j) = j
    BY <1>1 DEF Places
  <2>2. NSlots - j \in T
    BY <2>1, <1>5
  <2>3. NSlots - j < n
    BY <1>1, <1>4, <1>5 DEF Places
  <2>. QED  BY <2>2, <2>3, <1>3
<1>. QED  BY <1>4, <1>5 DEF Decides

LEMMA HeldMoves ==
    ASSUME IInv
    PROVE  HeldMoveStays
<1>. SUFFICES ASSUME NEW p \in Players, NEW d \in Directions[p],
                     HoldsOnly(old, new, p, d)
              PROVE  Moves(row, p) = d
  BY DEF HeldMoveStays
<1>1. /\ \A i \in Places : row[i] = new[i] \/ row[i] = old[i]
      /\ \E n \in Int : \A i \in Places : row[i] = IF i < n THEN new[i] ELSE old[i]
  <2>1. CASE pc = "show"
    <3>1. next \in Int
      BY KeySlotsAssumption DEF IInv, TypeOK
    <3>. QED  BY <2>1, <3>1 DEF IInv, KeysShown
  <2>2. CASE pc # "show"
    <3>1. row = new /\ 0 \in Int /\ old = new
      BY <2>2 DEF IInv, KeysShown
    <3>. QED  BY <3>1
  <2>. QED  BY <2>1, <2>2
<1>2. \A i \in Places : row[i] \in Directions[p] => row[i] = d
  BY <1>1 DEF HoldsOnly
<1>3. \E i \in Places : row[i] = d
  <2>1. PICK i \in Places, j \in Places : j <= i /\ old[i] = d /\ new[j] = d
    BY DEF HoldsOnly, Held
  <2>2. PICK n \in Int : \A k \in Places : row[k] = IF k < n THEN new[k] ELSE old[k]
    BY <1>1
  <2>3. CASE i < n
    <3>1. j < n
      BY <2>1, <2>3, KeySlotsAssumption DEF Places
    <3>. QED  BY <3>1, <2>1, <2>2
  <2>4. CASE ~ (i < n)
    BY <2>1, <2>2, <2>4
  <2>. QED  BY <2>3, <2>4
<1>4. \E i \in Places : Decides(row, p, i)
  BY <1>3, LastDecides
<1>5. /\ (CHOOSE i \in Places : Decides(row, p, i)) \in Places
      /\ Decides(row, p, CHOOSE i \in Places : Decides(row, p, i))
  BY <1>4
<1>. QED  BY <1>2, <1>4, <1>5 DEF Moves, Decides

-----------------------------------------------------------------------------
(***************************************************************************)
(* The state is well formed.                                               *)
(***************************************************************************)
ProgramTypes ==
    /\ pc \in Locations /\ step \in SetAddress .. Poll
    /\ got \in {"none", "done"}

KeyTypes == /\ row \in Rows /\ old \in Rows /\ new \in Rows
            /\ next \in 1 .. NSlots + 1

ControllerTypes ==
    /\ msg \in {"none", "done"}
    /\ sie \in {"idle", "setup", "rest", "failed", "junk"}
    /\ pending \in {"none", "list", "junk"} /\ taken \in 0 .. Poll
    /\ flag \in BOOLEAN
    /\ ctl \in {"active", "ok", "retried"} /\ content \in 0 .. Poll
    /\ received \in Rows /\ IsMemory(mem)

KeyboardTypes ==
    /\ plugged \in BOOLEAN /\ addressed \in BOOLEAN
    /\ seen \subseteq SetAddress .. Last
    /\ late \in BOOLEAN /\ strays \in BOOLEAN
    /\ upset \in BOOLEAN /\ faults \in 0 .. MaxFaults /\ plugs \in 0 .. MaxPlugs

Types == ProgramTypes /\ KeyTypes /\ ControllerTypes /\ KeyboardTypes

LEMMA TypesAre ==
    Types <=> TypeOK /\ IsMemory(mem)
BY DEF Types, ProgramTypes, KeyTypes, ControllerTypes, KeyboardTypes, TypeOK

LEMMA ProgramTypesStep ==
    ASSUME Types, ListOfStep, [Next]_vars
    PROVE  ProgramTypes'
<1>. USE DEF Types, ProgramTypes, ControllerTypes, Locations, SetAddress, Poll
<1>1. CASE Controller \/ StartOver \/ Unplug \/ Plug \/ UNCHANGED vars
  BY <1>1 DEF Controller, TakeList, StartOver, FirstAccepted, FirstDisturbed,
              FirstUnanswered, RestDone, ListFailed, JunkEnds, Unplug, Plug,
              program, vars
<1>2. CASE UsbSoftReset \/ InitAcknowledged \/ InitRefused \/ Detect \/ Appears
           \/ BeginList \/ EndList \/ RepeatList \/ StartList \/ Sleep \/ PollFlag
           \/ ReadReport \/ ShowKey \/ LookForDevice
  BY <1>2 DEF UsbSoftReset, InitAcknowledged, InitRefused, Detect, Appears, BeginList,
              EndList, RepeatList, StartList, Sleep, PollFlag, ReadReport, ShowKey,
              LookForDevice
<1>3. CASE ReadMessage \/ ClearMessage \/ RetryMessage \/ DropMessage \/ SpinForFlag
           \/ WriteEndpoint \/ PointAtEndpoint
  BY <1>3 DEF ReadMessage, ClearMessage, RetryMessage, DropMessage, SpinForFlag,
              WriteEndpoint, PointAtEndpoint, ListOfStep, ConfigDesc2
<1>4. CASE CheckControl \/ RecheckControl
  BY <1>4 DEF CheckControl, RecheckControl, GoesOn, ListOfStep
<1>. QED  BY <1>1, <1>2, <1>3, <1>4 DEF Next, Program

LEMMA KeyTypesStep ==
    ASSUME Types, KeysShown, [Next]_vars
    PROVE  KeyTypes'
<1>. USE DEF KeyTypes
<1>1. Types /\ KeyTypes /\ received \in Rows /\ NSlots \in Nat \ {0}
  BY KeySlotsAssumption DEF Types, ControllerTypes
<1>2. CASE ReadReport
  BY <1>1, <1>2 DEF ReadReport
<1>3. CASE ShowKey
  <2>1. next \in Places
    BY <1>3 DEF KeysShown, ShowKey
  <2>. QED  BY <1>1, <1>3, <2>1 DEF ShowKey, Forwards, Rows, Places
<1>4. CASE ~ReadReport /\ ~ShowKey
  BY <1>1, <1>4, KeysKept DEF keys
<1>. QED  BY <1>2, <1>3, <1>4

LEMMA ControllerTypesStep ==
    ASSUME Types, [Next]_vars
    PROVE  ControllerTypes'
<1>. USE DEF ControllerTypes
<1>1. ControllerTypes /\ step \in SetAddress .. Poll /\ IsMemory(mem)
      /\ Reports \subseteq Rows
  BY UsbHostAssumption DEF Types, ProgramTypes
<1>2. CASE EndList \/ RepeatList
  <2>1. IsMemory(mem')
    BY <1>1, <1>2, WrittenWords DEF EndList, RepeatList
  <2>2. WordsAtReport(mem') \in Rows
    BY <2>1, ReportRow
  <2>. QED  BY <1>1, <1>2, <2>1, <2>2 DEF EndList, RepeatList, SetAddress, Poll
<1>9. CASE BeginList
  <2>1. 1 \in DOMAIN Requests[step].tds
    <3>1. step \in 1 .. 10
      BY <1>1 DEF SetAddress, Poll
    <3>2. PICK n \in 1 .. 10 : DOMAIN Requests[step].tds = 1 .. n
      BY <3>1, RequestsAreLists DEF Linked
    <3>. QED  BY <3>2
  <2>2. IsFive(Requests[step].tds[1]) /\ ListStart \in Slots
    BY <1>1, <2>1, RequestWords DEF Slots
  <2>3. mem' = [mem EXCEPT ![ListStart] = Requests[step].tds[1]]
    BY <1>9 DEF BeginList
  <2>4. IsMemory(mem')
    BY <1>1, <2>2, <2>3 DEF IsMemory
  <2>. QED  BY <1>1, <1>9, <2>4 DEF BeginList
<1>3. CASE WriteEndpoint
  <2>1. \h574 \in Slots
    <3>1. 8 \in 0 .. 8 /\ \h574 = \h514 + 12 * 8
      OBVIOUS
    <3>. QED  BY <3>1 DEF Slots
  <2>2. IsFive(Other)
    BY DEF IsFive, Other, Words
  <2>3. mem' = [mem EXCEPT ![\h574] = Other]
    BY <1>3 DEF WriteEndpoint
  <2>4. IsMemory(mem')
    BY <1>1, <2>1, <2>2, <2>3 DEF IsMemory
  <2>. QED  BY <1>1, <1>3, <2>4 DEF WriteEndpoint
<1>4. CASE RestDone
  <2>1. IsMemory(mem')
    BY <1>1, <1>4, ReceivedWords DEF RestDone
  <2>. QED  BY <1>1, <1>4, <2>1 DEF RestDone, PostsDone
<1>5. CASE UsbSoftReset \/ InitAcknowledged \/ InitRefused \/ Detect \/ Appears
           \/ StartList \/ Sleep \/ PollFlag \/ ReadReport \/ ShowKey \/ LookForDevice
  BY <1>1, <1>5 DEF UsbSoftReset, InitAcknowledged, InitRefused, Detect, Appears,
              StartList, Sleep, PollFlag, ReadReport, ShowKey, LookForDevice, controller
<1>6. CASE ReadMessage \/ ClearMessage \/ RetryMessage \/ DropMessage \/ SpinForFlag
           \/ PointAtEndpoint \/ CheckControl \/ RecheckControl
  BY <1>1, <1>6 DEF ReadMessage, ClearMessage, RetryMessage, DropMessage, SpinForFlag,
              PointAtEndpoint, CheckControl, RecheckControl, controller
<1>10. CASE TakeList
  <2>1. taken' \in {taken, content, step, 0}
    BY <1>10 DEF TakeList
  <2>2. taken' \in 0 .. Poll
    BY <1>1, <2>1 DEF SetAddress, Poll
  <2>. QED  BY <1>1, <1>10, <2>2 DEF TakeList
<1>7. CASE StartOver \/ FirstAccepted \/ FirstDisturbed \/ FirstUnanswered
           \/ ListFailed \/ JunkEnds
  BY <1>1, <1>7 DEF StartOver, FirstAccepted, FirstDisturbed, FirstUnanswered,
              ListFailed, JunkEnds, PostsDone
<1>8. CASE Unplug \/ Plug \/ UNCHANGED vars
  BY <1>1, <1>8 DEF Unplug, Plug, vars, controller
<1>. QED  BY <1>2, <1>3, <1>4, <1>5, <1>6, <1>7, <1>8, <1>9, <1>10
          DEF Next, Program, Controller

LEMMA KeyboardTypesStep ==
    ASSUME Types, [Next]_vars
    PROVE  KeyboardTypes'
<1>. USE DEF KeyboardTypes
<1>1. KeyboardTypes /\ MaxFaults \in Nat /\ MaxPlugs \in Nat
  BY UsbHostAssumption DEF Types
<1>3. CASE FirstAccepted \/ FirstDisturbed
  <2>1. seen' \subseteq SetAddress .. Last
    BY <1>1, <1>3 DEF FirstAccepted, FirstDisturbed, Hears
  <2>2. faults' \in 0 .. MaxFaults
    <3>1. faults' = faults \/ (faults < MaxFaults /\ faults' = faults + 1)
      BY <1>3 DEF FirstAccepted, FirstDisturbed, history
    <3>. QED  BY ONLY <3>1, <1>1
  <2>3. /\ upset' \in BOOLEAN /\ plugs' = plugs /\ plugged' = plugged
        /\ addressed' = addressed /\ late' = late /\ strays' = strays
    BY <1>1, <1>3 DEF FirstAccepted, FirstDisturbed, history
  <2>. QED  BY <1>1, <2>1, <2>2, <2>3
<1>4. CASE FirstUnanswered
  BY <1>1, <1>4 DEF FirstUnanswered, keyboard
<1>5. CASE RestDone
  BY <1>1, <1>5 DEF RestDone, history
<1>6. CASE TakeList \/ StartOver \/ ListFailed \/ JunkEnds
  BY <1>1, <1>6 DEF TakeList, StartOver, ListFailed, JunkEnds, keyboard, history
<1>7. CASE Unplug \/ Plug \/ UNCHANGED vars
  <2>1. CASE Unplug
    <3>1. /\ plugged' = FALSE /\ addressed' = FALSE /\ seen' = {}
          /\ plugs < MaxPlugs /\ plugs' = plugs + 1 /\ upset' = upset /\ faults' = faults
          /\ late' = late /\ strays' = strays
      BY <2>1 DEF Unplug
    <3>2. plugs' \in 0 .. MaxPlugs
      BY ONLY <1>1, <3>1
    <3>. QED  BY <1>1, <3>1, <3>2
  <2>2. CASE Plug \/ UNCHANGED vars
    BY <1>1, <2>2 DEF Plug, vars, keyboard, history
  <2>. QED  BY <1>7, <2>1, <2>2
<1>8. CASE Sleep
  <2>1. /\ UNCHANGED <<keyboard, plugs, late, strays>>
        /\ \/ faults' = faults /\ upset' = upset
           \/ faults < MaxFaults /\ faults' = faults + 1 /\ upset' = TRUE
    BY <1>8 DEF Sleep, history
  <2>2. faults \in 0 .. MaxFaults /\ MaxFaults \in Nat
    BY <1>1
  <2>3. faults' = faults \/ (faults < MaxFaults /\ faults' = faults + 1)
    BY <2>1
  <2>4. faults' \in 0 .. MaxFaults
    BY ONLY <2>2, <2>3
  <2>5. upset' \in BOOLEAN
    BY <1>1, <2>1
  <2>. QED  BY <1>1, <2>1, <2>4, <2>5 DEF keyboard
<1>9. CASE InitAcknowledged
  BY <1>1, <1>9 DEF InitAcknowledged
<1>11. CASE BeginList
  <2>1. late' \in BOOLEAN
    BY <1>11 DEF BeginList
  <2>. QED  BY <1>1, <1>11, <2>1 DEF BeginList, keyboard
<1>12. CASE ReadReport
  BY <1>1, <1>12 DEF ReadReport, keyboard
<1>10. CASE Program /\ ~Sleep /\ ~InitAcknowledged /\ ~BeginList /\ ~ReadReport
  <2>1. UNCHANGED <<keyboard, history>>
    BY <1>10 DEF Program, UsbSoftReset, InitRefused, Detect, Appears, EndList,
         RepeatList, StartList, PollFlag, ReadMessage, ClearMessage, CheckControl,
         RetryMessage, DropMessage, SpinForFlag, RecheckControl, WriteEndpoint,
         PointAtEndpoint, ShowKey, LookForDevice
  <2>. QED  BY <1>1, <2>1 DEF keyboard, history
<1>. QED  BY <1>3, <1>4, <1>5, <1>6, <1>7, <1>8, <1>9, <1>10, <1>11, <1>12
          DEF Next, Controller

-----------------------------------------------------------------------------
(***************************************************************************)
(* The order of the requests.                                              *)
(***************************************************************************)
LEMMA ListOfStepStep ==
    ASSUME Types, ListOfStep, [Next]_vars
    PROVE  ListOfStep'
<1>. USE DEF ListOfStep
<1>1. step \in 1 .. 10
  BY DEF Types, ProgramTypes, SetAddress, Poll
<1>2. CASE Controller \/ StartOver \/ Unplug \/ Plug \/ UNCHANGED vars
  <2>1. pc' = pc /\ step' = step /\ content' = content
    BY <1>2 DEF Controller, TakeList, StartOver, FirstAccepted, FirstDisturbed,
                FirstUnanswered, RestDone, ListFailed, JunkEnds, Unplug, Plug,
                program, controller, vars
  <2>. QED  BY <2>1
<1>3. CASE UsbSoftReset \/ InitAcknowledged \/ InitRefused \/ Detect \/ Appears
  BY <1>1, <1>3 DEF UsbSoftReset, InitAcknowledged, InitRefused, Detect, Appears
<1>4. CASE BeginList \/ EndList \/ RepeatList \/ StartList \/ Sleep \/ PollFlag
  BY <1>1, <1>4 DEF BeginList, EndList, RepeatList, StartList, Sleep, PollFlag,
                    controller
<1>5. CASE ReadMessage \/ ClearMessage \/ RetryMessage \/ DropMessage \/ SpinForFlag
  BY <1>1, <1>5 DEF ReadMessage, ClearMessage, RetryMessage, DropMessage, SpinForFlag,
                    controller
<1>6. CASE CheckControl \/ RecheckControl
  <2>1. (step' = step /\ pc' \in {"reset", "retry"}) \/ GoesOn
    BY <1>6 DEF CheckControl, RecheckControl
  <2>2. content' = content /\ content = step /\ step # Poll
    BY <1>6 DEF CheckControl, RecheckControl, controller
  <2>. QED  BY <1>1, <2>1, <2>2, <1>6 DEF GoesOn, CheckControl, RecheckControl,
                                           ConfigDesc2, SetAddress, Poll
<1>7. CASE WriteEndpoint \/ PointAtEndpoint
  BY <1>1, <1>7 DEF WriteEndpoint, PointAtEndpoint, ConfigDesc2, SetAddress, Poll
<1>8. CASE ReadReport \/ ShowKey \/ LookForDevice
  BY <1>1, <1>8 DEF ReadReport, ShowKey, LookForDevice, controller, SetAddress, Poll
<1>. QED  BY <1>2, <1>3, <1>4, <1>5, <1>6, <1>7, <1>8 DEF Next, Program

LEMMA QuietStep ==
    ASSUME Types, Quiet, [Next]_vars
    PROVE  Quiet'
<1>. USE DEF Quiet
<1>1. CASE UsbSoftReset
  BY <1>1 DEF UsbSoftReset
<1>2. CASE Program /\ ~UsbSoftReset
  <2>1. pc' # "init"
    BY <1>2 DEF Program, InitAcknowledged, InitRefused, Detect, Appears, BeginList,
         EndList, RepeatList, StartList, Sleep, PollFlag, ReadMessage, ClearMessage,
         CheckControl, RetryMessage, DropMessage, SpinForFlag, RecheckControl,
         WriteEndpoint, PointAtEndpoint, ReadReport, ShowKey, LookForDevice, GoesOn
  <2>. QED  BY <2>1
<1>3. CASE Controller \/ StartOver \/ Unplug \/ Plug \/ UNCHANGED vars
  BY <1>3 DEF Controller, TakeList, StartOver, FirstAccepted, FirstDisturbed,
              FirstUnanswered, RestDone, ListFailed, JunkEnds, Unplug, Plug,
              PostsDone, program, controller, vars
<1>. QED  BY <1>1, <1>2, <1>3 DEF Next

LEMMA TakenStep ==
    ASSUME Types, ListOfStep, Quiet, Taken, [Next]_vars
    PROVE  Taken'
<1>. USE DEF Taken, Executing
<1>1. CASE UsbSoftReset \/ InitAcknowledged
  BY <1>1 DEF UsbSoftReset, InitAcknowledged, Quiet, controller
<1>2. CASE BeginList
  BY <1>2 DEF BeginList
<1>3. CASE EndList
  BY <1>3 DEF EndList, history
<1>4. CASE RepeatList
  BY <1>4 DEF RepeatList, history
<1>5. CASE StartList
  BY <1>5 DEF StartList, history
<1>6. CASE PointAtEndpoint
  BY <1>6 DEF PointAtEndpoint, history
<1>7. CASE InitRefused \/ Detect \/ Appears \/ Sleep \/ PollFlag \/ ReadMessage
           \/ ClearMessage \/ CheckControl \/ RetryMessage \/ DropMessage
           \/ SpinForFlag \/ RecheckControl \/ WriteEndpoint \/ ReadReport \/ ShowKey
           \/ LookForDevice
  <2>1. UNCHANGED <<sie, pending, taken, content, ctl, late>> /\ pc' # "writing"
    BY <1>7 DEF InitRefused, Detect, Appears, Sleep, PollFlag, ReadMessage,
         ClearMessage, CheckControl, RetryMessage, DropMessage, SpinForFlag,
         RecheckControl, WriteEndpoint, ReadReport, ShowKey, LookForDevice, GoesOn,
         controller, history
  <2>. QED  BY <2>1
<1>8. CASE TakeList
  <2>1. /\ UNCHANGED <<pc, content, ctl, late>> /\ pending' = "none"
        /\ \/ pending = "junk" /\ sie' = "junk"
           \/ /\ pending = "list" /\ sie' = "setup"
              /\ pc # "writing" => taken' = content
    BY <1>8 DEF TakeList, program, history, Types, ControllerTypes
  <2>. QED  BY <2>1
<1>9. CASE StartOver \/ FirstAccepted \/ FirstDisturbed \/ FirstUnanswered \/ RestDone
           \/ ListFailed \/ JunkEnds
  <2>1. /\ UNCHANGED <<pc, content, taken, pending, late>>
        /\ sie' \in {"setup", "rest"} => sie \in {"setup", "rest"}
        /\ sie = "setup" \/ ctl' = ctl
    BY <1>9 DEF StartOver, FirstAccepted, FirstDisturbed, FirstUnanswered, RestDone,
         ListFailed, JunkEnds, PostsDone, program, history
  <2>. QED  BY <2>1
<1>10. CASE Unplug \/ Plug \/ UNCHANGED vars
  BY <1>10 DEF Unplug, Plug, vars, program, controller, history
<1>. QED  BY <1>1, <1>2, <1>3, <1>4, <1>5, <1>6, <1>7, <1>8, <1>9, <1>10
          DEF Next, Program, Controller

(* The keyboard hears the request in memory.                               *)
LEMMA HeardOne ==
    ASSUME Types, Heard, ListOfStep, ~late, Answers, taken = content, Hears,
           UNCHANGED <<pc, step, content, plugged, addressed>>
    PROVE  InOrder'
<1>1. content \in 1 .. 10 /\ step \in 1 .. 10 /\ seen \subseteq 1 .. 9
  BY DEF Types, ProgramTypes, ControllerTypes, KeyboardTypes, SetAddress, Poll, Last,
         Answers
<1>0. seen' = seen \union ({content} \intersect (1 .. 9))
  BY DEF Hears, SetAddress, Last
<1>2. CASE ~addressed
  <2>1. content = 1
    BY <1>2 DEF Answers, SetAddress
  <2>2. \A k \in seen' : 1 .. k \subseteq seen'
    <3>1. \A k \in seen : 1 .. k \subseteq seen
      BY DEF Heard, InOrder, NoneSkipped
    <3>2. \A k \in 1 .. 1 : k = 1
      OBVIOUS
    <3>. QED  BY <1>0, <1>1, <2>1, <3>1, <3>2
  <2>. QED  BY <1>2, <2>2 DEF InOrder, NoneSkipped
<1>3. CASE addressed
  <2>1. /\ SetAddress \in seen /\ 1 .. content - 1 \subseteq seen
        /\ pc \notin Outside => 1 .. step - 1 \subseteq seen
        /\ pc \in {"endpoint", "point"} => step \in seen
        /\ \A k \in seen : 1 .. k \subseteq seen
    BY <1>3 DEF Heard, InOrder, NoneSkipped
  <2>2. seen \subseteq seen' /\ content # 0
    BY <1>0, <1>1
  <2>3. \A k \in seen' : 1 .. k \subseteq seen'
    <3>1. \A i \in 1 .. content : i \in 1 .. content - 1 \/ i = content
      BY <1>1
    <3>. QED  BY <1>0, <2>1, <3>1
  <2>4. content \in SetAddress .. Last => content \in seen'
    BY <1>0 DEF Last, SetAddress
  <2>. QED  BY ONLY <2>1, <2>2, <2>3, <2>4, <1>3,
                    UNCHANGED <<pc, step, content, plugged, addressed>>
            DEF InOrder, NoneSkipped
<1>. QED  BY <1>2, <1>3

(* Without a keyboard nothing was heard and nobody has an address.         *)
LEMMA AloneStep ==
    ASSUME Types, ~plugged => seen = {} /\ ~addressed, [Next]_vars
    PROVE  (~plugged => seen = {} /\ ~addressed)'
<1>1. CASE FirstAccepted \/ FirstDisturbed
  BY <1>1 DEF FirstAccepted, FirstDisturbed, Answers
<1>2. CASE RestDone
  <2>1. /\ plugged' = plugged /\ seen' = seen
        /\ addressed' = (addressed \/ (taken = SetAddress /\ taken \in seen))
    BY <1>2 DEF RestDone
  <2>. QED  BY <2>1
<1>3. CASE Unplug \/ Plug \/ InitAcknowledged
  BY <1>3 DEF Unplug, Plug, InitAcknowledged
<1>4. CASE TakeList \/ StartOver \/ FirstUnanswered \/ ListFailed \/ JunkEnds
           \/ UNCHANGED vars
  BY <1>4 DEF TakeList, StartOver, FirstUnanswered, ListFailed, JunkEnds, vars, keyboard
<1>5. CASE Program /\ ~InitAcknowledged
  <2>1. UNCHANGED keyboard
    BY <1>5 DEF Program, UsbSoftReset, InitRefused, Detect, Appears, BeginList,
         EndList, RepeatList, StartList, Sleep, PollFlag, ReadMessage, ClearMessage,
         CheckControl, RetryMessage, DropMessage, SpinForFlag, RecheckControl,
         WriteEndpoint, PointAtEndpoint, ReadReport, ShowKey, LookForDevice
  <2>. QED  BY <2>1 DEF keyboard
<1>. QED  BY <1>1, <1>2, <1>3, <1>4, <1>5 DEF Next, Controller

LEMMA InOrderStep ==
    ASSUME Types, Heard, Taken, ListOfStep, [Next]_vars, ~late'
    PROVE  InOrder'
<1>1. content \in 0 .. 10 /\ step \in 1 .. 10 /\ seen \subseteq 1 .. 9
  BY DEF Types, ProgramTypes, ControllerTypes, KeyboardTypes, SetAddress, Poll, Last
<1>2. CASE InitAcknowledged
  BY <1>2 DEF InitAcknowledged, InOrder, NoneSkipped
<1>. SUFFICES ASSUME ~InitAcknowledged  PROVE InOrder'
  BY <1>2
<1>3. ~late
  <2>1. CASE BeginList
    BY <2>1 DEF BeginList
  <2>2. CASE Program /\ ~BeginList
    <3>1. late' = late
      BY <2>2 DEF Program, UsbSoftReset, InitRefused, Detect, Appears, EndList,
         RepeatList, StartList, Sleep, PollFlag, ReadMessage, ClearMessage,
         CheckControl, RetryMessage, DropMessage, SpinForFlag, RecheckControl,
         WriteEndpoint, PointAtEndpoint, ReadReport, ShowKey, LookForDevice, history
    <3>. QED  BY <3>1
  <2>3. CASE Controller \/ StartOver \/ Unplug \/ Plug \/ UNCHANGED vars
    <3>1. late' = late
      BY <2>3 DEF Controller, TakeList, StartOver, FirstAccepted, FirstDisturbed,
         FirstUnanswered, RestDone, ListFailed, JunkEnds, Unplug, Plug, history, vars
    <3>. QED  BY <3>1
  <2>. QED  BY <2>1, <2>2, <2>3 DEF Next
<1>4. InOrder /\ (~plugged => seen = {} /\ ~addressed)
  BY <1>3 DEF Heard
<1>5. CASE FirstAccepted
  <2>1. taken = content
    BY <1>3, <1>5 DEF Taken, FirstAccepted
  <2>. QED  BY <1>3, <1>5, <2>1, HeardOne DEF FirstAccepted, program
<1>6. CASE FirstDisturbed
  <2>1. taken = content
    BY <1>3, <1>6 DEF Taken, FirstDisturbed
  <2>2. CASE Hears
    BY <1>3, <1>6, <2>1, <2>2, HeardOne DEF FirstDisturbed, program
  <2>3. CASE seen' = seen
    BY <1>4, <1>6, <2>3 DEF FirstDisturbed, InOrder, NoneSkipped, program
  <2>. QED  BY <1>6, <2>2, <2>3 DEF FirstDisturbed
<1>7. CASE FirstUnanswered
  BY <1>4, <1>7 DEF FirstUnanswered, InOrder, NoneSkipped, program, keyboard
<1>8. CASE RestDone
  <2>1. /\ UNCHANGED <<pc, step, content, ctl, plugged, seen>>
        /\ addressed' = (addressed \/ (taken = SetAddress /\ taken \in seen))
        /\ sie = "rest"
    BY <1>8 DEF RestDone, program
  <2>2. taken = content /\ pc # "writing"
    BY <1>3, <2>1 DEF Taken, Executing
  <2>3. CASE addressed' = addressed
    BY <1>4, <2>1, <2>3 DEF InOrder, NoneSkipped
  <2>4. CASE content = SetAddress /\ content \in seen
    <3>1. pc \notin Outside => step \in {1, 2}
      BY <2>4, <1>1, <2>1 DEF ListOfStep, Outside, SetAddress, Poll, Types, ProgramTypes,
                        Locations
    <3>2. pc \notin {"endpoint", "point"}
      BY <2>4 DEF ListOfStep, SetAddress, ConfigDesc2
    <3>3. 1 .. step - 1 \subseteq {1} \/ pc \in Outside
      BY <3>1
    <3>4. \A k \in seen : 1 .. k \subseteq seen
      BY <1>4 DEF InOrder, NoneSkipped
    <3>5. content = 1 /\ content' = 1 /\ 1 \in seen /\ seen' = seen
      BY <2>1, <2>4 DEF SetAddress
    <3>6. 1 .. content' - 1 \subseteq seen'
      BY <3>5
    <3>7. pc' \notin Outside => 1 .. step' - 1 \subseteq seen'
      BY <2>1, <3>3, <3>5
    <3>8. pc' \notin {"endpoint", "point"}
      BY <2>1, <3>2
    <3>9. (\A k \in seen : 1 .. k \subseteq seen)'
      BY <3>4, <3>5
    <3>. QED  BY ONLY <3>5, <3>6, <3>7, <3>8, <3>9 DEF InOrder, NoneSkipped, SetAddress
  <2>5. addressed \in BOOLEAN
    BY DEF Types, KeyboardTypes
  <2>6. addressed' = addressed \/ (content = SetAddress /\ content \in seen)
    BY ONLY <2>1, <2>2, <2>5, Zenon
  <2>. QED  BY <2>3, <2>4, <2>6
<1>9. CASE TakeList \/ StartOver \/ ListFailed \/ JunkEnds
  BY <1>4, <1>9 DEF TakeList, StartOver, ListFailed, JunkEnds, InOrder, NoneSkipped,
                    program, keyboard
<1>10. CASE Unplug \/ Plug \/ UNCHANGED vars
  BY <1>4, <1>10 DEF Unplug, Plug, vars, InOrder, NoneSkipped, program, keyboard,
                     controller
<1>11. CASE UsbSoftReset \/ InitRefused \/ Detect \/ Appears
  <2>1. UNCHANGED <<content, ctl, keyboard>>
    BY <1>11 DEF UsbSoftReset, InitRefused, Detect, Appears, controller
  <2>2. pc' \in Outside \/ (pc' = "write" /\ step' = 1)
    BY <1>11 DEF UsbSoftReset, InitRefused, Detect, Appears, Outside, SetAddress
  <2>. QED  BY <1>4, <2>1, <2>2 DEF InOrder, NoneSkipped, keyboard, Outside
<1>12. CASE BeginList
  <2>1. /\ pc \notin Outside /\ pc' = "writing" /\ ctl' = "active"
        /\ UNCHANGED <<step, content, keyboard>>
    BY <1>12 DEF BeginList, Outside
  <2>. QED  BY <1>4, <2>1 DEF InOrder, NoneSkipped, keyboard
<1>13. CASE EndList \/ RepeatList
  <2>1. /\ pc \notin Outside /\ pc' \in {"start", "restart"} /\ step' = step
        /\ content' = step /\ ctl' = "active" /\ UNCHANGED keyboard
    BY <1>3, <1>13 DEF EndList, RepeatList, Outside, Taken
  <2>. QED  BY <1>1, <1>4, <2>1 DEF InOrder, NoneSkipped, keyboard
<1>14. CASE StartList \/ Sleep \/ PollFlag \/ ReadMessage \/ ClearMessage
            \/ RetryMessage \/ DropMessage \/ SpinForFlag
            \/ ReadReport \/ ShowKey \/ LookForDevice
  <2>1. UNCHANGED <<step, content, ctl, keyboard>>
    BY <1>14 DEF StartList, Sleep, PollFlag, ReadMessage, ClearMessage, RetryMessage,
         DropMessage, SpinForFlag, ReadReport, ShowKey, LookForDevice, controller
  <2>2. pc \notin Outside /\ pc' \notin {"endpoint", "point"}
    BY <1>14 DEF StartList, Sleep, PollFlag, ReadMessage, ClearMessage, RetryMessage,
         DropMessage, SpinForFlag, ReadReport, ShowKey, LookForDevice, Outside
  <2>. QED  BY <1>4, <2>1, <2>2 DEF InOrder, NoneSkipped, keyboard
<1>15. CASE CheckControl \/ RecheckControl
  <2>1. /\ UNCHANGED <<content, ctl, keyboard>>
        /\ pc \notin Outside /\ content = step /\ step # Poll
        /\ \/ step' = step /\ pc' \in {"reset", "retry"}
           \/ ctl = "ok" /\ GoesOn
    BY <1>15 DEF CheckControl, RecheckControl, ListOfStep, controller, Outside
  <2>2. CASE step' = step /\ pc' \in {"reset", "retry"}
    BY <1>4, <2>1, <2>2 DEF InOrder, NoneSkipped, keyboard
  <2>3. CASE ctl = "ok" /\ GoesOn
    <3>1. addressed => step \in seen /\ 1 .. step \subseteq seen
      BY <1>4, <2>1, <2>3, <1>1 DEF InOrder, NoneSkipped, SetAddress, Last, Poll
    <3>2. /\ step' = step \/ step' - 1 = step
          /\ pc' \in {"endpoint", "write"} /\ (pc' = "endpoint" => step' = step)
      BY <2>3, <1>1 DEF GoesOn
    <3>3. addressed => 1 .. step' - 1 \subseteq seen
      BY <3>1, <3>2, <1>1
    <3>. QED  BY <1>4, <2>1, <3>1, <3>2, <3>3 DEF InOrder, NoneSkipped, keyboard
  <2>. QED  BY <2>1, <2>2, <2>3
<1>16. CASE WriteEndpoint
  BY <1>4, <1>16 DEF WriteEndpoint, InOrder, NoneSkipped, keyboard, Outside
<1>17. CASE PointAtEndpoint
  <2>1. /\ UNCHANGED <<content, ctl, keyboard>> /\ pc = "point"
        /\ step' = step + 1 /\ pc' = "write"
    BY <1>17 DEF PointAtEndpoint
  <2>2. addressed => 1 .. step' - 1 \subseteq seen
    <3>1. step' - 1 = step
      BY <2>1, <1>1
    <3>. QED  BY <1>4, <2>1, <3>1 DEF InOrder, NoneSkipped
  <2>. QED  BY <1>4, <2>1, <2>2 DEF InOrder, NoneSkipped, keyboard
<1>. QED  BY <1>5, <1>6, <1>7, <1>8, <1>9, <1>10, <1>11, <1>12, <1>13, <1>14,
             <1>15, <1>16, <1>17 DEF Next, Program, Controller

LEMMA HeardStep ==
    ASSUME Types, Heard, Taken, ListOfStep, [Next]_vars
    PROVE  Heard'
<1>1. (~plugged => seen = {} /\ ~addressed)'
  BY AloneStep DEF Heard
<1>2. (~late => InOrder)'
  BY InOrderStep
<1>. QED  BY <1>1, <1>2 DEF Heard

-----------------------------------------------------------------------------
(***************************************************************************)
(* The list in memory is whole.                                            *)
(***************************************************************************)
ListInPlace ==
    /\ content # 0 /\ pc # "writing" => InPlace(mem, Requests[content])
    /\ pending = "list" \/ sie \in {"setup", "rest", "failed"} => content # 0

LEMMA ListInPlaceStep ==
    ASSUME Types, ListOfStep, ListInPlace, [Next]_vars
    PROVE  ListInPlace'
<1>1. content \in 0 .. 10 /\ step \in 1 .. 10 /\ IsMemory(mem)
  BY DEF Types, ProgramTypes, ControllerTypes, SetAddress, Poll
<1>2. \A k \in 1 .. 10 : Linked(Requests[k]) /\ Behind(Requests[k])
  BY RequestsAreLists
<1>10. CASE BeginList
  BY <1>10 DEF BeginList, ListInPlace
<1>3. CASE EndList \/ RepeatList
  <2>1. /\ mem' = Written(mem, Requests[step]) /\ content' = step
    BY <1>3 DEF EndList, RepeatList
  <2>2. InPlace(mem', Requests[content'])
    BY <1>1, <1>2, <2>1, WrittenInPlace
  <2>. QED  BY <1>1, <2>1, <2>2 DEF ListInPlace
<1>4. CASE RestDone
  <2>1. /\ sie = "rest" /\ sie' = "idle" /\ mem' = Received(mem)
        /\ UNCHANGED <<pc, pending, content>>
    BY <1>4 DEF RestDone, PostsDone, program
  <2>2. content \in 1 .. 10 /\ (pc # "writing" => InPlace(mem, Requests[content]))
    BY <1>1, <2>1 DEF ListInPlace
  <2>3. pc # "writing" => InPlace(mem', Requests[content])
    BY <1>2, <2>1, <2>2, ReceivedSpares
  <2>. QED  BY <2>1, <2>2, <2>3 DEF ListInPlace
<1>5. CASE WriteEndpoint
  <2>1. /\ mem' = [mem EXCEPT ![\h574] = Other] /\ content = ConfigDesc2
        /\ pc # "writing" /\ UNCHANGED <<sie, pending, content>>
    BY <1>5 DEF WriteEndpoint, ListOfStep
  <2>2. Len(Requests[ConfigDesc2].tds) = 7
    BY DEF Requests, ConfigDesc2, UsbGetConfigDesc2
  <2>3. \A i \in 1 .. 7 : SlotOf(i) \in Slots /\ SlotOf(i) # \h574
    <3>1. SlotOf(10) = \h574
      BY DEF SlotOf
    <3>. QED  BY <3>1, SlotsApart
  <2>4. \A i \in 1 .. 7 : mem'[SlotOf(i)] = mem[SlotOf(i)]
    BY <1>1, <2>1, <2>3 DEF IsMemory
  <2>5. content # 0
    BY <2>1 DEF ConfigDesc2
  <2>. QED  BY <2>1, <2>2, <2>4, <2>5 DEF ListInPlace, InPlace
<1>6. CASE UsbSoftReset
  <2>1. UNCHANGED <<mem, content>> /\ sie' = "idle" /\ pending' = "none" /\ pc # "writing"
    BY <1>6 DEF UsbSoftReset
  <2>. QED  BY <2>1 DEF ListInPlace
<1>7. CASE StartList
  <2>1. UNCHANGED <<mem, content, sie>> /\ content = step /\ pc # "writing"
    BY <1>7 DEF StartList, ListOfStep
  <2>. QED  BY <1>1, <2>1 DEF ListInPlace
<1>8. CASE PointAtEndpoint \/ TakeList \/ StartOver \/ FirstAccepted \/ FirstDisturbed
           \/ FirstUnanswered \/ ListFailed \/ JunkEnds
  <2>1. /\ UNCHANGED <<mem, content>> /\ (pc = "writing" => pc' = "writing")
        /\ pending' = "list" => pending = "list"
        /\ sie' \in {"setup", "rest", "failed"} =>
               sie \in {"setup", "rest", "failed"} \/ pending = "list"
    BY <1>8 DEF PointAtEndpoint, TakeList, StartOver, FirstAccepted, FirstDisturbed,
           FirstUnanswered, ListFailed, JunkEnds, PostsDone, program, Types,
           ControllerTypes
  <2>. QED  BY <2>1 DEF ListInPlace
<1>9. CASE InitAcknowledged \/ InitRefused \/ Detect \/ Appears \/ Sleep \/ PollFlag
           \/ ReadMessage \/ ClearMessage \/ CheckControl
           \/ RetryMessage \/ DropMessage \/ SpinForFlag \/ RecheckControl
           \/ ReadReport \/ ShowKey \/ LookForDevice \/ Unplug \/ Plug \/ UNCHANGED vars
  <2>1. UNCHANGED <<mem, content, sie, pending>> /\ (pc = "writing" => pc' = "writing")
    BY <1>9 DEF InitAcknowledged, InitRefused, Detect, Appears, Sleep, PollFlag,
           ReadMessage, ClearMessage, CheckControl, RetryMessage, DropMessage,
           SpinForFlag, RecheckControl, ReadReport, ShowKey, LookForDevice, Unplug, Plug,
           program, controller, vars
  <2>. QED  BY <2>1 DEF ListInPlace
<1>. QED  BY <1>3, <1>4, <1>5, <1>6, <1>7, <1>8, <1>9, <1>10
          DEF Next, Program, Controller

LEMMA SoundLists ==
    ASSUME Types, Taken, ListInPlace
    PROVE  ListsAreSound
<1>. SUFFICES ASSUME ~late, Executing
              PROVE  content \in FittingRequests /\ Holds(mem, Requests[content])
  BY DEF ListsAreSound, Taken
<1>1. content \in 1 .. 10 /\ InPlace(mem, Requests[content])
  BY DEF Types, ControllerTypes, Poll, ListInPlace, Taken, Executing
<1>2. /\ Linked(Requests[content]) /\ Behind(Requests[content])
      /\ Packed(Requests[content], DataAt[content])
  BY <1>1, RequestsAreLists
<1>3. DataAt[content] \in Nat
  BY <1>1 DEF DataAt
<1>4. Fits(Requests[content])
  BY <1>1, <1>2, <1>3, ListsFit, RequestsAnnounce
<1>5. content \in DOMAIN Requests
  BY <1>1 DEF Requests
<1>. QED  BY <1>1, <1>2, <1>4, <1>5, ListsAreWalked DEF FittingRequests

-----------------------------------------------------------------------------
(***************************************************************************)
(* What lies where the report belongs.  After the enumeration these are    *)
(* words of its last list: the link of the second descriptor and the       *)
(* buffer and the length of the third.                                     *)
(***************************************************************************)
LeftBytes == <<32, 5, 136, 5, 8, 0>>
Leftover  == [i \in Places |-> LeftBytes[i]]

ReportShape ==
    /\ content \in {Last, Poll} => received \in Reports \union {Leftover}
    /\ new \in Reports \union {Leftover, Empty}

LEMMA LeftoverIsRead ==
    ASSUME NEW m, InPlace(m, Requests[Last])
    PROVE  WordsAtReport(m) = Leftover
<1>. DEFINE word == <<m[\h514][5], m[\h520][1], m[\h520][2]>>
<1>1. /\ Requests[Last] = UsbGetReportDesc /\ Len(UsbGetReportDesc.tds) = 10
      /\ UsbGetReportDesc.tds[2][5] = \h520
      /\ UsbGetReportDesc.tds[3][1] = \h588 /\ UsbGetReportDesc.tds[3][2] = 8
  BY DEF Requests, Last, UsbGetReportDesc, ReportIn2
<1>2. SlotOf(2) = \h514 /\ SlotOf(3) = \h520
  BY DEF SlotOf
<1>3. m[SlotOf(2)] = UsbGetReportDesc.tds[2] /\ m[SlotOf(3)] = UsbGetReportDesc.tds[3]
  BY <1>1 DEF InPlace
<1>4. word[1] = \h520 /\ word[2] = \h588 /\ word[3] = 8
  BY <1>1, <1>2, <1>3
<1>. HIDE DEF word
<1>5. ASSUME NEW i \in Places
      PROVE  (IF i % 2 = 1 THEN word[(i + 1) \div 2] % 256
                           ELSE word[i \div 2] \div 256) = LeftBytes[i]
  <2>1. i \in 1 .. 6
    BY KeySlotsAssumption, UsbHostAssumption DEF Places
  <2>2. i = 1 \/ i = 2 \/ i = 3 \/ i = 4 \/ i = 5 \/ i = 6
    BY <2>1
  <2>3. /\ LeftBytes[1] = 32 /\ LeftBytes[2] = 5 /\ LeftBytes[3] = 136
        /\ LeftBytes[4] = 5 /\ LeftBytes[5] = 8 /\ LeftBytes[6] = 0
    BY DEF LeftBytes
  <2>4. CASE i = 1
    BY ONLY <2>4, <2>3, <1>4
  <2>5. CASE i = 2
    BY ONLY <2>5, <2>3, <1>4
  <2>6. CASE i = 3
    BY ONLY <2>6, <2>3, <1>4
  <2>7. CASE i = 4
    BY ONLY <2>7, <2>3, <1>4
  <2>8. CASE i = 5
    BY ONLY <2>8, <2>3, <1>4
  <2>9. CASE i = 6
    BY ONLY <2>9, <2>3, <1>4
  <2>. QED  BY <2>2, <2>4, <2>5, <2>6, <2>7, <2>8, <2>9
<1>. QED  BY <1>5 DEF WordsAtReport, Leftover, word

LEMMA ReportShapeStep ==
    ASSUME Types, ListOfStep, ReportShape, [Next]_vars
    PROVE  ReportShape'
<1>1. step \in 1 .. 10
  BY DEF Types, ProgramTypes, SetAddress, Poll
<1>2. CASE EndList \/ RepeatList
  <2>1. /\ mem' = Written(mem, Requests[step]) /\ content' = step /\ new' = new
        /\ received' = IF step = Poll THEN received ELSE WordsAtReport(mem')
        /\ pc \in {"write", "writing", "rewrite"}
    BY <1>2 DEF EndList, RepeatList, keys
  <2>2. CASE step = Poll
    <3>1. content \in {Last, Poll}
      BY <2>1, <2>2 DEF ListOfStep, SetAddress, Last, Poll
    <3>. QED  BY <2>1, <2>2, <3>1 DEF ReportShape, Last, Poll
  <2>3. CASE step = Last
    <3>1. InPlace(mem', Requests[Last])
      BY <1>1, <2>1, <2>3, RequestsAreLists, WrittenInPlace
    <3>2. received' = Leftover
      BY <2>1, <2>3, <3>1, LeftoverIsRead DEF Last, Poll
    <3>. QED  BY <2>1, <2>3, <3>2 DEF ReportShape, Last, Poll
  <2>4. CASE step # Poll /\ step # Last
    BY <2>1, <2>4 DEF ReportShape
  <2>. QED  BY <2>2, <2>3, <2>4
<1>3. CASE RestDone
  <2>1. /\ content' = content /\ new' = new
        /\ IF taken = Poll /\ Answers
           THEN received' \in Reports \union {received} ELSE received' = received
    BY <1>3 DEF RestDone, keys
  <2>. QED  BY <2>1 DEF ReportShape, Last, Poll
<1>4. CASE ReadReport
  <2>1. content = Poll /\ new' = received /\ UNCHANGED <<content, received>>
    BY <1>4 DEF ReadReport, ListOfStep, controller
  <2>. QED  BY <2>1 DEF ReportShape
<1>5. CASE ~EndList /\ ~RepeatList /\ ~RestDone /\ ~ReadReport
  <2>1. UNCHANGED <<content, received, new>>
    BY <1>5 DEF Next, Program, Controller, UsbSoftReset, InitAcknowledged, InitRefused,
         Detect, Appears, BeginList, StartList, Sleep, PollFlag, ReadMessage,
         ClearMessage, CheckControl, RetryMessage, DropMessage, SpinForFlag,
         RecheckControl, WriteEndpoint, PointAtEndpoint, ShowKey, LookForDevice,
         TakeList, StartOver, FirstAccepted, FirstDisturbed, FirstUnanswered,
         ListFailed, JunkEnds, Unplug, Plug, controller, keys, vars
  <2>. QED  BY <2>1 DEF ReportShape
<1>. QED  BY <1>2, <1>3, <1>4, <1>5

(* The codes of movement.sv are none of the bytes of the leftover words.   *)
KeysAreNotLeft ==
    \A p \in Players : /\ Directions[p] \cap {5, 8, 32, 136} = {}
                       /\ BombKey[p] \notin {5, 8, 32, 136}

LEMMA NoKeyIsLeft ==
    ASSUME KeysAreNotLeft, ReportShape
    PROVE  NoPhantomKeys
<1>. SUFFICES ASSUME new \notin Reports, ~strays, NEW p \in Players
              PROVE  Moves(new, p) = 0 /\ ~PlacesBomb(new, p)
  BY DEF NoPhantomKeys
<1>1. \A i \in Places : new[i] \in {0, 5, 8, 32, 136}
  <2>1. CASE new = Empty
    BY <2>1 DEF Empty
  <2>2. CASE new = Leftover
    <3>1. ASSUME NEW i \in Places
          PROVE  LeftBytes[i] \in {0, 5, 8, 32, 136}
      <4>1. i \in 1 .. 6
        BY KeySlotsAssumption, UsbHostAssumption DEF Places
      <4>. QED  BY <4>1 DEF LeftBytes
    <3>. QED  BY <2>2, <3>1 DEF Leftover
  <2>. QED  BY <2>1, <2>2 DEF ReportShape
<1>2. Directions[p] \subseteq Codes \ {0} /\ BombKey[p] # 0
  BY KeySlotsAssumption
<1>3. \A i \in Places : new[i] \notin Directions[p] /\ new[i] # BombKey[p]
  BY <1>1, <1>2 DEF KeysAreNotLeft
<1>. QED  BY <1>3 DEF Moves, Decides, PlacesBomb

-----------------------------------------------------------------------------
(***************************************************************************)
(* The theorems.                                                           *)
(***************************************************************************)
LEMMA InitOK == Init => IInv
<1>. SUFFICES ASSUME Init  PROVE IInv
  OBVIOUS
<1>1. 0 \in Codes /\ NSlots \in Nat \ {0} /\ MaxFaults \in Nat /\ MaxPlugs \in Nat
  BY KeySlotsAssumption, UsbHostAssumption
<1>2. Empty \in Rows
  BY <1>1 DEF Empty, Rows
<1>3. TypeOK
  <2>1. /\ pc \in Locations /\ step \in SetAddress .. Poll
        /\ got \in {"none", "done"} /\ msg \in {"none", "done"}
        /\ content \in 0 .. Poll /\ taken \in 0 .. Poll
    BY DEF Init, Locations, SetAddress, Poll
  <2>2. /\ row \in Rows /\ old \in Rows /\ new \in Rows /\ received \in Rows
        /\ seen \subseteq SetAddress .. Last
    BY <1>2 DEF Init
  <2>3. next \in 1 .. NSlots + 1 /\ faults \in 0 .. MaxFaults /\ plugs \in 0 .. MaxPlugs
    BY <1>1 DEF Init
  <2>4. /\ sie \in {"idle", "setup", "rest", "failed", "junk"}
        /\ pending \in {"none", "list", "junk"} /\ flag \in BOOLEAN
        /\ ctl \in {"active", "ok", "retried"}
        /\ plugged \in BOOLEAN /\ addressed \in BOOLEAN /\ upset \in BOOLEAN
        /\ late \in BOOLEAN /\ strays \in BOOLEAN
    BY DEF Init
  <2>. QED  BY <2>1, <2>2, <2>3, <2>4 DEF TypeOK
<1>4. IsMemory(mem)
  BY DEF Init, IsMemory, IsFive, Other, Words
<1>5. ListOfStep /\ Quiet /\ Taken /\ Heard /\ KeysShown
  BY DEF Init, ListOfStep, Quiet, Taken, Heard, InOrder, NoneSkipped, KeysShown
<1>. QED  BY <1>3, <1>4, <1>5 DEF IInv

LEMMA Invariant == Spec => []IInv
<1>1. IInv /\ [Next]_vars => IInv'
  <2>. SUFFICES ASSUME IInv, [Next]_vars  PROVE IInv'
    OBVIOUS
  <2>1. Types /\ ListOfStep /\ Quiet /\ Taken /\ Heard /\ KeysShown
    BY TypesAre DEF IInv
  <2>2. Types'
    BY <2>1, ProgramTypesStep, KeyTypesStep, ControllerTypesStep, KeyboardTypesStep
       DEF Types
  <2>3. (TypeOK /\ IsMemory(mem))'
    BY <2>2 DEF Types, ProgramTypes, KeyTypes, ControllerTypes, KeyboardTypes, TypeOK
  <2>. QED  BY <2>1, <2>3, ListOfStepStep, QuietStep, TakenStep, HeardStep, KeysStep
            DEF IInv
<1>. QED  BY InitOK, <1>1, PTL DEF Spec

LEMMA ListsInvariant == Spec => []ListInPlace
<1>1. Init => ListInPlace
  BY DEF Init, ListInPlace
<1>2. IInv /\ ListInPlace /\ [Next]_vars => ListInPlace'
  BY TypesAre, ListInPlaceStep DEF IInv
<1>. QED  BY Invariant, <1>1, <1>2, PTL DEF Spec

LEMMA ShapeInvariant == Spec => []ReportShape
<1>1. Init => ReportShape
  BY DEF Init, ReportShape, Last, Poll
<1>2. IInv /\ ReportShape /\ [Next]_vars => ReportShape'
  BY TypesAre, ReportShapeStep DEF IInv
<1>. QED  BY Invariant, <1>1, <1>2, PTL DEF Spec

(* The state is well formed: what is received never reaches the words that *)
(* hold codes as anything but bytes (main.c, usb.c).                       *)
THEOREM UsbTypeCorrect == Spec => []TypeOK
<1>1. IInv => TypeOK
  BY DEF IInv
<1>. QED  BY Invariant, <1>1, PTL

(* As long as no list is overtaken a keyboard hears the requests of the    *)
(* enumeration in their order without a gap, and is polled only when it    *)
(* has heard them all, however often lists are sent twice, fail, or meet a *)
(* replug (main.c:173-469).                                                *)
THEOREM UsbRequestsInOrder == Spec => []RequestsInOrder
<1>1. IInv => RequestsInOrder
  <2>. SUFFICES ASSUME IInv  PROVE RequestsInOrder
    OBVIOUS
  <2>1. seen \subseteq 1 .. Last /\ Heard
    BY DEF IInv, TypeOK, SetAddress
  <2>2. ~late /\ content = Poll /\ addressed => 1 .. Last \subseteq seen
    BY <2>1 DEF Heard, InOrder, Poll, Last, SetAddress
  <2>. QED  BY <2>1, <2>2 DEF RequestsInOrder, Heard, InOrder
<1>. QED  BY Invariant, <1>1, PTL

(* A held direction key keeps its player moving while the registers are    *)
(* written one by one (main.c:530-535, movement.sv).                       *)
THEOREM UsbHeldMoveStays == Spec => []HeldMoveStays
BY Invariant, HeldMoves, PTL

(* As long as no list is overtaken, what the controller executes is the    *)
(* list in memory, the memory holds it whole, and what it receives lands   *)
(* behind it: neither received bytes, nor the rest of longer lists, nor    *)
(* the words written over the endpoint descriptor lead it astray           *)
(* (usb.c:116-534, main.c:344-353).                                        *)
THEOREM UsbListsAreSound == Spec => []ListsAreSound
<1>1. IInv /\ ListInPlace => ListsAreSound
  BY TypesAre, SoundLists DEF IInv
<1>. QED  BY Invariant, ListsInvariant, <1>1, PTL

(* The bytes that the enumeration leaves where the first report belongs    *)
(* are shown as keys, and are no keys of the game, for its codes are none  *)
(* of these bytes; what is read after a list was overtaken is left open    *)
(* (main.c:520-535, usb.c:443-534, movement.sv:7-86).                      *)
THEOREM UsbNoPhantomKeys ==
    ASSUME KeysAreNotLeft
    PROVE  Spec => []NoPhantomKeys
<1>1. ReportShape => NoPhantomKeys
  BY NoKeyIsLeft
<1>. QED  BY ShapeInvariant, <1>1, PTL
=============================================================================
