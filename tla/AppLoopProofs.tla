---------------------------- MODULE AppLoopProofs ----------------------------
(***************************************************************************)
(* Proofs about AppLoop, for every length of the histories and everything  *)
(* the sensor may measure: types, no lost wake-up, no partial reading, and *)
(* histories and temperature topic that follow the readings.               *)
(***************************************************************************)
EXTENDS AppLoop, TLAPS, SequenceTheorems

Small == -128 .. 127

-----------------------------------------------------------------------------
(* Arithmetic                                                              *)

LEMMA Powers == \A k \in 0 .. 8 : 2^k \in Nat \ {0}
<1> SUFFICES ASSUME NEW k \in 0 .. 8 PROVE 2^k \in Nat \ {0}
  OBVIOUS
<1>1. 2^0 = 1 /\ 2^1 = 2 /\ 2^2 = 4 /\ 2^3 = 8 /\ 2^4 = 16
  OBVIOUS
<1>2. 2^5 = 32 /\ 2^6 = 64 /\ 2^7 = 128 /\ 2^8 = 256
  OBVIOUS
<1>3. CASE k = 0
  BY <1>1, <1>3
<1>4. CASE k = 1
  BY <1>1, <1>4
<1>5. CASE k = 2
  BY <1>1, <1>5
<1>6. CASE k = 3
  BY <1>1, <1>6
<1>7. CASE k = 4
  BY <1>1, <1>7
<1>8. CASE k = 5
  BY <1>2, <1>8
<1>9. CASE k = 6
  BY <1>2, <1>9
<1>10. CASE k = 7
  BY <1>2, <1>10
<1>11. CASE k = 8
  BY <1>2, <1>11
<1>12. k = 0 \/ k = 1 \/ k = 2 \/ k = 3 \/ k = 4 \/ k = 5 \/ k = 6 \/ k = 7 \/ k = 8
  OBVIOUS
<1> QED
  BY <1>3, <1>4, <1>5, <1>6, <1>7, <1>8, <1>9, <1>10, <1>11, <1>12

\* What is left of a byte without the bits below weight p.
LEMMA Truncated ==
  ASSUME NEW f \in Nat, NEW p \in Nat \ {0}
  PROVE  f - (f % p) \in 0 .. f
OBVIOUS

\* Bytes that add up to nothing are zero.
LEMMA SumZero ==
  ASSUME NEW data, data[1] \in Nat, data[2] \in Nat, data[3] \in Nat,
         data[4] \in Nat, data[1] + data[2] + data[3] + data[4] = 0
  PROVE  data[1] = 0 /\ data[3] = 0
OBVIOUS

LEMMA Int8Small == ASSUME NEW n \in Int PROVE Int8(n) \in Small
BY DEF Int8, Small

LEMMA FirstTwoSmall == ASSUME NEW n \in Small PROVE FirstTwo(n) \in Small
BY DEF FirstTwo, Small

-----------------------------------------------------------------------------
(* Readings                                                                *)

LEMMA FrameTypes ==
  ASSUME NEW m \in Measurement
  PROVE  /\ \A k \in 1 .. 5 : Frame(m)[k] \in Nat
         /\ Frame(m)[1] \in 0 .. 100 /\ Frame(m)[2] = 0
         /\ Frame(m)[3] \in 0 .. 50 /\ Frame(m)[4] = 0
         /\ Frame(m)[5] = Frame(m)[1] + Frame(m)[3]
<1>1. m.humidity \in 0 .. 100 /\ m.celsius \in 0 .. 50
  BY AppLoopAssumption
<1>2. /\ Frame(m)[1] = m.humidity /\ Frame(m)[2] = 0 /\ Frame(m)[3] = m.celsius
      /\ Frame(m)[4] = 0 /\ Frame(m)[5] = m.humidity + m.celsius
  BY DEF Frame
<1>3. m.humidity + m.celsius \in Nat
  BY <1>1
<1>4. ASSUME NEW k \in 1 .. 5 PROVE Frame(m)[k] \in Nat
  <2>1. k = 1 \/ k = 2 \/ k = 3 \/ k = 4 \/ k = 5
    OBVIOUS
  <2> QED
    BY <1>1, <1>2, <1>3, <2>1
<1> QED
  BY <1>1, <1>2, <1>4

\* The number of bits of byte k among the first n.
Kept(n, k) == IF n < 8 * (k - 1) THEN 0 ELSE Least(n - 8 * (k - 1), 8)

LEMMA ReceivedByte ==
  ASSUME NEW m \in Measurement, NEW n \in 0 .. 40, NEW k \in 1 .. 5
  PROVE  /\ Received(Frame(m), n)[k] =
              Frame(m)[k] - (Frame(m)[k] % 2^(8 - Kept(n, k)))
         /\ Kept(n, k) \in 0 .. 8
         /\ Received(Frame(m), n)[k] \in 0 .. Frame(m)[k]
<1>1. Kept(n, k) \in 0 .. 8
  BY DEF Kept, Least
<1>2. Received(Frame(m), n)[k] = Frame(m)[k] - (Frame(m)[k] % 2^(8 - Kept(n, k)))
  BY DEF Received, Kept
<1>3. Frame(m)[k] \in Nat
  BY FrameTypes
<1>4. 8 - Kept(n, k) \in 0 .. 8
  BY <1>1
<1>5. 2^(8 - Kept(n, k)) \in Nat \ {0}
  BY <1>4, Powers
<1>6. Frame(m)[k] - (Frame(m)[k] % 2^(8 - Kept(n, k))) \in 0 .. Frame(m)[k]
  BY <1>3, <1>5, Truncated
<1> QED
  BY <1>1, <1>2, <1>6

\* A frame cut within its first four bytes is accepted only if it reads as
\* nothing but zeros; one cut in its fifth byte has them whole.
LEMMA ZeroOrWhole ==
  ASSUME NEW m \in Measurement, NEW data \in DHT11_read(m)
  PROVE  \/ data[1] = 0 /\ data[3] = 0
         \/ data[1] = Frame(m)[1] /\ data[3] = Frame(m)[3]
<1>1. PICK n \in 0 .. 40 : data = Received(Frame(m), n)
  BY DEF DHT11_read
<1>2. data[5] = data[1] + data[2] + data[3] + data[4]
  BY DEF DHT11_read, _checkCRC
<1>3. \A k \in 1 .. 5 : data[k] \in 0 .. Frame(m)[k]
  BY <1>1, ReceivedByte
<1>4. CASE n <= 32
  <2>1. Kept(n, 5) = 0
    BY <1>4 DEF Kept, Least
  <2>2. data[5] = Frame(m)[5] - (Frame(m)[5] % 256)
    <3>1. data[5] = Frame(m)[5] - (Frame(m)[5] % 2^(8 - Kept(n, 5)))
      BY <1>1, ReceivedByte
    <3>2. 2^(8 - Kept(n, 5)) = 256
      <4>1. 8 - Kept(n, 5) = 8
        BY <2>1
      <4>2. 2^8 = 256
        OBVIOUS
      <4> QED
        BY <4>1, <4>2
    <3> QED
      BY Zenon, <3>1, <3>2
  <2>3. Frame(m)[5] \in 0 .. 150
    <3>1. /\ Frame(m)[1] \in 0 .. 100 /\ Frame(m)[3] \in 0 .. 50
          /\ Frame(m)[5] = Frame(m)[1] + Frame(m)[3]
      BY FrameTypes
    <3> QED
      BY <3>1
  <2>4. data[5] = 0
    BY <2>2, <2>3
  <2>5. /\ data[1] \in Nat /\ data[2] \in Nat
        /\ data[3] \in Nat /\ data[4] \in Nat
    <3>1. \A k \in 1 .. 5 : Frame(m)[k] \in Nat
      BY FrameTypes
    <3>2. \A k \in 1 .. 5 : data[k] \in Nat
      BY <1>3, <3>1
    <3> QED
      BY <3>2
  <2>6. data[1] + data[2] + data[3] + data[4] = 0
    BY <1>2, <2>4
  <2>7. data[1] = 0 /\ data[3] = 0
    BY Zenon, <2>5, <2>6, SumZero
  <2> QED
    BY <2>7
<1>5. CASE n > 32
  <2>1. ASSUME NEW k \in {1, 3} PROVE data[k] = Frame(m)[k]
    <3>1. 8 - Kept(n, k) = 0
      BY <1>5 DEF Kept, Least
    <3>2. 2^0 = 1
      OBVIOUS
    <3>3. 2^(8 - Kept(n, k)) = 1
      BY Zenon, <3>1, <3>2
    <3>4. k \in 1 .. 5
      OBVIOUS
    <3>5. data[k] = Frame(m)[k] - (Frame(m)[k] % 2^(8 - Kept(n, k)))
      BY <1>1, <3>4, ReceivedByte
    <3>6. data[k] = Frame(m)[k] - (Frame(m)[k] % 1)
      BY Zenon, <3>3, <3>5
    <3> QED
      BY <3>4, <3>6, FrameTypes
  <2> QED
    BY <2>1
<1> QED
  BY <1>4, <1>5

LEMMA ResultSmall ==
  ASSUME NEW q \in Quantity, NEW m \in Measurement, NEW data \in DHT11_read(m)
  PROVE  Result(q, data) \in Small
<1>1. data[1] \in Nat /\ data[3] \in Nat
  BY ZeroOrWhole, FrameTypes
<1>2. (9 * data[3]) \div 5 + 32 \in Int
  BY <1>1
<1> QED
  BY <1>1, <1>2, Int8Small DEF Result

LEMMA ResultGenuine ==
  ASSUME NEW q \in Quantity, NEW m \in Measurement, NEW data \in DHT11_read(m)
  PROVE  Result(q, data) \in {Result(q, d) :
            d \in {Frame(n) : n \in Measurement} \cup {Zeros(5)}}
<1>1. CASE data[1] = 0 /\ data[3] = 0
  <2>1. Zeros(5)[1] = 0 /\ Zeros(5)[3] = 0
    BY DEF Zeros
  <2>2. Result(q, data) = Result(q, Zeros(5))
    BY <1>1, <2>1 DEF Result
  <2> QED
    BY <2>2
<1>2. CASE data[1] = Frame(m)[1] /\ data[3] = Frame(m)[3]
  <2>1. Result(q, data) = Result(q, Frame(m))
    BY <1>2 DEF Result
  <2> QED
    BY <2>1
<1> QED
  BY <1>1, <1>2, ZeroOrWhole

\* A reading that is accepted is that of a whole frame, or zero, however
\* many bits of the frame were lost at its end.
THEOREM ReadingsGenuine == Spec => OnlyGenuineReadings
<1>1. [Next]_vars =>
        \A q \in Quantity :
          reading'[q] # reading[q] /\ pc' = "app_loop" =>
            reading'[q] \in {Result(q, data) :
                              data \in {Frame(m) : m \in Measurement} \cup {Zeros(5)}}
  <2> SUFFICES ASSUME [Next]_vars, NEW q \in Quantity,
                      reading'[q] # reading[q], pc' = "app_loop"
               PROVE  reading'[q] \in {Result(q, data) :
                        data \in {Frame(m) : m \in Measurement} \cup {Zeros(5)}}
    OBVIOUS
  <2>1. ~Restart
    BY DEF Restart, WifiRestart
  <2>2. reading' # reading
    OBVIOUS
  <2>3. PICK r \in Quantity : Request(r)
    BY <2>1, <2>2 DEF Next, LoopStep, Control, Copy, Shift, Publish,
                      AnswerRequest, loopVars, vars
  <2>4. PICK m \in Measurement : \E data \in DHT11_read(m) :
          reading' = [reading EXCEPT ![r] = Result(r, data)]
    BY <2>3 DEF Request
  <2>5. PICK data \in DHT11_read(m) :
          reading' = [reading EXCEPT ![r] = Result(r, data)]
    BY <2>4
  <2>6. r = q /\ reading'[q] = Result(q, data)
    BY <2>5
  <2> QED
    BY <2>6, ResultGenuine
<1> QED
  BY <1>1, PTL DEF Spec, OnlyGenuineReadings

-----------------------------------------------------------------------------
(* Types                                                                   *)

\* A reading in front of a history that loses its last place.
LEMMA PutInFront ==
  ASSUME NEW h \in [1 .. HISTORY_DEPTH -> Small], NEW x \in Small
  PROVE  /\ <<x>> \o Front(h) \in [1 .. HISTORY_DEPTH -> Small]
         /\ (<<x>> \o Front(h))[1] = x
         /\ \A i \in 2 .. HISTORY_DEPTH : (<<x>> \o Front(h))[i] = h[i - 1]
<1>1. HISTORY_DEPTH \in Nat /\ HISTORY_DEPTH > 1
  BY AppLoopAssumption
<1>2. h \in Seq(Small) /\ Len(h) = HISTORY_DEPTH
  BY <1>1
<1>3. Front(h) \in Seq(Small) /\ Len(Front(h)) = HISTORY_DEPTH - 1
  BY <1>1, <1>2 DEF Front
<1>4. \A i \in 1 .. HISTORY_DEPTH - 1 : Front(h)[i] = h[i]
  BY <1>1, <1>2 DEF Front
<1>5. /\ <<x>> \o Front(h) \in Seq(Small)
      /\ Len(<<x>> \o Front(h)) = HISTORY_DEPTH
  BY <1>1, <1>3
<1>6. (<<x>> \o Front(h))[1] = x
  BY <1>3
<1>7. \A i \in 2 .. HISTORY_DEPTH : (<<x>> \o Front(h))[i] = h[i - 1]
  BY <1>1, <1>3, <1>4
<1> QED
  BY <1>5, <1>6, <1>7, LenProperties

LEMMA TypeInit == Init => TypeOK
<1> SUFFICES ASSUME Init PROVE TypeOK
  OBVIOUS
<1>1. Zeros(HISTORY_DEPTH) \in [1 .. HISTORY_DEPTH -> -128 .. 127]
  BY DEF Zeros
<1>2. WifiTypeOK
  BY DEF Init, WifiInit, WifiTypeOK, NULL
<1>3. stage \in Stage /\ moved \in SUBSET Place
  BY Zenon DEF Init, Stage, Quantity
<1> QED
  BY <1>1, <1>2, <1>3 DEF Init, TypeOK

\* Boot steps and WiFi events keep the types of their variables.
LEMMA WifiTypeStep == WifiTypeOK /\ (Start \/ Events) => WifiTypeOK'
<1> SUFFICES ASSUME WifiTypeOK, Start \/ Events PROVE WifiTypeOK'
  OBVIOUS
<1>1. CASE Start
  BY <1>1 DEF Start, InitBoard, wifi_start, CreateSemaphore, TakeSemaphore,
              mqtt_start, Goto, WifiTypeOK, NULL
<1>2. CASE Events
  BY <1>2 DEF Events, on_got_ip, on_wifi_disconnect, mqtt_connected,
              mqtt_disconnected, WifiTypeOK, NULL
<1> QED
  BY <1>1, <1>2

LEMMA SendTypes ==
  ASSUME TypeOK, NEW q \in Quantity, NEW n \in Small, Send(q, n)
  PROVE  topic' \in [Quantity -> Small] /\ stale' \in BOOLEAN
<1>1. Delivered \in BOOLEAN
  BY DEF Delivered, TypeOK, WifiTypeOK
<1> QED
  BY <1>1 DEF Send, TypeOK, Small

LEMMA TypeStep == TypeOK /\ [Next]_vars => TypeOK'
<1> SUFFICES ASSUME TypeOK, [Next]_vars PROVE TypeOK'
  OBVIOUS
<1> USE DEF Small
<1>1. CASE (Start \/ Events) /\ UNCHANGED loopVars
  BY <1>1, WifiTypeStep DEF TypeOK, loopVars
<1>2. CASE Control
  BY <1>2 DEF Control, TypeOK, wifiVars, WifiTypeOK, Stage, Quantity
<1>3. ASSUME NEW q \in Quantity, Copy(q) PROVE TypeOK'
  BY <1>3, Zenon DEF Copy, TypeOK, wifiVars, WifiTypeOK, Stage
<1>4. ASSUME NEW q \in Quantity, Request(q) PROVE TypeOK'
  <2>1. PICK m \in Measurement : \E data \in DHT11_read(m) :
          /\ reading' = [reading EXCEPT ![q] = Result(q, data)]
          /\ history' = [history EXCEPT ![q][1] = Result(q, data)]
          /\ past' = [past EXCEPT ![q] = <<Result(q, data)>> \o Front(@)]
    BY <1>4 DEF Request
  <2>2. PICK data \in DHT11_read(m) :
          /\ reading' = [reading EXCEPT ![q] = Result(q, data)]
          /\ history' = [history EXCEPT ![q][1] = Result(q, data)]
          /\ past' = [past EXCEPT ![q] = <<Result(q, data)>> \o Front(@)]
    BY <2>1
  <2>3. Result(q, data) \in Small
    BY ResultSmall
  <2>4. reading' \in [Quantity -> Small]
    BY <2>2, <2>3 DEF TypeOK
  <2>5. history' \in [Quantity -> [1 .. HISTORY_DEPTH -> Small]]
    BY <2>2, <2>3 DEF TypeOK
  <2>6. <<Result(q, data)>> \o Front(past[q]) \in [1 .. HISTORY_DEPTH -> Small]
    BY <2>3, PutInFront, Zenon DEF TypeOK
  <2>7. past' \in [Quantity -> [1 .. HISTORY_DEPTH -> Small]]
    BY <2>2, <2>6 DEF TypeOK
  <2> QED
    BY <1>4, <2>4, <2>5, <2>7 DEF Request, TypeOK, wifiVars, WifiTypeOK, Stage
<1>5. ASSUME NEW q \in Quantity, Shift(q) PROVE TypeOK'
  <2>1. PICK chunk \in SUBSET (Place \ moved) :
          /\ history' = [history EXCEPT ![q] =
               [k \in 1 .. HISTORY_DEPTH |->
                  IF k \in chunk THEN dummy[k - 1] ELSE history[q][k]]]
          /\ Copied(q, chunk)
    BY <1>5 DEF Shift
  <2>2. \A k \in chunk : k - 1 \in 1 .. HISTORY_DEPTH
    BY AppLoopAssumption DEF Place
  <2>3. [k \in 1 .. HISTORY_DEPTH |-> IF k \in chunk THEN dummy[k - 1] ELSE history[q][k]]
          \in [1 .. HISTORY_DEPTH -> Small]
    <3>1. dummy \in [1 .. HISTORY_DEPTH -> Small] /\ history[q] \in [1 .. HISTORY_DEPTH -> Small]
      BY DEF TypeOK
    <3>2. ASSUME NEW k \in 1 .. HISTORY_DEPTH
          PROVE  (IF k \in chunk THEN dummy[k - 1] ELSE history[q][k]) \in Small
      <4>1. k \in chunk => dummy[k - 1] \in Small
        BY <2>2, <3>1
      <4> QED
        BY <3>1, <4>1
    <3> QED
      BY <3>2
  <2>4. history' \in [Quantity -> [1 .. HISTORY_DEPTH -> Small]]
    BY <2>1, <2>3 DEF TypeOK
  <2>5. stage' \in Stage /\ moved' \in SUBSET Place
    <3>1. stage \in Stage /\ moved \in SUBSET Place /\ chunk \in SUBSET Place
      BY DEF TypeOK
    <3>2. <<q, "publish">> \in Stage
      BY DEF Stage
    <3> QED
      BY <2>1, <3>1, <3>2 DEF Copied
  <2>6. UNCHANGED <<pc, semaphore, wifi, session, reading, dummy, topic, stale, past>>
    BY <1>5 DEF Shift, wifiVars
  <2> QED
    BY <2>4, <2>5, <2>6, Zenon DEF TypeOK, WifiTypeOK
<1>6. ASSUME NEW q \in Quantity, Publish(q) PROVE TypeOK'
  <2>1. FirstTwo(reading["temp"]) \in Small
    BY FirstTwoSmall, Zenon DEF TypeOK, Quantity
  <2>2. topic' \in [Quantity -> Small] /\ stale' \in BOOLEAN
    BY <1>6, <2>1, SendTypes, Zenon DEF Publish, TypeOK
  <2>3. stage' \in Stage
    BY <1>6 DEF Publish, NextStage, Stage, Quantity
  <2> QED
    BY <1>6, <2>2, <2>3 DEF Publish, TypeOK, wifiVars, WifiTypeOK
<1>7. ASSUME NEW q \in Quantity, AnswerRequest(q) PROVE TypeOK'
  <2>1. FirstTwo(reading[q]) \in Small
    BY FirstTwoSmall, Zenon DEF TypeOK
  <2>2. topic' \in [Quantity -> Small] /\ stale' \in BOOLEAN
    BY <1>7, <2>1, SendTypes, Zenon DEF AnswerRequest
  <2> QED
    BY <1>7, <2>2 DEF AnswerRequest, TypeOK, wifiVars, WifiTypeOK
<1>8. CASE Restart
  <2>1. Zeros(HISTORY_DEPTH) \in [1 .. HISTORY_DEPTH -> -128 .. 127]
    BY DEF Zeros
  <2>2. WifiTypeOK'
    BY <1>8 DEF Restart, WifiRestart, WifiTypeOK, NULL
  <2>3. stage' \in Stage
    BY <1>8 DEF Restart, Stage, Quantity
  <2>4. /\ history' \in [Quantity -> [1 .. HISTORY_DEPTH -> Small]]
        /\ past' \in [Quantity -> [1 .. HISTORY_DEPTH -> Small]]
    BY <1>8, <2>1 DEF Restart
  <2>5. reading' \in [Quantity -> Small]
    BY <1>8 DEF Restart
  <2> QED
    BY <1>8, <2>1, <2>2, <2>3, <2>4, <2>5 DEF Restart, TypeOK
<1>9. CASE UNCHANGED vars
  BY <1>9 DEF vars, wifiVars, loopVars, TypeOK, WifiTypeOK
<1> QED
  BY <1>1, <1>2, <1>3, <1>4, <1>5, <1>6, <1>7, <1>8, <1>9 DEF Next, LoopStep

\* Types, among them that every reading, published number and place of a
\* history fits into an int8_t, for every length of the histories.
THEOREM AppLoopTypes == Spec => []TypeOK
BY TypeInit, TypeStep, PTL DEF Spec

-----------------------------------------------------------------------------
(* The wake-up of app_main                                                 *)

\* The semaphore is there from its creation on, the link comes up only when
\* it is, and while app_main waits an address has been counted.
Created ==
  /\ (semaphore = NULL) <=> pc \in {"Init", "wifi_start", "semaphore"}
  /\ wifi = "up" => semaphore # NULL
  /\ pc = "wait" /\ wifi = "up" => semaphore = 1

LEMMA CreatedStep == TypeOK /\ Created /\ [Next]_vars => Created'
<1> SUFFICES ASSUME TypeOK, Created, [Next]_vars PROVE Created'
  OBVIOUS
<1>1. CASE Start
  BY <1>1 DEF Start, InitBoard, wifi_start, CreateSemaphore, TakeSemaphore,
              mqtt_start, Goto, Created, NULL, TypeOK, WifiTypeOK
<1>2. CASE Events
  BY <1>2 DEF Events, on_got_ip, on_wifi_disconnect, mqtt_connected,
              mqtt_disconnected, Created, NULL
<1>3. CASE UNCHANGED wifiVars
  BY <1>3 DEF wifiVars, Created
<1>4. CASE Restart
  BY <1>4 DEF Restart, WifiRestart, Created
<1> QED
  BY <1>1, <1>2, <1>3, <1>4
     DEF Next, LoopStep, Control, Copy, Request, Shift, Publish, AnswerRequest, vars

\* While app_main waits for an address with the link up, the semaphore has
\* been given: nothing is lost between the WiFi event task and app_main.
THEOREM AddressNotLost == Spec => []NoLostAddress
<1>1. Init => Created
  BY DEF Init, WifiInit, Created, NULL
<1>2. Created => NoLostAddress
  BY DEF Created, NoLostAddress
<1> QED
  BY <1>1, <1>2, TypeInit, TypeStep, CreatedStep, PTL DEF Spec

-----------------------------------------------------------------------------
(* Histories and topic                                                     *)

\* Where the update of quantity q is, dummyHistory has what the history was
\* before the request, and the places memcpy has not reached still have that.
InStep(q) ==
  /\ history[q][1] = reading[q]
  /\ stage = <<q, "request">> => dummy = history[q]
  /\ IF stage = <<q, "shift">>
     THEN /\ past[q] = <<history[q][1]>> \o Front(dummy)
          /\ \A k \in Place : history[q][k] = IF k \in moved THEN dummy[k - 1] ELSE dummy[k]
     ELSE history[q] = past[q]

\* Places are marked only while memcpy runs.
MarksCleared == moved = {} \/ \E r \in Quantity : stage = <<r, "shift">>

HistoriesInStep == MarksCleared /\ \A q \in Quantity : InStep(q)

LEMMA HistoryTypes ==
  ASSUME TypeOK, NEW q \in Quantity
  PROVE  /\ dummy \in [1 .. HISTORY_DEPTH -> Small]
         /\ history[q] \in [1 .. HISTORY_DEPTH -> Small]
         /\ past[q] \in [1 .. HISTORY_DEPTH -> Small]
         /\ history[q][1] \in Small
<1>1. dummy \in [1 .. HISTORY_DEPTH -> Small]
  BY Zenon DEF TypeOK, Small
<1>2. history \in [Quantity -> [1 .. HISTORY_DEPTH -> Small]]
  BY Zenon DEF TypeOK, Small
<1>3. past \in [Quantity -> [1 .. HISTORY_DEPTH -> Small]]
  BY Zenon DEF TypeOK, Small
<1>4. history[q] \in [1 .. HISTORY_DEPTH -> Small]
  BY <1>2
<1>5. past[q] \in [1 .. HISTORY_DEPTH -> Small]
  BY <1>3
<1>6. 1 \in 1 .. HISTORY_DEPTH
  BY AppLoopAssumption
<1>7. history[q][1] \in Small
  BY <1>4, <1>6
<1> QED
  BY <1>1, <1>4, <1>5, <1>7

LEMMA MarksStep == MarksCleared /\ [Next]_vars => MarksCleared'
<1> SUFFICES ASSUME MarksCleared, [Next]_vars PROVE MarksCleared'
  OBVIOUS
<1>1. CASE UNCHANGED <<stage, moved>>
  BY <1>1 DEF MarksCleared
<1>2. CASE Control
  BY <1>2 DEF Control, MarksCleared
<1>3. ASSUME NEW r \in Quantity, Copy(r) PROVE MarksCleared'
  BY <1>3 DEF Copy, At, MarksCleared
<1>4. ASSUME NEW r \in Quantity, Request(r) PROVE MarksCleared'
  BY <1>4 DEF Request, At, MarksCleared
<1>5. ASSUME NEW r \in Quantity, Shift(r) PROVE MarksCleared'
  BY <1>5 DEF Shift, Copied, At, MarksCleared
<1>6. ASSUME NEW r \in Quantity, Publish(r) PROVE MarksCleared'
  BY <1>6 DEF Publish, At, MarksCleared
<1>7. CASE Restart
  BY <1>7 DEF Restart, MarksCleared
<1> QED
  BY <1>1, <1>2, <1>3, <1>4, <1>5, <1>6, <1>7
     DEF Next, LoopStep, AnswerRequest, vars, loopVars

\* A portion of the memcpy: the places of the portion get what was one place
\* in front of them before the request, the others keep what they have.
LEMMA PortionMoved ==
  ASSUME TypeOK, NEW q \in Quantity, Shift(q)
  PROVE  /\ history'[q] \in [1 .. HISTORY_DEPTH -> Small]
         /\ history'[q][1] = history[q][1]
         /\ \A r \in Quantity : r # q => history'[r] = history[r]
         /\ \E chunk \in SUBSET (Place \ moved) :
              /\ \A k \in Place :
                   history'[q][k] = IF k \in chunk THEN dummy[k - 1] ELSE history[q][k]
              /\ Copied(q, chunk)
<1> DEFINE new(chunk) == [k \in 1 .. HISTORY_DEPTH |->
                            IF k \in chunk THEN dummy[k - 1] ELSE history[q][k]]
<1>1. PICK chunk \in SUBSET (Place \ moved) :
        history' = [history EXCEPT ![q] = new(chunk)] /\ Copied(q, chunk)
  BY DEF Shift
<1>2. /\ history \in [Quantity -> [1 .. HISTORY_DEPTH -> Small]]
      /\ dummy \in [1 .. HISTORY_DEPTH -> Small]
  BY Zenon DEF TypeOK, Small
<1>3. history'[q] = new(chunk) /\ \A r \in Quantity : r # q => history'[r] = history[r]
  BY <1>1, <1>2
<1>4. /\ 1 \in 1 .. HISTORY_DEPTH /\ 1 \notin chunk /\ Place \subseteq 1 .. HISTORY_DEPTH
      /\ \A k \in chunk : k - 1 \in 1 .. HISTORY_DEPTH
  BY AppLoopAssumption DEF Place
<1>5. new(chunk) \in [1 .. HISTORY_DEPTH -> Small]
  BY <1>2, <1>4
<1>6. new(chunk)[1] = history[q][1]
  BY <1>4
<1>7. \A k \in Place :
        new(chunk)[k] = IF k \in chunk THEN dummy[k - 1] ELSE history[q][k]
  BY <1>4
<1> HIDE DEF new
<1> QED
  BY <1>1, <1>3, <1>5, <1>6, <1>7

LEMMA HistoriesStep == TypeOK /\ HistoriesInStep /\ [Next]_vars => HistoriesInStep'
<1> SUFFICES ASSUME TypeOK, HistoriesInStep, [Next]_vars, NEW q \in Quantity
             PROVE  InStep(q)'
  BY MarksStep DEF HistoriesInStep
<1>0. InStep(q) /\ MarksCleared
  BY DEF HistoriesInStep
<1>d. 1 \in 1 .. HISTORY_DEPTH /\ Place \subseteq 1 .. HISTORY_DEPTH /\ 1 \notin Place
  BY AppLoopAssumption DEF Place
<1>t. /\ dummy \in [1 .. HISTORY_DEPTH -> Small]
      /\ history[q] \in [1 .. HISTORY_DEPTH -> Small]
      /\ past[q] \in [1 .. HISTORY_DEPTH -> Small]
      /\ history[q][1] \in Small
  BY HistoryTypes
<1>1. CASE UNCHANGED <<stage, reading, history, dummy, moved, past>>
  BY <1>0, <1>1 DEF InStep
<1>2. CASE Control
  BY <1>0, <1>2 DEF Control, InStep
<1>3. ASSUME NEW r \in Quantity, Copy(r) PROVE InStep(q)'
  BY <1>0, <1>3 DEF Copy, At, InStep
<1>4. ASSUME NEW r \in Quantity, Request(r) PROVE InStep(q)'
  <2>1. PICK m \in Measurement : \E data \in DHT11_read(m) :
          /\ reading' = [reading EXCEPT ![r] = Result(r, data)]
          /\ history' = [history EXCEPT ![r][1] = Result(r, data)]
          /\ past' = [past EXCEPT ![r] = <<Result(r, data)>> \o Front(@)]
    BY <1>4 DEF Request
  <2>2. PICK data \in DHT11_read(m) :
          /\ reading' = [reading EXCEPT ![r] = Result(r, data)]
          /\ history' = [history EXCEPT ![r][1] = Result(r, data)]
          /\ past' = [past EXCEPT ![r] = <<Result(r, data)>> \o Front(@)]
    BY <2>1
  <2>3. stage = <<r, "request">> /\ stage' = <<r, "shift">> /\ UNCHANGED <<dummy, moved>>
    BY <1>4 DEF Request, At
  <2>4. CASE q = r
    <3>1. dummy = history[q] /\ history[q] = past[q]
      BY <1>0, <2>3, <2>4 DEF InStep
    <3>2. /\ reading'[q] = Result(q, data)
          /\ history'[q] = [history[q] EXCEPT ![1] = Result(q, data)]
          /\ past'[q] = <<Result(q, data)>> \o Front(past[q])
      BY <2>2, <2>4 DEF TypeOK
    <3>3. history'[q][1] = Result(q, data)
      BY <1>d, <1>t, <3>2
    <3>4. moved = {}
      BY <1>0, <2>3 DEF MarksCleared
    <3>5. \A k \in Place : history'[q][k] = dummy[k]
      BY <1>d, <1>t, <3>1, <3>2
    <3> QED
      BY <2>3, <2>4, <3>1, <3>2, <3>3, <3>4, <3>5 DEF InStep
  <2>5. CASE q # r
    <3>1. history'[q] = history[q] /\ past'[q] = past[q] /\ reading'[q] = reading[q]
      BY <2>2, <2>5 DEF TypeOK
    <3> QED
      BY <1>0, <2>3, <2>5, <3>1 DEF InStep
  <2> QED
    BY <2>4, <2>5
<1>5. ASSUME NEW r \in Quantity, Shift(r) PROVE InStep(q)'
  <2>1. stage = <<r, "shift">> /\ UNCHANGED <<reading, dummy, past>>
    BY <1>5 DEF Shift, At
  <2>2. CASE q = r
    <3>1. PICK chunk \in SUBSET (Place \ moved) :
            /\ \A k \in Place :
                 history'[q][k] = IF k \in chunk THEN dummy[k - 1] ELSE history[q][k]
            /\ Copied(q, chunk)
      BY <1>5, <2>2, PortionMoved
    <3>2. history'[q] \in [1 .. HISTORY_DEPTH -> Small] /\ history'[q][1] = history[q][1]
      BY <1>5, <2>2, PortionMoved
    <3>3. /\ history[q][1] = reading[q]
          /\ past[q] = <<history[q][1]>> \o Front(dummy)
          /\ \A k \in Place : history[q][k] = IF k \in moved THEN dummy[k - 1] ELSE dummy[k]
      BY <1>0, <2>1, <2>2 DEF InStep
    <3>4. \A k \in Place :
            history'[q][k] = IF k \in moved \cup chunk THEN dummy[k - 1] ELSE dummy[k]
      BY <3>1, <3>3
    <3>5. CASE moved \cup chunk = Place
      <4>1. stage' = <<q, "publish">>
        BY <3>1, <3>5 DEF Copied
      <4>2. past[q][1] = history[q][1] /\ \A k \in Place : past[q][k] = dummy[k - 1]
        <5> DEFINE p == <<history[q][1]>> \o Front(dummy)
        <5>1. p[1] = history[q][1] /\ \A k \in Place : p[k] = dummy[k - 1]
          BY <1>t, PutInFront DEF Place
        <5> HIDE DEF p
        <5>2. past[q] = p
          BY <3>3 DEF p
        <5> QED
          BY <5>1, <5>2
      <4>3. ASSUME NEW k \in 1 .. HISTORY_DEPTH PROVE history'[q][k] = past[q][k]
        <5>1. k = 1 \/ k \in Place
          BY AppLoopAssumption DEF Place
        <5> QED
          BY <3>2, <3>4, <3>5, <4>2, <5>1
      <4>4. history'[q] = past[q]
        <5> DEFINE D == 1 .. HISTORY_DEPTH
        <5>1. PICK h \in [D -> Small] : h = history'[q]
          BY <3>2
        <5>2. PICK p \in [D -> Small] : p = past[q]
          BY <1>t
        <5>3. \A k \in D : h[k] = p[k]
          BY <4>3, <5>1, <5>2
        <5> HIDE DEF D
        <5>4. h = p
          <6>1. h = [k \in D |-> h[k]] /\ p = [k \in D |-> p[k]]
            OBVIOUS
          <6>2. [k \in D |-> h[k]] = [k \in D |-> p[k]]
            BY <5>3
          <6> QED
            BY <6>1, <6>2, Zenon
        <5> QED
          BY <5>1, <5>2, <5>4
      <4> QED
        BY <2>1, <3>2, <3>3, <4>1, <4>4 DEF InStep
    <3>6. CASE moved \cup chunk # Place
      <4>1. stage' = stage /\ moved' = moved \cup chunk
        BY <3>1, <3>6 DEF Copied
      <4>2. \A k \in Place : history'[q][k] = IF k \in moved' THEN dummy'[k - 1] ELSE dummy'[k]
        BY <2>1, <3>4, <4>1
      <4> QED
        BY <2>1, <2>2, <3>2, <3>3, <4>1, <4>2 DEF InStep
    <3> QED
      BY <3>5, <3>6
  <2>3. CASE q # r
    <3>1. history'[q] = history[q]
      BY <1>5, <2>3, PortionMoved
    <3>2. stage' \in {<<r, "shift">>, <<r, "publish">>}
      BY <1>5, <2>1 DEF Shift, Copied
    <3> QED
      BY <1>0, <2>1, <2>3, <3>1, <3>2 DEF InStep
  <2> QED
    BY <2>2, <2>3
<1>6. ASSUME NEW r \in Quantity, Publish(r) PROVE InStep(q)'
  BY <1>0, <1>6 DEF Publish, At, NextStage, InStep
<1>7. CASE Restart
  <2>1. /\ history'[q] = Zeros(HISTORY_DEPTH) /\ past'[q] = Zeros(HISTORY_DEPTH)
        /\ reading'[q] = 0 /\ stage' = <<"temp", "copy">>
    BY <1>7 DEF Restart
  <2>2. Zeros(HISTORY_DEPTH)[1] = 0
    BY <1>d DEF Zeros
  <2> QED
    BY <2>1, <2>2 DEF InStep
<1> QED
  BY <1>1, <1>2, <1>3, <1>4, <1>5, <1>6, <1>7
     DEF Next, LoopStep, AnswerRequest, vars, loopVars

LEMMA HistoriesInit == Init => HistoriesInStep
<1> SUFFICES ASSUME Init, NEW q \in Quantity PROVE InStep(q) /\ MarksCleared
  BY DEF HistoriesInStep, Init, MarksCleared
<1>1. 1 \in 1 .. HISTORY_DEPTH
  BY AppLoopAssumption
<1>2. Zeros(HISTORY_DEPTH)[1] = 0
  BY <1>1 DEF Zeros
<1> QED
  BY <1>2 DEF Init, InStep, MarksCleared

\* At whatever moment the MQTT task sends a history, also in the middle of the
\* memcpy, it has the newest reading in front and each other reading in its
\* place or in the next, for every history length and every order in which
\* the bytes are copied.
THEOREM HistoriesInOrder == Spec => []HistoryOffByAtMostOne
<1>1. TypeOK /\ HistoriesInStep => HistoryOffByAtMostOne
  <2> SUFFICES ASSUME TypeOK, HistoriesInStep, NEW q \in Quantity
               PROVE  /\ history[q][1] = past[q][1]
                      /\ \A k \in Place :
                           \/ history[q][k] = past[q][k]
                           \/ stage = <<q, "shift">> /\ history[q][k] = Older(q, k)
    BY DEF HistoryOffByAtMostOne
  <2>1. InStep(q)
    BY DEF HistoriesInStep
  <2>t. dummy \in [1 .. HISTORY_DEPTH -> Small] /\ history[q][1] \in Small
    BY HistoryTypes
  <2>2. CASE stage = <<q, "shift">>
    <3>1. /\ past[q] = <<history[q][1]>> \o Front(dummy)
          /\ \A k \in Place : history[q][k] = IF k \in moved THEN dummy[k - 1] ELSE dummy[k]
      BY <2>1, <2>2 DEF InStep
    <3>2. past[q][1] = history[q][1] /\ \A k \in Place : past[q][k] = dummy[k - 1]
      <4> DEFINE p == <<history[q][1]>> \o Front(dummy)
      <4>1. p[1] = history[q][1] /\ \A k \in Place : p[k] = dummy[k - 1]
        BY <2>t, PutInFront DEF Place
      <4> HIDE DEF p
      <4>2. past[q] = p
        BY <3>1 DEF p
      <4> QED
        BY <4>1, <4>2
    <3>3. ASSUME NEW k \in Place
          PROVE  history[q][k] = past[q][k] \/ history[q][k] = Older(q, k)
      <4>1. CASE k \in moved
        BY <3>1, <3>2, <4>1
      <4>2. CASE k \notin moved /\ k < HISTORY_DEPTH
        <5>1. k + 1 \in Place /\ (k + 1) - 1 = k
          BY <4>2, AppLoopAssumption DEF Place
        <5>2. past[q][k + 1] = dummy[k]
          BY <3>2, <5>1
        <5> QED
          BY <3>1, <4>2, <5>2 DEF Older
      <4>3. CASE k \notin moved /\ ~(k < HISTORY_DEPTH)
        BY <3>1, <4>3 DEF Older
      <4> QED
        BY <4>1, <4>2, <4>3
    <3> QED
      BY <2>2, <3>2, <3>3
  <2>3. CASE stage # <<q, "shift">>
    BY <2>1, <2>3 DEF InStep
  <2> QED
    BY <2>2, <2>3
<1> QED
  BY <1>1, TypeInit, TypeStep, HistoriesInit, HistoriesStep, PTL DEF Spec

\* Unless a publication was lost, the topic has the temperature, or the one
\* before while its update is under way: the reading dummyHistory, and later
\* the second place of the history, begins with.
Shows(n) == topic["temp"] = FirstTwo(n)

TopicInStep ==
  ~stale =>
    \/ Shows(reading["temp"])
    \/ stage = <<"temp", "shift">> /\ Shows(dummy[1])
    \/ stage = <<"temp", "publish">> /\ Shows(history["temp"][2])

\* A number sent on the other topic changes nothing; one sent on this topic
\* arrives, or the topic is marked stale.
LEMMA SendShows ==
  ASSUME TypeOK, NEW q \in Quantity, NEW n, Send(q, n)
  PROVE  /\ q = "temp" => stale' \/ topic'["temp"] = n
         /\ q # "temp" => stale' = stale /\ topic'["temp"] = topic["temp"]
<1>1. topic \in [Quantity -> Small] /\ "temp" \in Quantity
  BY DEF TypeOK, Small, Quantity
<1>2. CASE q = "temp"
  BY <1>1, <1>2 DEF Send
<1>3. CASE q # "temp"
  BY <1>1, <1>3 DEF Send
<1> QED
  BY <1>2, <1>3

LEMMA TopicStep ==
  TypeOK /\ HistoriesInStep /\ TopicInStep /\ [Next]_vars => TopicInStep'
<1> SUFFICES ASSUME TypeOK, HistoriesInStep, TopicInStep, [Next]_vars
             PROVE  TopicInStep'
  OBVIOUS
<1>0. "temp" \in Quantity /\ "humidity" \in Quantity /\ "temp" # "humidity"
  BY DEF Quantity
<1>q. \A q \in Quantity : q = "temp" \/ q = "humidity"
  BY DEF Quantity
<1>i. InStep("temp")
  BY <1>0 DEF HistoriesInStep
<1>1. CASE UNCHANGED <<stage, reading, history, dummy, topic, stale>>
  BY <1>1 DEF TopicInStep, Shows
<1>2. CASE Control
  <2>1. stage = <<"control">> /\ UNCHANGED <<reading, history, dummy, topic, stale>>
    BY <1>2 DEF Control
  <2>2. stage # <<"temp", "shift">> /\ stage # <<"temp", "publish">>
    BY <2>1
  <2> QED
    BY <2>1, <2>2 DEF TopicInStep, Shows
<1>3. ASSUME NEW q \in Quantity, Copy(q) PROVE TopicInStep'
  <2>1. stage = <<q, "copy">> /\ UNCHANGED <<reading, history, topic, stale>>
    BY <1>3 DEF Copy, At
  <2>2. stage # <<"temp", "shift">> /\ stage # <<"temp", "publish">>
    BY <2>1
  <2> QED
    BY <2>1, <2>2 DEF TopicInStep, Shows
<1>4. ASSUME NEW q \in Quantity, Request(q) PROVE TopicInStep'
  <2>1. /\ stage = <<q, "request">> /\ stage' = <<q, "shift">>
        /\ UNCHANGED <<dummy, topic, stale>>
    BY <1>4 DEF Request, At
  <2>2. ~stale => Shows(reading["temp"])
    BY <2>1 DEF TopicInStep
  <2>3. CASE q = "temp"
    <3>1. dummy[1] = reading["temp"]
      BY <1>i, <2>1, <2>3 DEF InStep
    <3>2. ~stale' => stage' = <<"temp", "shift">> /\ Shows(dummy[1])'
      BY <2>1, <2>2, <2>3, <3>1 DEF Shows
    <3> QED
      BY <3>2 DEF TopicInStep
  <2>4. CASE q # "temp"
    <3>1. reading'["temp"] = reading["temp"]
      BY <1>0, <1>4, <2>4 DEF Request, TypeOK
    <3>2. ~stale' => Shows(reading["temp"])'
      BY <2>1, <2>2, <3>1 DEF Shows
    <3> QED
      BY <3>2 DEF TopicInStep
  <2> QED
    BY <2>3, <2>4
<1>5. ASSUME NEW q \in Quantity, Shift(q) PROVE TopicInStep'
  <2>1. stage = <<q, "shift">> /\ UNCHANGED <<reading, dummy, topic, stale>>
    BY <1>5 DEF Shift, At
  <2>2. CASE q = "temp" /\ stage' = stage
    BY <2>1, <2>2 DEF TopicInStep, Shows
  <2>3. CASE q = "temp" /\ stage' # stage
    <3>1. PICK chunk \in SUBSET (Place \ moved) :
            /\ \A k \in Place :
                 history'["temp"][k] = IF k \in chunk THEN dummy[k - 1] ELSE history["temp"][k]
            /\ Copied("temp", chunk)
      BY <1>5, <2>3, PortionMoved
    <3>2. moved \cup chunk = Place /\ stage' = <<"temp", "publish">>
      BY <2>3, <3>1 DEF Copied
    <3>3. \A k \in Place :
            history["temp"][k] = IF k \in moved THEN dummy[k - 1] ELSE dummy[k]
      BY <1>i, <2>1, <2>3 DEF InStep
    <3>d. 2 \in Place
      BY AppLoopAssumption DEF Place
    <3>4. history'["temp"][2] = dummy[2 - 1]
      BY <3>1, <3>2, <3>3, <3>d
    <3>5. ~stale => Shows(reading["temp"]) \/ Shows(dummy[1])
      BY <2>1, <2>3 DEF TopicInStep
    <3>6. ~stale' => \/ Shows(reading["temp"])'
                     \/ stage' = <<"temp", "publish">> /\ Shows(history["temp"][2])'
      BY <2>1, <3>2, <3>4, <3>5 DEF Shows
    <3> QED
      BY <3>6 DEF TopicInStep
  <2>4. CASE q # "temp"
    BY <2>1, <2>4 DEF TopicInStep, Shows
  <2> QED
    BY <2>2, <2>3, <2>4
<1>6. ASSUME NEW q \in Quantity, Publish(q) PROVE TopicInStep'
  <2>1. /\ stage = <<q, "publish">>
        /\ UNCHANGED <<reading, history, dummy>>
    BY <1>6 DEF Publish, At
  <2>2. CASE q = "temp"
    <3>1. CASE history[q][1] # history[q][2]
      <4>1. Send("temp", FirstTwo(reading["temp"]))
        BY <1>6, <2>2, <3>1 DEF Publish
      <4>2. stale' \/ topic'["temp"] = FirstTwo(reading["temp"])
        BY <1>0, <4>1 DEF Send, TypeOK
      <4> QED
        BY <2>1, <4>2 DEF TopicInStep, Shows
    <3>2. CASE history[q][1] = history[q][2]
      <4>1. UNCHANGED <<topic, stale>>
        BY <1>6, <3>2 DEF Publish
      <4>2. history["temp"][2] = reading["temp"]
        BY <1>i, <2>2, <3>2 DEF InStep
      <4>3. ~stale => Shows(reading["temp"])
        BY <2>1, <2>2, <4>2 DEF TopicInStep
      <4> QED
        BY <2>1, <4>1, <4>3 DEF TopicInStep, Shows
    <3> QED
      BY <3>1, <3>2
  <2>3. CASE q # "temp"
    <3>1. stale' = stale /\ topic'["temp"] = topic["temp"]
      BY <1>0, <1>6, <2>3, SendShows DEF Publish
    <3>2. ~stale => Shows(reading["temp"])
      BY <2>1, <2>3 DEF TopicInStep
    <3> QED
      BY <2>1, <3>1, <3>2 DEF TopicInStep, Shows
  <2> QED
    BY <2>2, <2>3
<1>7. ASSUME NEW q \in Quantity, AnswerRequest(q) PROVE TopicInStep'
  <2>1. UNCHANGED <<stage, reading, history, dummy>> /\ Send(q, FirstTwo(reading[q]))
    BY <1>7 DEF AnswerRequest
  <2>2. CASE q = "temp"
    <3>1. stale' \/ topic'["temp"] = FirstTwo(reading["temp"])
      BY <1>0, <2>1, <2>2 DEF Send, TypeOK
    <3> QED
      BY <2>1, <3>1 DEF TopicInStep, Shows
  <2>3. CASE q # "temp"
    <3>1. stale' = stale /\ topic'["temp"] = topic["temp"]
      BY <2>1, <2>3, SendShows
    <3> QED
      BY <2>1, <3>1 DEF TopicInStep, Shows
  <2> QED
    BY <2>2, <2>3
<1>8. CASE Restart
  BY <1>8 DEF Restart, TopicInStep
<1> QED
  BY <1>1, <1>2, <1>3, <1>4, <1>5, <1>6, <1>7, <1>8
     DEF Next, LoopStep, vars, loopVars

\* The temperature topic has the temperature, except while an update is under
\* way and after a publication was lost.
THEOREM TopicFollows == Spec => []TempTopicFollows
<1>1. Init => TopicInStep
  BY DEF Init, TopicInStep
<1>2. TopicInStep => TempTopicFollows
  BY DEF TopicInStep, Shows, TempTopicFollows
<1> QED
  BY <1>1, <1>2, TypeInit, TypeStep, HistoriesInit, HistoriesStep, TopicStep, PTL
     DEF Spec

=============================================================================
