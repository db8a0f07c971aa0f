------------------------------- MODULE AppLoop -------------------------------
(***************************************************************************)
(* The firmware from power-up on: the connection of WifiConnect and, once  *)
(* it stands, the main loop app_loop with its two measurements             *)
(* (Update_Temperature, Update_Humidity, the requests of request.c and the *)
(* DHT11 driver), the histories and the status topics.  The rest of a pass *)
(* (clock, fans, drips) is the subject of the other modules and one step   *)
(* here.                                                                   *)
(***************************************************************************)
EXTENDS WifiConnect, Sequences, FiniteSets, SequencesExt

CONSTANTS
  Measurement,   \* what the air may be: records [humidity, celsius]
  HISTORY_DEPTH  \* TEMP_HISTORY_DEPTH = HUMIDITY_HISTORY_DEPTH

ASSUME AppLoopAssumption ==
  /\ Measurement \subseteq [humidity : 0 .. 100, celsius : 0 .. 50]
  /\ HISTORY_DEPTH \in Nat \ {0, 1}

Quantity == {"temp", "humidity"}

\* The places the older readings move up to.
Place == 2 .. HISTORY_DEPTH

VARIABLES
  stage,    \* where app_loop is: a quantity and a statement, or "control"
  reading,  \* reading[q]: the global variables temp and humidity
  history,  \* history[q]: tempHistory and humidityHistory, newest first
  dummy,    \* dummyHistory
  moved,    \* the places of the history memcpy has written so far
  topic,    \* topic[q]: the last number on the status topic at the broker
  stale,    \* history variable: the last publication of the temperature did
            \* not reach the broker
  past      \* history variable: past[q], the last HISTORY_DEPTH readings

loopVars == <<stage, reading, history, dummy, moved, topic, stale, past>>
vars == <<wifiVars, loopVars>>

Stage == (Quantity \X {"copy", "request", "shift", "publish"}) \cup {<<"control">>}

TypeOK ==
  /\ WifiTypeOK
  /\ stage \in Stage
  /\ reading \in [Quantity -> -128 .. 127]
  /\ history \in [Quantity -> [1 .. HISTORY_DEPTH -> -128 .. 127]]
  /\ dummy \in [1 .. HISTORY_DEPTH -> -128 .. 127]
  /\ moved \in SUBSET Place
  /\ topic \in [Quantity -> -128 .. 127]
  /\ stale \in BOOLEAN
  /\ past \in [Quantity -> [1 .. HISTORY_DEPTH -> -128 .. 127]]

-----------------------------------------------------------------------------
(* The DHT11 frame: humidity and temperature, each with a decimal byte,    *)
(* and their sum.                                                          *)
Frame(m) == <<m.humidity, 0, m.celsius, 0, m.humidity + m.celsius>>

Least(a, b) == IF a < b THEN a ELSE b

\* The five bytes of DHT11_read if the line goes high for good after n of the
\* 40 bits: _waitOrTimeout then returns -1 for each bit that is left, which
\* DHT11_read takes for a 0.
Received(frame, n) ==
  [k \in 1 .. 5 |->
     LET kept == IF n < 8 * (k - 1) THEN 0 ELSE Least(n - 8 * (k - 1), 8)
     IN frame[k] - (frame[k] % 2^(8 - kept))]

\* Mutant: every sum is right.
AnySum(data) == TRUE

_checkCRC(data) == data[5] = data[1] + data[2] + data[3] + data[4]

\* The readings DHT11_read may return: of a whole frame, and of a frame cut
\* short.  (A line that stays low is a time-out, and like a wrong sum it
\* returns -1, which Request_Temperature and Request_Humidity ask again.)
DHT11_read(m) ==
  {data \in {Received(Frame(m), n) : n \in 0 .. 40} : _checkCRC(data)}

\* An int kept in an int8_t.
Int8(n) == ((n + 128) % 256) - 128

\* Degrees Fahrenheit, or per cent.
Result(q, data) ==
  IF q = "temp" THEN Int8((9 * data[3]) \div 5 + 32) ELSE Int8(data[1])

\* The first two digits of what itoa makes of a number that is not negative.
FirstTwo(n) == IF n < 100 THEN n ELSE n \div 10

-----------------------------------------------------------------------------
(* app_loop                                                                *)

At(q, statement) == pc = "app_loop" /\ stage = <<q, statement>>

Copy(q) ==
  /\ At(q, "copy")
  /\ dummy' = history[q]
  /\ stage' = <<q, "request">>
  /\ UNCHANGED <<wifiVars, reading, history, moved, topic, stale, past>>

\* The attempt of Request_Temperature or Request_Humidity that succeeds, and
\* the result in the variable and in the first place of the history.
Request(q) ==
  /\ At(q, "request")
  /\ \E m \in Measurement : \E data \in DHT11_read(m) :
       /\ reading' = [reading EXCEPT ![q] = Result(q, data)]
       /\ history' = [history EXCEPT ![q][1] = Result(q, data)]
       /\ past' = [past EXCEPT ![q] = <<Result(q, data)>> \o Front(@)]
  /\ stage' = <<q, "shift">>
  /\ UNCHANGED <<wifiVars, dummy, moved, topic, stale>>

\* memcpy has written the places of chunk, and with the last one it returns.
Copied(q, chunk) ==
  IF moved \cup chunk = Place
  THEN moved' = {} /\ stage' = <<q, "publish">>
  ELSE moved' = moved \cup chunk /\ UNCHANGED stage

\* Mutant: the history is shifted in place, without the copy.
ShiftInPlace(q) ==
  /\ At(q, "shift")
  /\ \E chunk \in SUBSET (Place \ moved) :
       /\ chunk # {}
       /\ history' = [history EXCEPT ![q] =
            [k \in 1 .. HISTORY_DEPTH |->
               IF k \in chunk THEN history[q][k - 1] ELSE history[q][k]]]
       /\ Copied(q, chunk)
  /\ UNCHANGED <<wifiVars, reading, dummy, topic, stale, past>>

\* The history before the request moves up one place.  Nothing locks it while
\* memcpy writes it, in an order and in portions that are up to the library:
\* a step writes some of the places that are left.
Shift(q) ==
  /\ At(q, "shift")
  /\ \E chunk \in SUBSET (Place \ moved) :
       /\ chunk # {}
       /\ history' = [history EXCEPT ![q] =
            [k \in 1 .. HISTORY_DEPTH |->
               IF k \in chunk THEN dummy[k - 1] ELSE history[q][k]]]
       /\ Copied(q, chunk)
  /\ UNCHANGED <<wifiVars, reading, dummy, topic, stale, past>>

Send(q, number) ==
  /\ topic' = IF Delivered THEN [topic EXCEPT ![q] = number] ELSE topic
  /\ stale' = IF q = "temp" THEN ~Delivered ELSE stale

NextStage(q) == IF q = "temp" THEN <<"humidity", "copy">> ELSE <<"control">>

\* Mutant: the reading is compared with the oldest one.
PublishLate(q) ==
  /\ At(q, "publish")
  /\ IF history[q][1] # Last(dummy)
     THEN Send(q, FirstTwo(reading["temp"]))
     ELSE UNCHANGED <<topic, stale>>
  /\ stage' = NextStage(q)
  /\ UNCHANGED <<wifiVars, reading, history, dummy, moved, past>>

\* Mutant: publishing waits for the broker.
PublishWaits(q) ==
  /\ At(q, "publish")
  /\ Delivered
  /\ Send(q, FirstTwo(reading["temp"]))
  /\ stage' = NextStage(q)
  /\ UNCHANGED <<wifiVars, reading, history, dummy, moved, past>>

\* A change is published, in two digits.  Update_Humidity sends temp too.
Publish(q) ==
  /\ At(q, "publish")
  /\ IF history[q][1] # history[q][2]
     THEN Send(q, FirstTwo(reading["temp"]))
     ELSE UNCHANGED <<topic, stale>>
  /\ stage' = NextStage(q)
  /\ UNCHANGED <<wifiVars, reading, history, dummy, moved, past>>

\* update_time, update_fan and the drips; then the next pass.
Control ==
  /\ pc = "app_loop" /\ stage = <<"control">>
  /\ stage' = <<"temp", "copy">>
  /\ UNCHANGED <<wifiVars, reading, history, dummy, moved, topic, stale, past>>

LoopStep ==
  Control \/ \E q \in Quantity : Copy(q) \/ Request(q) \/ Shift(q) \/ Publish(q)

-----------------------------------------------------------------------------
\* The MQTT task answers a request for a status.  (That for a history
\* sends history[q] as it is at that moment.)
AnswerRequest(q) ==
  /\ Delivered
  /\ Send(q, FirstTwo(reading[q]))
  /\ UNCHANGED <<wifiVars, stage, reading, history, dummy, moved, past>>

Zeros(n) == [i \in 1 .. n |-> 0]

Init ==
  /\ WifiInit
  /\ stage = <<"temp", "copy">>
  /\ reading = [q \in Quantity |-> 0]
  /\ history = [q \in Quantity |-> Zeros(HISTORY_DEPTH)]
  /\ dummy = Zeros(HISTORY_DEPTH)
  /\ moved = {}
  /\ stale = TRUE
  /\ past = [q \in Quantity |-> Zeros(HISTORY_DEPTH)]
  /\ topic = [q \in Quantity |-> 0]

\* The topics stay as they are at the broker.
Restart ==
  /\ WifiRestart
  /\ stage' = <<"temp", "copy">>
  /\ reading' = [q \in Quantity |-> 0]
  /\ history' = [q \in Quantity |-> Zeros(HISTORY_DEPTH)]
  /\ dummy' = Zeros(HISTORY_DEPTH)
  /\ moved' = {}
  /\ stale' = TRUE
  /\ past' = [q \in Quantity |-> Zeros(HISTORY_DEPTH)]
  /\ UNCHANGED topic

Next ==
  \/ (Start \/ Events) /\ UNCHANGED loopVars
  \/ LoopStep
  \/ \E q \in Quantity : AnswerRequest(q)
  \/ Restart

Spec == Init /\ [][Next]_vars

\* The main task is scheduled.  Nothing is assumed of a request: the sensor
\* may fail for ever.
Fairness ==
  /\ WF_vars(Start /\ UNCHANGED loopVars)
  /\ WF_vars(Control)
  /\ \A q \in Quantity : WF_vars(Copy(q)) /\ WF_vars(Shift(q)) /\ WF_vars(Publish(q))

FairSpec == Spec /\ Fairness

-----------------------------------------------------------------------------
(* Properties                                                              *)

\* A frame cut short is noticed in spite of DHT11_read taking the bits it
\* never saw for zeros: what is accepted as temperature or humidity is what
\* the sensor measured, or zero (degrees Celsius, per cent), never a part of
\* a number.
OnlyGenuineReadings ==
  [][\A q \in Quantity :
       reading'[q] # reading[q] /\ pc' = "app_loop" =>
         reading'[q] \in {Result(q, data) :
                           data \in {Frame(m) : m \in Measurement} \cup {Zeros(5)}}]_vars

\* The reading one place older than the k-th newest; for the oldest, the one
\* that is about to be dropped.
Older(q, k) == IF k < HISTORY_DEPTH THEN past[q][k + 1] ELSE dummy[k]

\* What the MQTT task finds when it sends a history, at whatever moment of the
\* update it looks, also in the middle of the memcpy: the newest reading in
\* front, and in each other place the reading that belongs there, or, only
\* while the older ones move up, the one next to it.  Readings may be missing
\* or doubled then, but none is out of order or further away than one place
\* (nor does it get further if the task itself copies the array in portions).
HistoryOffByAtMostOne ==
  \A q \in Quantity :
    /\ history[q][1] = past[q][1]
    /\ \A k \in Place :
         \/ history[q][k] = past[q][k]
         \/ stage = <<q, "shift">> /\ history[q][k] = Older(q, k)

\* The temperature topic has the (first two digits of the) temperature except
\* between a reading and its publication, and except when the publication
\* was lost with the connection: publishing changes only is enough.
TempTopicFollows ==
  ~stale /\ stage \notin {<<"temp", "shift">>, <<"temp", "publish">>}
    => topic["temp"] = FirstTwo(reading["temp"])

\* An address that stays gets the firmware into its main loop: no order of
\* the WiFi events and the steps of app_main leaves it waiting.
AddressStartsLoop == <>[](wifi = "up") => <>(pc = "app_loop")

\* The main loop, once the firmware no longer restarts, goes round for ever:
\* only a sensor that never answers again can stop it (and with it the drips).
OnlySensorStopsLoop ==
  <>[](pc = "app_loop") =>
    []<>(stage = <<"control">>) \/ \E q \in Quantity : <>[](stage = <<q, "request">>)

=============================================================================
