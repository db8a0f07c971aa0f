-------------------------- MODULE MqttReceiveProofs --------------------------
(***************************************************************************)
(* Proofs about the MQTT event handler, for every sequence of messages:    *)
(* which messages mean what they say and which do not, with numbers of any *)
(* length that fits into the buffer of the client; and that every time of  *)
(* a clock with AM and PM that is set is the one that is shown.            *)
(***************************************************************************)
EXTENDS MqttReceive, FiniteSetTheorems, SequenceTheorems, TLAPS

-----------------------------------------------------------------------------
(* Times set and shown                                                     *)

\* Formatting what was parsed gives back the time that was sent, the hour of
\* noon and of midnight included.
LEMMA RoundTrip ==
  ASSUME NEW t \in Time12
  PROVE  Convert_Time_To_String(ParseTime(t)) = t
<1> DEFINE raw  == ParseTime(t)
           hour == (raw \div 60) % 256
<1>1. t.hour \in 1 .. 12 /\ t.min \in 0 .. 59 /\ t.pm \in BOOLEAN
  BY DEF Time12
<1>2. t = [hour |-> t.hour, min |-> t.min, pm |-> t.pm]
  BY DEF Time12
<1>3. CASE t.pm
  <2>1. raw = 60 * (t.hour + 12) + t.min
    BY <1>1, <1>3 DEF ParseTime
  <2>2. raw \div 60 = t.hour + 12
    BY <1>1, <2>1
  <2>3. hour = t.hour + 12
    BY <1>1, <2>2
  <2>4. (raw - 60 * hour) % 256 = t.min
    BY <1>1, <2>1, <2>3
  <2>5. t.pm = TRUE
    BY <1>1, <1>3
  <2> HIDE DEF raw, hour
  <2>6. (IF hour > 12 THEN hour - 12 ELSE hour) = t.hour /\ (hour > 12) = TRUE
    BY <1>1, <2>3
  <2>7. Convert_Time_To_String(raw) =
          [hour |-> IF hour > 12 THEN hour - 12 ELSE hour,
           min |-> (raw - 60 * hour) % 256, pm |-> hour > 12]
    BY DEF Convert_Time_To_String, hour
  <2>8. Convert_Time_To_String(raw) = [hour |-> t.hour, min |-> t.min, pm |-> TRUE]
    BY <2>4, <2>6, <2>7
  <2> QED
    BY <1>2, <2>5, <2>8 DEF raw
<1>4. CASE ~t.pm
  <2>1. raw = 60 * t.hour + t.min
    BY <1>1, <1>4 DEF ParseTime
  <2>2. raw \div 60 = t.hour
    BY <1>1, <2>1
  <2>3. hour = t.hour
    BY <1>1, <2>2
  <2>4. (raw - 60 * hour) % 256 = t.min
    BY <1>1, <2>1, <2>3
  <2>5. t.pm = FALSE
    BY <1>1, <1>4
  <2> HIDE DEF raw, hour
  <2>6. (IF hour > 12 THEN hour - 12 ELSE hour) = t.hour /\ (hour > 12) = FALSE
    BY <1>1, <2>3
  <2>7. Convert_Time_To_String(raw) =
          [hour |-> IF hour > 12 THEN hour - 12 ELSE hour,
           min |-> (raw - 60 * hour) % 256, pm |-> hour > 12]
    BY DEF Convert_Time_To_String, hour
  <2>8. Convert_Time_To_String(raw) = [hour |-> t.hour, min |-> t.min, pm |-> FALSE]
    BY <2>4, <2>6, <2>7
  <2> QED
    BY <1>2, <2>5, <2>8 DEF raw
<1> QED
  BY <1>3, <1>4

\* The parser yields minutes from midnight, twelve hours late in the hours
\* that begin with 12.
LEMMA ParsedMinutes ==
  ASSUME NEW t \in Time12
  PROVE  ParseTime(t) = MinutesFromMidnight(t) + (IF t.hour = 12 THEN 12 * 60 ELSE 0)
<1>1. CASE t.hour # 12
  <2>1. t.hour % 12 = t.hour
    BY <1>1 DEF Time12
  <2> QED
    BY <1>1, <2>1 DEF ParseTime, MinutesFromMidnight, Time12
<1>2. CASE t.hour = 12
  <2>1. t.hour % 12 = 0
    BY <1>2
  <2> QED
    BY <1>2, <2>1 DEF ParseTime, MinutesFromMidnight, Time12
<1> QED
  BY <1>1, <1>2

-----------------------------------------------------------------------------
\* A drip whose start time was set has it stored as the parser computes it,
\* and what was answered since then is what the formatter makes of it.
Stored ==
  /\ start \in [Drip -> Nat]
  /\ sent \in [Drip -> SUBSET StartTime]
  /\ reply \in [Drip -> SUBSET {Convert_Time_To_String(n) : n \in Int}]
  /\ \A d \in Drip : \A t \in sent[d] : start[d] = ParseTime(t) /\ sent[d] = {t}
  /\ \A d \in Drip : reply[d] = {} \/ reply[d] = {Convert_Time_To_String(start[d])}

LEMMA StoredStep == Stored /\ [Next]_vars => Stored'
<1> SUFFICES ASSUME Stored, [Next]_vars PROVE Stored'
  OBVIOUS
<1>1. ASSUME NEW d \in Drip, NEW t \in StartTime, DripSetStart(d, t)
      PROVE  Stored'
  <2>1. ParseTime(t) \in Nat
    BY MqttAssumption DEF ParseTime, Time12
  <2>2. /\ start' = [start EXCEPT ![d] = ParseTime(t)]
        /\ sent' = [sent EXCEPT ![d] = {t}]
        /\ reply' = [reply EXCEPT ![d] = {}]
    BY <1>1 DEF DripSetStart
  <2> QED
    BY <2>1, <2>2 DEF Stored
<1>2. ASSUME NEW d \in Drip, DripRequestStart(d) PROVE Stored'
  <2>1. /\ reply' = [reply EXCEPT ![d] = {Convert_Time_To_String(start[d])}]
        /\ UNCHANGED <<start, sent>>
    BY <1>2 DEF DripRequestStart
  <2>2. start[d] \in Int
    BY DEF Stored
  <2> QED
    BY <2>1, <2>2 DEF Stored
<1>3. CASE UNCHANGED <<start, sent, reply>>
  BY <1>3 DEF Stored
<1> QED
  BY <1>1, <1>2, <1>3
     DEF Next, vars, FanCommand, DripCommand, FanSetTempOn, DripSetNumber, Request

LEMMA StoredInit == Init => Stored
BY DEF Init, Stored

\* Every answer to a request for a start time is the time last set, for every
\* set of drips and of times.
THEOREM ShownAsSetAlways == Spec => []ShownAsSet
<1>1. Stored => ShownAsSet
  <2> SUFFICES ASSUME Stored, NEW d \in Drip, reply[d] # {}, sent[d] # {}
               PROVE  reply[d] = sent[d]
    BY DEF ShownAsSet
  <2>1. PICK t \in sent[d] : start[d] = ParseTime(t) /\ sent[d] = {t}
    BY DEF Stored
  <2>2. t \in Time12
    BY MqttAssumption DEF Stored
  <2>3. reply[d] = {Convert_Time_To_String(start[d])}
    BY DEF Stored
  <2>4. Convert_Time_To_String(start[d]) = t
    BY <2>1, <2>2, RoundTrip
  <2> QED
    BY <2>1, <2>3, <2>4
<1> QED
  BY <1>1, StoredInit, StoredStep, PTL DEF Spec

\* Every time of a clock with AM and PM that a message sets is stored as the
\* minutes from midnight, twelve hours late in the hours that begin with 12.
THEOREM StoredInMinutesAlways == Spec => []StoredInMinutes
<1>1. Stored => StoredInMinutes
  <2> SUFFICES ASSUME Stored, NEW d \in Drip, NEW t \in sent[d]
               PROVE  start[d] = MinutesFromMidnight(t)
                                   + (IF t.hour = 12 THEN 12 * 60 ELSE 0)
    BY DEF StoredInMinutes
  <2>1. t \in Time12
    BY MqttAssumption DEF Stored
  <2>2. start[d] = ParseTime(t)
    BY DEF Stored
  <2> QED
    BY <2>1, <2>2, ParsedMinutes
<1> QED
  BY <1>1, StoredInit, StoredStep, PTL DEF Spec

-----------------------------------------------------------------------------
(* The places of the payloads                                              *)

LEMMA Places ==
  /\ Data(TopicLength.fan_state) = 33
  /\ Data(TopicLength.fan_temp_on) = 35
  /\ Data(TopicLength.ctrl) = 30
  /\ Data(TopicLength.start) = 35
  /\ Data(TopicLength["duration"]) = 34
  /\ Data(TopicLength["days"]) = 30
  /\ Window = 30 .. Last
BY DEF Data, TopicLength, Window

LEMMA WithinWindow ==
  /\ Last \in Nat /\ Last > 42
  /\ \A n \in DigitCount : n \in Nat /\ n > 0 /\ 35 + n <= Last
BY MqttAssumption, Places

\* A payload: text of a known length, made of bytes.
Text(payload, n) == Len(payload) = n /\ \A k \in 1 .. n : payload[k] \in Byte

\* What is in the buffer when a message has come in: the payload in its place,
\* the topic before it, and what was there before behind it.
LEMMA Placed ==
  ASSUME NEW length \in Nat, NEW n \in Nat, NEW payload, Text(payload, n),
         buf \in [Window -> Byte]
  PROVE  /\ Received(length, payload) \in [Window -> Byte]
         /\ \A i \in Window :
              Received(length, payload)[i] =
                IF i < Data(length) THEN "other"
                ELSE IF i < Data(length) + n THEN payload[i - Data(length) + 1]
                ELSE buf[i]
<1>1. Window \subseteq Int /\ Data(length) \in Nat
  BY WithinWindow, Places DEF Data
<1>2. \A i \in Window :
        Received(length, payload)[i] =
          IF i < Data(length) THEN "other"
          ELSE IF i < Data(length) + n THEN payload[i - Data(length) + 1]
          ELSE buf[i]
  BY DEF Received, Text
<1>3. ASSUME NEW i \in Window PROVE Received(length, payload)[i] \in Byte
  <2>1. CASE i < Data(length)
    BY <1>2, <2>1 DEF Byte
  <2>2. CASE i >= Data(length) /\ i < Data(length) + n
    <3>1. i - Data(length) + 1 \in 1 .. n
      BY <1>1, <2>2
    <3> QED
      BY <1>1, <1>2, <2>2, <3>1 DEF Text
  <2>3. CASE i >= Data(length) + n
    <3>1. ~(i < Data(length)) /\ ~(i < Data(length) + n)
      BY <1>1, <2>3
    <3> QED
      BY <1>2, <3>1
  <2> QED
    BY <1>1, <2>1, <2>2, <2>3
<1> QED
  BY <1>2, <1>3 DEF Received

LEMMA CmdTexts ==
  /\ CmdText("ON") = <<"O", "N">> /\ Text(CmdText("ON"), 2)
  /\ CmdText("OFF") = <<"O", "F", "F">> /\ Text(CmdText("OFF"), 3)
BY DEF CmdText, Text, Byte

LEMMA Numbers ==
  ASSUME NEW n \in Nat
  PROVE  Text(Number(n), n) /\ \A k \in 1 .. n : Number(n)[k] = "digit"
BY DEF Number, Text, Byte

LEMMA TimeTexts ==
  ASSUME NEW t \in Time12
  PROVE  /\ HourDigits(t) \in {1, 2}
         /\ Text(TimeText(t), HourDigits(t) + 5)
         /\ \A k \in 1 .. HourDigits(t) + 5 :
              TimeText(t)[k] =
                IF k = HourDigits(t) + 1 \/ k > HourDigits(t) + 3
                THEN "other" ELSE "digit"
<1>1. HourDigits(t) \in {1, 2}
  BY DEF HourDigits
<1> DEFINE rest == <<"other", "digit", "digit", "other", "other">>
<1>2. Number(HourDigits(t)) \in Seq(Byte) /\ Len(Number(HourDigits(t))) = HourDigits(t)
  BY <1>1 DEF Number, Byte
<1>3. rest \in Seq(Byte) /\ Len(rest) = 5
  BY DEF Byte
<1>4. /\ TimeText(t) \in Seq(Byte)
      /\ Len(TimeText(t)) = HourDigits(t) + 5
      /\ \A k \in 1 .. HourDigits(t) + 5 :
           TimeText(t)[k] = IF k <= HourDigits(t) THEN Number(HourDigits(t))[k]
                                                 ELSE rest[k - HourDigits(t)]
  BY <1>2, <1>3, ConcatProperties DEF TimeText
<1>5. ASSUME NEW k \in 1 .. HourDigits(t) + 5
      PROVE  TimeText(t)[k] =
               IF k = HourDigits(t) + 1 \/ k > HourDigits(t) + 3
               THEN "other" ELSE "digit"
  <2>1. CASE k <= HourDigits(t)
    BY <1>1, <1>4, <2>1, Numbers
  <2>2. CASE k > HourDigits(t)
    <3>1. k - HourDigits(t) \in 1 .. 5 /\ TimeText(t)[k] = rest[k - HourDigits(t)]
      BY <1>1, <1>4, <2>2
    <3> QED
      BY <1>1, <2>2, <3>1
  <2> QED
    BY <1>1, <2>1, <2>2
<1> QED
  BY <1>1, <1>4, <1>5 DEF Text, Byte

\* atoi reads the n digits that are there if what follows is no digit.
LEMMA DigitsRead ==
  ASSUME NEW b, NEW i \in Nat, NEW n \in Nat, n > 0, i + n <= Last + 1,
         \A j \in i .. i + n - 1 : b[j] = "digit",
         i + n <= Last => b[i + n] # "digit"
  PROVE  Digits(b, i) = n
<1> DEFINE D == {k \in i .. Last : \A j \in i .. k : b[j] = "digit"}
<1>0. Last \in Nat
  BY WithinWindow
<1>1. D = i .. i + n - 1
  <2>1. ASSUME NEW k \in D PROVE k \in i .. i + n - 1
    <3>1. CASE k >= i + n
      <4>1. i + n \in i .. k /\ i + n <= Last
        BY <1>0, <3>1
      <4> QED
        BY <4>1
    <3> QED
      BY <1>0, <3>1
  <2>2. ASSUME NEW k \in i .. i + n - 1 PROVE k \in D
    BY <1>0
  <2> QED
    BY <2>1, <2>2
<1>2. Cardinality(i .. i + n - 1) = n
  BY FS_Interval
<1> QED
  BY <1>1, <1>2 DEF Digits

-----------------------------------------------------------------------------
(* What earlier messages leave behind                                      *)

\* An O is where a fan or a drip command begins and nowhere else, an N behind
\* the first byte of a fan command is that of the fan command last sent, and
\* there are at most r digits from where a trip point begins.
Clean(b, fan, r) ==
  /\ \A k \in Window : b[k] = "O" => k = 30 \/ k = 33
  /\ b[34] = "N" => fan = "ON"
  /\ \A k \in Window : k >= 35 /\ b[k] = "digit" => k < 35 + r

\* The same of the n bytes of a payload to be put at byte "at".
Fits(payload, n, at, fan, r) ==
  \A k \in 1 .. n :
    /\ payload[k] = "O" => at + k - 1 = 30 \/ at + k - 1 = 33
    /\ payload[k] = "N" /\ at + k - 1 = 34 => fan = "ON"
    /\ payload[k] = "digit" => at + k - 1 < 35 + r

\* A message leaves the buffer clean if its own text does.
LEMMA ReceivedClean ==
  ASSUME NEW length \in Nat, NEW n \in Nat, NEW payload, Text(payload, n),
         buf \in [Window -> Byte], NEW r \in Nat, NEW q \in Nat, r <= q,
         NEW fan, NEW fan2, Clean(buf, fan, r),
         fan2 = fan \/ Data(length) + n > 34,
         Fits(payload, n, Data(length), fan2, q)
  PROVE  Clean(Received(length, payload), fan2, q)
<1> DEFINE b == Received(length, payload)
           at == Data(length)
<1>1. at \in Nat /\ Window = 30 .. Last /\ Last \in Nat /\ Last > 42
  BY Places, WithinWindow DEF Data
<1>2. \A i \in Window :
        b[i] = IF i < at THEN "other"
               ELSE IF i < at + n THEN payload[i - at + 1] ELSE buf[i]
  BY Placed
<1> HIDE DEF b
<1>3. ASSUME NEW i \in Window
      PROVE  /\ b[i] = "O" => i = 30 \/ i = 33
             /\ b[i] = "N" /\ i = 34 => fan2 = "ON"
             /\ i >= 35 /\ b[i] = "digit" => i < 35 + q
  <2>1. CASE i < at
    BY <1>2, <2>1
  <2>2. CASE i >= at /\ i < at + n
    <3>1. i - at + 1 \in 1 .. n /\ at + (i - at + 1) - 1 = i
      BY <1>1, <2>2
    <3>2. b[i] = payload[i - at + 1]
      BY <1>1, <1>2, <2>2
    <3> QED
      BY <3>1, <3>2 DEF Fits
  <2>3. CASE i >= at + n
    <3>1. b[i] = buf[i]
      BY <1>1, <1>2, <2>3
    <3> QED
      BY <1>1, <2>3, <3>1 DEF Clean
  <2> QED
    BY <1>1, <2>1, <2>2, <2>3
<1>4. 34 \in Window
  BY <1>1
<1> QED
  BY <1>3, <1>4 DEF Clean, b

\* The terminator leaves it clean.
LEMMA TerminatedClean ==
  ASSUME NEW length \in Nat, NEW payload, NEW fan, NEW r,
         Received(length, payload) \in [Window -> Byte],
         Clean(Received(length, payload), fan, r)
  PROVE  /\ Terminated(length, payload) \in [Window -> Byte]
         /\ Clean(Terminated(length, payload), fan, r)
<1> DEFINE b == Received(length, payload)
           i == Data(length) + Len(payload)
<1>1. Terminated(length, payload) = [b EXCEPT ![i] = "NUL"]
  BY DEF Terminated
<1>2. "NUL" \in Byte
  BY DEF Byte
<1>3. 34 \in Window
  BY Places, WithinWindow
<1> HIDE DEF b, i
<1>4. b \in [Window -> Byte] /\ Clean(b, fan, r)
  BY DEF b
<1> QED
  BY <1>1, <1>2, <1>3, <1>4 DEF Clean

-----------------------------------------------------------------------------
(* The messages, one by one                                                *)

\* The inductive invariant of the buffer.
ReadInv ==
  /\ buf \in [Window -> Byte]
  /\ last \in [topic : DOMAIN TopicLength \cup {"request"}, obeyed : BOOLEAN]
  /\ lastFan \in Cmd
  /\ reach \in Nat
  /\ Clean(buf, lastFan, reach)

LEMMA Topics ==
  DOMAIN TopicLength = {"fan_state", "fan_temp_on", "ctrl", "start", "duration", "days"}
BY DEF TopicLength

LEMMA GotType ==
  ASSUME NEW topic \in DOMAIN TopicLength \cup {"request"}, NEW b, NEW ok \in BOOLEAN,
         Got(topic, b, ok)
  PROVE  /\ buf' = b
         /\ last' \in [topic : DOMAIN TopicLength \cup {"request"}, obeyed : BOOLEAN]
         /\ last'.topic = topic /\ last'.obeyed = ok
BY Zenon DEF Got

\* A text at its place can be read back from there.
LEMMA ReadBack ==
  ASSUME NEW length \in Nat, NEW n \in Nat, NEW payload, Text(payload, n),
         buf \in [Window -> Byte], Data(length) >= 30,
         NEW k \in 0 .. n - 1, Data(length) + k <= Last
  PROVE  Received(length, payload)[Data(length) + k] = payload[k + 1]
<1>1. Data(length) \in Nat /\ Window = 30 .. Last /\ Last \in Nat
  BY Places, WithinWindow DEF Data
<1> DEFINE i == Data(length) + k
<1>2. /\ i \in Window
      /\ ~(i < Data(length)) /\ i < Data(length) + n /\ i - Data(length) + 1 = k + 1
  BY <1>1
<1>3. \A j \in Window :
        Received(length, payload)[j] =
          IF j < Data(length) THEN "other"
          ELSE IF j < Data(length) + n THEN payload[j - Data(length) + 1] ELSE buf[j]
  BY Placed
<1> HIDE DEF i
<1>4. Received(length, payload)[i] = payload[k + 1]
  BY <1>2, <1>3
<1> QED
  BY <1>4 DEF i

\* A fan command is obeyed.
LEMMA FanCommandStep ==
  ASSUME ReadInv, NEW cmd \in Cmd, FanCommand(cmd)
  PROVE  ReadInv' /\ last'.obeyed
<1> DEFINE b == Received(29, CmdText(cmd))
           ok == IF HasOn(b, 33) THEN cmd = "ON" ELSE HasOff(b, 33) /\ cmd = "OFF"
<1>1. Got("fan_state", b, ok) /\ lastFan' = cmd /\ reach' = reach
  BY Places DEF FanCommand, TopicLength
<1>2. Data(29) = 33 /\ Last \in Nat /\ Last > 42 /\ Window = 30 .. Last
  BY Places, WithinWindow DEF Data
<1>3. CASE cmd = "ON"
  <2>1. b \in [Window -> Byte]
    BY <1>3, CmdTexts, Placed DEF ReadInv
  <2>2. Clean(b, cmd, reach)
    <3>1. Text(CmdText(cmd), 2) /\ Fits(CmdText(cmd), 2, 33, cmd, reach)
      BY <1>3, CmdTexts DEF Fits
    <3> QED
      BY <1>2, <3>1, ReceivedClean DEF ReadInv
  <2>3. b[33] = "O" /\ b[34] = "N"
    <3>1. Text(CmdText(cmd), 2) /\ CmdText(cmd)[1] = "O" /\ CmdText(cmd)[2] = "N"
      BY <1>3, CmdTexts
    <3>2. 0 \in 0 .. 2 - 1 /\ 1 \in 0 .. 2 - 1 /\ 2 \in Nat /\ 29 \in Nat
      OBVIOUS
    <3>3. b[33 + 0] = CmdText(cmd)[0 + 1] /\ b[33 + 1] = CmdText(cmd)[1 + 1]
      BY <1>2, <3>1, <3>2, ReadBack DEF ReadInv
    <3> QED
      BY <3>1, <3>3
  <2>4. HasOn(b, 33)
    <3> HIDE DEF b
    <3>1. 33 \in 33 .. Last - 1
      BY <1>2
    <3>2. InString(b, 33, 33)
      BY <2>3 DEF InString
    <3> QED
      BY <2>3, <3>1, <3>2 DEF HasOn
  <2>5. ok = TRUE
    BY <1>3, <2>4
  <2> HIDE DEF b, ok
  <2> QED
    BY <1>1, <2>1, <2>2, <2>5, GotType, Topics DEF ReadInv
<1>4. CASE cmd = "OFF"
  <2>1. b \in [Window -> Byte]
    BY <1>4, CmdTexts, Placed DEF ReadInv
  <2>2. Clean(b, cmd, reach)
    <3>1. Text(CmdText(cmd), 3) /\ Fits(CmdText(cmd), 3, 33, cmd, reach)
      BY <1>4, CmdTexts DEF Fits
    <3> QED
      BY <1>2, <3>1, ReceivedClean DEF ReadInv
  <2>3. b[33] = "O" /\ b[34] = "F" /\ b[35] = "F"
    <3>1. /\ Text(CmdText(cmd), 3)
          /\ CmdText(cmd)[1] = "O" /\ CmdText(cmd)[2] = "F" /\ CmdText(cmd)[3] = "F"
      BY <1>4, CmdTexts
    <3>2. 0 \in 0 .. 3 - 1 /\ 1 \in 0 .. 3 - 1 /\ 2 \in 0 .. 3 - 1 /\ 3 \in Nat /\ 29 \in Nat
      OBVIOUS
    <3>3. /\ b[33 + 0] = CmdText(cmd)[0 + 1] /\ b[33 + 1] = CmdText(cmd)[1 + 1]
          /\ b[33 + 2] = CmdText(cmd)[2 + 1]
      BY <1>2, <3>1, <3>2, ReadBack DEF ReadInv
    <3> QED
      BY <3>1, <3>3
  <2> HIDE DEF b
  <2>4. HasOff(b, 33)
    <3>1. 33 \in 33 .. Last - 2
      BY <1>2
    <3>2. InString(b, 33, 33)
      BY <2>3 DEF InString
    <3> QED
      BY <2>3, <3>1, <3>2 DEF HasOff
  <2>5. ~HasOn(b, 33)
    <3> SUFFICES ASSUME NEW k \in 33 .. Last - 1, b[k] = "O", b[k + 1] = "N"
                 PROVE  FALSE
      BY DEF HasOn
    <3>1. k \in Window
      BY <1>2
    <3>2. k = 33
      BY <1>2, <2>2, <3>1 DEF Clean
    <3> QED
      BY <2>3, <3>2
  <2>6. ok = TRUE
    BY <1>4, <2>4, <2>5
  <2> HIDE DEF ok
  <2> QED
    BY <1>1, <2>1, <2>2, <2>6, GotType, Topics DEF ReadInv
<1> QED
  BY <1>3, <1>4 DEF Cmd

\* A drip command is obeyed, but for an OFF before the N of a fan command.
LEMMA DripCommandStep ==
  ASSUME ReadInv, NEW cmd \in Cmd, DripCommand(cmd)
  PROVE  /\ ReadInv' /\ last'.topic = "ctrl"
         /\ ~last'.obeyed => cmd = "OFF" /\ lastFan = "ON"
<1> DEFINE b  == Received(26, CmdText(cmd))
           ok == cmd = IF HasOn(b, 30) THEN "ON" ELSE "OFF"
<1>1. Got("ctrl", b, ok) /\ lastFan' = lastFan /\ reach' = reach
  BY Places DEF DripCommand, TopicLength
<1>2. Data(26) = 30 /\ Last \in Nat /\ Last > 42 /\ Window = 30 .. Last
  BY Places, WithinWindow DEF Data
<1>3. CASE cmd = "ON"
  <2>1. Text(CmdText(cmd), 2) /\ Fits(CmdText(cmd), 2, 30, lastFan, reach)
    BY <1>3, CmdTexts DEF Fits
  <2>2. b \in [Window -> Byte] /\ Clean(b, lastFan, reach)
    BY <1>2, <2>1, Placed, ReceivedClean DEF ReadInv
  <2>3. b[30] = "O" /\ b[31] = "N"
    <3>1. CmdText(cmd)[1] = "O" /\ CmdText(cmd)[2] = "N"
      BY <1>3, CmdTexts
    <3>2. 0 \in 0 .. 2 - 1 /\ 1 \in 0 .. 2 - 1 /\ 2 \in Nat /\ 26 \in Nat
      OBVIOUS
    <3>3. b[30 + 0] = CmdText(cmd)[0 + 1] /\ b[30 + 1] = CmdText(cmd)[1 + 1]
      BY <1>2, <2>1, <3>2, ReadBack DEF ReadInv
    <3> QED
      BY <3>1, <3>3
  <2> HIDE DEF b
  <2>4. HasOn(b, 30)
    <3>1. 30 \in 30 .. Last - 1
      BY <1>2
    <3>2. InString(b, 30, 30)
      BY <2>3 DEF InString
    <3> QED
      BY <2>3, <3>1, <3>2 DEF HasOn
  <2>5. ok = TRUE
    BY <1>3, <2>4
  <2> HIDE DEF ok
  <2> QED
    BY <1>1, <2>2, <2>5, GotType, Topics DEF ReadInv
<1>4. CASE cmd = "OFF"
  <2>1. Text(CmdText(cmd), 3) /\ Fits(CmdText(cmd), 3, 30, lastFan, reach)
    BY <1>4, CmdTexts DEF Fits
  <2>2. b \in [Window -> Byte] /\ Clean(b, lastFan, reach)
    BY <1>2, <2>1, Placed, ReceivedClean DEF ReadInv
  <2>3. b[31] = "F"
    <3>1. CmdText(cmd)[2] = "F"
      BY <1>4, CmdTexts
    <3>2. 1 \in 0 .. 3 - 1 /\ 3 \in Nat /\ 26 \in Nat
      OBVIOUS
    <3>3. b[30 + 1] = CmdText(cmd)[1 + 1]
      BY <1>2, <2>1, <3>2, ReadBack DEF ReadInv
    <3> QED
      BY <3>1, <3>3
  <2> HIDE DEF b
  <2>4. HasOn(b, 30) => lastFan = "ON"
    <3> SUFFICES ASSUME NEW k \in 30 .. Last - 1, b[k] = "O", b[k + 1] = "N"
                 PROVE  lastFan = "ON"
      BY DEF HasOn
    <3>1. k \in Window
      BY <1>2
    <3>2. k = 33
      BY <1>2, <2>2, <2>3, <3>1 DEF Clean
    <3> QED
      BY <2>2, <3>2 DEF Clean
  <2>5. ok \in BOOLEAN /\ (~ok => lastFan = "ON")
    BY <1>4, <2>4
  <2> HIDE DEF ok
  <2> QED
    BY <1>1, <1>4, <2>2, <2>5, GotType, Topics DEF ReadInv
<1> QED
  BY <1>3, <1>4 DEF Cmd

LEMMA LargestOf ==
  ASSUME NEW m \in Nat, NEW n \in Int
  PROVE  Largest(m, n) \in Nat /\ m <= Largest(m, n) /\ n <= Largest(m, n)
BY DEF Largest

LEMMA NumberFits ==
  ASSUME NEW n \in Nat, NEW at \in Nat, NEW r \in Nat, at + n <= 35 + r, NEW fan
  PROVE  Text(Number(n), n) /\ Fits(Number(n), n, at, fan, r)
<1>1. Text(Number(n), n) /\ \A k \in 1 .. n : Number(n)[k] = "digit"
  BY Numbers
<1>2. \A k \in 1 .. n : at + k - 1 < 35 + r
  OBVIOUS
<1> HIDE DEF Number
<1> QED
  BY <1>1, <1>2 DEF Fits

\* The digits of a number are where its payload goes.
LEMMA NumberThere ==
  ASSUME NEW length \in Nat, NEW n \in Nat, buf \in [Window -> Byte],
         Data(length) >= 30, Data(length) + n <= Last + 1
  PROVE  \A j \in Data(length) .. Data(length) + n - 1 :
           j \in Window /\ Received(length, Number(n))[j] = "digit"
<1>1. Data(length) \in Nat /\ Window = 30 .. Last /\ Last \in Nat
  BY Places, WithinWindow DEF Data
<1>2. Text(Number(n), n) /\ \A k \in 1 .. n : Number(n)[k] = "digit"
  BY Numbers
<1> TAKE j \in Data(length) .. Data(length) + n - 1
<1>3. /\ j \in Window /\ ~(j < Data(length)) /\ j < Data(length) + n
      /\ j - Data(length) + 1 \in 1 .. n
  BY <1>1
<1>4. Received(length, Number(n))[j] = Number(n)[j - Data(length) + 1]
  BY <1>2, <1>3, Placed
<1> QED
  BY <1>2, <1>3, <1>4

\* A trip point is obeyed, unless an earlier message had more digits.
LEMMA FanSetTempOnStep ==
  ASSUME ReadInv, NEW n \in DigitCount, FanSetTempOn(n)
  PROVE  /\ ReadInv' /\ last'.topic = "fan_temp_on"
         /\ ~last'.obeyed => n < reach
<1> DEFINE b  == Received(31, Number(n))
           ok == Digits(b, 35) = n
<1>1. Got("fan_temp_on", b, ok) /\ lastFan' = lastFan /\ reach' = Largest(reach, n)
  BY Places DEF FanSetTempOn, TopicLength
<1>2. /\ Data(31) = 35 /\ Last \in Nat /\ Last > 42 /\ Window = 30 .. Last
      /\ n \in Nat /\ n > 0 /\ 35 + n <= Last
  BY Places, WithinWindow DEF Data
<1>3. reach' \in Nat /\ reach <= reach' /\ n <= reach'
  BY <1>1, <1>2, LargestOf DEF ReadInv
<1>4. Text(Number(n), n) /\ Fits(Number(n), n, 35, lastFan, reach')
  BY <1>2, <1>3, NumberFits
<1>5. b \in [Window -> Byte] /\ Clean(b, lastFan, reach')
  BY <1>2, <1>3, <1>4, Placed, ReceivedClean DEF ReadInv
<1>6. ok \in BOOLEAN
  OBVIOUS
<1>7. ~ok => n < reach
  <2>1. \A j \in 35 .. 35 + n - 1 : b[j] = "digit"
    BY <1>2, NumberThere DEF ReadInv
  <2>2. b[35 + n] = buf[35 + n]
    <3>1. 35 + n \in Window /\ ~(35 + n < 35) /\ ~(35 + n < 35 + n)
      BY <1>2
    <3> QED
      BY <1>2, <1>4, <3>1, Placed DEF ReadInv
  <2> HIDE DEF b
  <2>3. b[35 + n] # "digit" => ok
    BY <1>2, <2>1, DigitsRead
  <2>4. 35 + n \in Window /\ 35 + n >= 35
    BY <1>2
  <2>5. buf[35 + n] = "digit" => 35 + n < 35 + reach
    BY <2>4 DEF ReadInv, Clean
  <2> QED
    BY <1>2, <2>2, <2>3, <2>5 DEF ReadInv
<1> HIDE DEF b, ok
<1> QED
  BY <1>1, <1>3, <1>5, <1>6, <1>7, GotType, Topics DEF ReadInv

\* A number that is terminated is read as sent.
LEMMA TerminatedNumber ==
  ASSUME ReadInv, NEW length \in Nat, NEW n \in Nat, n > 0, NEW r \in Nat, reach <= r,
         Data(length) >= 30, Data(length) + n <= Last, Data(length) + n <= 35 + r
  PROVE  /\ Terminated(length, Number(n)) \in [Window -> Byte]
         /\ Clean(Terminated(length, Number(n)), lastFan, r)
         /\ Digits(Terminated(length, Number(n)), Data(length)) = n
<1> DEFINE at == Data(length)
           b  == Received(length, Number(n))
           z  == Terminated(length, Number(n))
<1>1. at \in Nat /\ Window = 30 .. Last /\ Last \in Nat
  BY Places, WithinWindow DEF Data
<1>2. Text(Number(n), n) /\ Fits(Number(n), n, at, lastFan, r)
  BY <1>1, NumberFits
<1>3. b \in [Window -> Byte] /\ Clean(b, lastFan, r)
  BY <1>2, Placed, ReceivedClean DEF ReadInv
<1>4. z \in [Window -> Byte] /\ Clean(z, lastFan, r)
  BY <1>3, TerminatedClean
<1>5. \A j \in at .. at + n - 1 : j \in Window /\ b[j] = "digit"
  BY <1>1, NumberThere DEF ReadInv
<1>6. z = [b EXCEPT ![at + n] = "NUL"]
  BY <1>2 DEF Terminated, Text
<1> HIDE DEF at, b, z
<1>7. z[at + n] # "digit"
  <2>1. at + n \in Window
    BY <1>1 DEF at
  <2> QED
    BY <1>3, <1>6, <2>1
<1>8. \A j \in at .. at + n - 1 : z[j] = "digit"
  <2> TAKE j \in at .. at + n - 1
  <2>1. j # at + n
    BY <1>1
  <2> QED
    BY <1>3, <1>5, <1>6, <2>1
<1>9. Digits(z, at) = n
  BY <1>1, <1>7, <1>8, DigitsRead DEF at
<1> QED
  BY <1>4, <1>9 DEF at, z

\* A duration and a set of days are read as sent.
LEMMA DripSetNumberStep ==
  ASSUME ReadInv, NEW topic \in {"duration", "days"}, NEW n \in DigitCount,
         DripSetNumber(topic, n)
  PROVE  ReadInv' /\ last'.obeyed
<1> DEFINE length == TopicLength[topic]
           b  == Terminated(length, Number(n))
           ok == Digits(b, Data(length)) = n
<1>1. /\ Got(topic, b, ok) /\ lastFan' = lastFan
      /\ reach' = Largest(reach, Data(length) + n - 35)
  BY Places DEF DripSetNumber
<1>2. /\ length \in Nat /\ Data(length) \in {30, 34}
      /\ n \in Nat /\ n > 0 /\ 35 + n <= Last /\ Last \in Nat
  BY Places, WithinWindow DEF TopicLength
<1> HIDE DEF length
<1>3. reach' \in Nat /\ reach <= reach' /\ Data(length) + n <= 35 + reach'
  <2>1. Data(length) + n - 35 \in Int
    BY <1>2
  <2>2. reach' \in Nat /\ reach <= reach' /\ Data(length) + n - 35 <= reach'
    BY <1>1, <2>1, LargestOf DEF ReadInv
  <2> QED
    BY <1>2, <2>2
<1>4. Data(length) >= 30 /\ Data(length) + n <= Last
  BY <1>2
<1>5. b \in [Window -> Byte] /\ Clean(b, lastFan, reach') /\ ok = TRUE
  BY <1>2, <1>3, <1>4, TerminatedNumber
<1> HIDE DEF b, ok
<1> QED
  BY <1>1, <1>3, <1>5, GotType, Topics DEF ReadInv

LEMMA TimeFits ==
  ASSUME NEW t \in Time12, NEW r \in Nat, HourDigits(t) + 3 <= r, NEW fan
  PROVE  Fits(TimeText(t), HourDigits(t) + 5, 35, fan, r)
<1>1. /\ HourDigits(t) \in {1, 2}
      /\ \A k \in 1 .. HourDigits(t) + 5 :
           TimeText(t)[k] =
             IF k = HourDigits(t) + 1 \/ k > HourDigits(t) + 3 THEN "other" ELSE "digit"
  BY TimeTexts
<1> SUFFICES ASSUME NEW k \in 1 .. HourDigits(t) + 5
             PROVE  /\ TimeText(t)[k] # "O" /\ TimeText(t)[k] # "N"
                    /\ TimeText(t)[k] = "digit" => 35 + k - 1 < 35 + r
  BY DEF Fits
<1> QED
  BY <1>1

\* A start time is read as sent.
LEMMA DripSetStartStep ==
  ASSUME ReadInv, NEW d \in Drip, NEW t \in StartTime, DripSetStart(d, t)
  PROVE  ReadInv' /\ last'.obeyed
<1> DEFINE h  == HourDigits(t)
           b  == Received(31, TimeText(t))
           z  == Terminated(31, TimeText(t))
           ok == Digits(z, 35) = h /\ Digits(z, 35 + h + 1) = 2
<1>1. /\ Got("start", z, ok) /\ lastFan' = lastFan
      /\ reach' = Largest(reach, Len(TimeText(t)) - 2)
  BY Places DEF DripSetStart, TopicLength
<1>2. Data(31) = 35 /\ Last \in Nat /\ Last > 42 /\ Window = 30 .. Last
  BY Places, WithinWindow DEF Data
<1>3. /\ h \in {1, 2} /\ Text(TimeText(t), h + 5)
      /\ \A k \in 1 .. h + 5 :
           TimeText(t)[k] = IF k = h + 1 \/ k > h + 3 THEN "other" ELSE "digit"
  BY TimeTexts, MqttAssumption
<1>4. Len(TimeText(t)) = h + 5
  BY <1>3 DEF Text
<1> HIDE DEF h
<1>5. reach' \in Nat /\ reach <= reach' /\ h + 3 <= reach'
  <2>1. h + 3 \in Int /\ reach' = Largest(reach, h + 3)
    BY <1>1, <1>3, <1>4
  <2> QED
    BY <2>1, LargestOf DEF ReadInv
<1>6. Fits(TimeText(t), h + 5, 35, lastFan, reach')
  BY <1>5, TimeFits, MqttAssumption DEF h
<1>7. h + 5 \in Nat /\ 31 \in Nat
  BY <1>3
<1>8. b \in [Window -> Byte] /\ Clean(b, lastFan, reach')
  <2> DEFINE n == h + 5
  <2>1. n \in Nat /\ 31 \in Nat
    BY <1>7
  <2>2. Text(TimeText(t), n) /\ Fits(TimeText(t), n, Data(31), lastFan, reach')
    BY <1>2, <1>3, <1>6
  <2> HIDE DEF n
  <2>3. b \in [Window -> Byte]
    BY <2>1, <2>2, Placed DEF ReadInv
  <2>4. Clean(b, lastFan, reach')
    BY <1>5, <2>1, <2>2, ReceivedClean DEF ReadInv
  <2> QED
    BY <2>3, <2>4
<1>9. z \in [Window -> Byte] /\ Clean(z, lastFan, reach')
  BY <1>7, <1>8, TerminatedClean
<1>10. z = [b EXCEPT ![35 + h + 5] = "NUL"]
  BY <1>2, <1>3, <1>4 DEF Terminated
<1>11. \A i \in 35 .. 35 + h + 4 :
         z[i] = IF i = 35 + h \/ i > 35 + h + 2 THEN "other" ELSE "digit"
  <2> TAKE i \in 35 .. 35 + h + 4
  <2>1. /\ i \in Window /\ i # 35 + h + 5 /\ ~(i < 35) /\ i < 35 + (h + 5)
        /\ i - 35 + 1 \in 1 .. h + 5
    BY <1>2, <1>3
  <2>2. z[i] = b[i]
    BY <1>8, <1>10, <2>1
  <2>3. b[i] = TimeText(t)[i - 35 + 1]
    BY <1>2, <1>3, <1>7, <2>1, Placed DEF ReadInv
  <2>4. /\ (i - 35 + 1 = h + 1) <=> (i = 35 + h)
        /\ (i - 35 + 1 > h + 3) <=> (i > 35 + h + 2)
    BY <1>3
  <2> HIDE DEF b, z
  <2> QED
    BY <1>3, <2>1, <2>2, <2>3, <2>4
<1> HIDE DEF b, z
<1>12. Digits(z, 35) = h
  <2>1. \A j \in 35 .. 35 + h - 1 : z[j] = "digit"
    BY <1>3, <1>11
  <2>2. z[35 + h] # "digit"
    BY <1>3, <1>11
  <2>3. h \in Nat /\ h > 0 /\ 35 + h <= Last + 1 /\ 35 \in Nat
    BY <1>2, <1>3
  <2> QED
    BY <2>1, <2>2, <2>3, DigitsRead
<1>13. Digits(z, 35 + h + 1) = 2
  <2> DEFINE i == 35 + h + 1
  <2>1. \A j \in i .. i + 2 - 1 : z[j] = "digit"
    BY <1>3, <1>11
  <2>2. z[i + 2] # "digit"
    BY <1>3, <1>11
  <2>3. i \in Nat /\ 2 \in Nat /\ 2 > 0 /\ i + 2 <= Last + 1
    BY <1>2, <1>3
  <2> HIDE DEF i
  <2>4. Digits(z, i) = 2
    BY <2>1, <2>2, <2>3, DigitsRead
  <2> QED
    BY <2>4 DEF i
<1>14. ok = TRUE
  BY <1>12, <1>13
<1> HIDE DEF ok
<1> QED
  BY <1>1, <1>5, <1>9, <1>14, GotType, Topics DEF ReadInv

\* A request leaves the buffer clean: the topic is all there is to it.
LEMMA RequestStep ==
  ASSUME ReadInv, NEW length \in Nat,
         Got("request", Received(length, <<>>), TRUE), UNCHANGED <<lastFan, reach>>
  PROVE  ReadInv' /\ last'.obeyed
<1> DEFINE b == Received(length, <<>>)
<1>1. Text(<<>>, 0) /\ Fits(<<>>, 0, Data(length), lastFan, reach)
  BY DEF Text, Fits
<1>2. b \in [Window -> Byte] /\ Clean(b, lastFan, reach)
  <2> DEFINE none == <<>>
  <2>1. Text(none, 0) /\ Fits(none, 0, Data(length), lastFan, reach) /\ 0 \in Nat
    BY <1>1
  <2> HIDE DEF none
  <2>2. reach \in Nat /\ reach <= reach
    BY DEF ReadInv
  <2>3. /\ Received(length, none) \in [Window -> Byte]
        /\ Clean(Received(length, none), lastFan, reach)
    BY <2>1, <2>2, Placed, ReceivedClean DEF ReadInv
  <2> QED
    BY <2>3 DEF none
<1> HIDE DEF b
<1>3. Got("request", b, TRUE)
  BY DEF b
<1> QED
  BY <1>2, <1>3, GotType DEF ReadInv

-----------------------------------------------------------------------------
(* All messages                                                            *)

LEMMA ReadInit == Init => ReadInv
<1> SUFFICES ASSUME Init PROVE ReadInv
  OBVIOUS
<1>1. PICK byte \in {"NUL", "other"} : buf = [i \in Window |-> byte]
  BY DEF Init
<1>2. buf \in [Window -> Byte] /\ \A i \in Window : buf[i] = byte
  BY <1>1 DEF Byte
<1>3. 34 \in Window
  BY Places, WithinWindow
<1>4. Clean(buf, lastFan, reach)
  BY <1>2, <1>3 DEF Clean
<1>5. last \in [topic : DOMAIN TopicLength \cup {"request"}, obeyed : BOOLEAN]
  BY DEF Init
<1> QED
  BY <1>2, <1>4, <1>5 DEF ReadInv, Init, Cmd

\* What a message may do: it is obeyed, or is one of the two that may not be.
LEMMA ReadStep ==
  ASSUME ReadInv, Next
  PROVE  /\ ReadInv'
         /\ \/ last'.obeyed
            \/ /\ last'.topic = "ctrl"
               /\ DripCommand("OFF") /\ lastFan = "ON"
            \/ /\ last'.topic = "fan_temp_on"
               /\ \E n \in DigitCount : FanSetTempOn(n) /\ n < reach
<1>1. ASSUME NEW cmd \in Cmd, FanCommand(cmd) PROVE ReadInv' /\ last'.obeyed
  BY <1>1, FanCommandStep
<1>2. ASSUME NEW cmd \in Cmd, DripCommand(cmd)
      PROVE  /\ ReadInv' /\ last'.topic = "ctrl"
             /\ ~last'.obeyed => DripCommand("OFF") /\ lastFan = "ON"
  BY <1>2, DripCommandStep
<1>3. ASSUME NEW n \in DigitCount, FanSetTempOn(n)
      PROVE  /\ ReadInv' /\ last'.topic = "fan_temp_on"
             /\ ~last'.obeyed => n < reach
  BY <1>3, FanSetTempOnStep
<1>4. ASSUME NEW n \in DigitCount, NEW topic \in {"duration", "days"},
             DripSetNumber(topic, n)
      PROVE  ReadInv' /\ last'.obeyed
  BY <1>4, DripSetNumberStep
<1>5. ASSUME NEW d \in Drip, NEW t \in StartTime, DripSetStart(d, t)
      PROVE  ReadInv' /\ last'.obeyed
  BY <1>5, DripSetStartStep
<1>6. ASSUME NEW d \in Drip, DripRequestStart(d) PROVE ReadInv' /\ last'.obeyed
  BY <1>6, RequestStep DEF DripRequestStart, StartRequestLength
<1>7. ASSUME NEW length \in RequestLength, Request(length)
      PROVE  ReadInv' /\ last'.obeyed
  BY <1>7, RequestStep DEF Request, RequestLength
<1> QED
  BY <1>1, <1>2, <1>3, <1>4, <1>5, <1>6, <1>7 DEF Next

LEMMA ReadInvStep == ReadInv /\ [Next]_vars => ReadInv'
<1>1. ASSUME ReadInv, UNCHANGED vars PROVE ReadInv'
  BY <1>1 DEF ReadInv, Clean, vars
<1> QED
  BY <1>1, ReadStep

\* The buffer holds bytes, and every answer is one time: for every buffer,
\* every set of drips and of times and numbers of any length.
THEOREM MqttTypes == Spec => []TypeOK
<1>1. ReadInv /\ Stored => TypeOK
  <2> SUFFICES ASSUME ReadInv, Stored PROVE TypeOK
    OBVIOUS
  <2>1. ASSUME NEW d \in Drip PROVE Cardinality(reply[d]) <= 1
    <3>1. CASE reply[d] = {}
      BY <3>1, FS_EmptySet
    <3>2. CASE reply[d] = {Convert_Time_To_String(start[d])}
      BY <3>2, FS_Singleton
    <3> QED
      BY <3>1, <3>2 DEF Stored
  <2>2. ASSUME NEW d \in Drip PROVE sent[d] = {} \/ \E t \in StartTime : sent[d] = {t}
    BY DEF Stored
  <2>3. start \in [Drip -> Nat]
    BY DEF Stored
  <2> QED
    BY <2>1, <2>2, <2>3 DEF ReadInv, TypeOK
<1> QED
  BY <1>1, ReadInit, ReadInvStep, StoredInit, StoredStep, PTL DEF Spec

\* Fan commands and drip settings mean what they say, whatever went through
\* the buffer before them.
THEOREM FanAndSettingsObeyedAlways == Spec => []FanAndSettingsObeyed
<1> DEFINE Inv == ReadInv /\ FanAndSettingsObeyed
<1>1. Init => Inv
  BY ReadInit DEF Init, FanAndSettingsObeyed
<1>2. ASSUME Inv, Next PROVE Inv'
  BY <1>2, ReadStep DEF FanAndSettingsObeyed
<1>3. ASSUME Inv, UNCHANGED vars PROVE Inv'
  BY <1>3, ReadInvStep DEF FanAndSettingsObeyed, vars
<1>4. Inv /\ [Next]_vars => Inv'
  BY <1>2, <1>3
<1> QED
  BY <1>1, <1>4, PTL DEF Spec

\* Only a drip command OFF after a fan command ON, and a trip point after a
\* longer number, can be misread.
THEOREM OnlyKnownMisreadingsAlways == Spec => OnlyKnownMisreadings
<1> DEFINE Known ==
      ~last'.obeyed =>
        \/ DripCommand("OFF") /\ lastFan = "ON"
        \/ \E n \in DigitCount : FanSetTempOn(n) /\ n < reach
<1>1. ReadInv /\ [Next]_vars => [Known]_vars
  BY ReadStep
<1> QED
  BY <1>1, ReadInit, ReadInvStep, PTL DEF Spec, OnlyKnownMisreadings

=============================================================================
