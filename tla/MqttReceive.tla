----------------------------- MODULE MqttReceive -----------------------------
(***************************************************************************)
(* How the MQTT event handler reads the messages it gets.  The client      *)
(* (esp-mqtt) puts every message at the start of one buffer it never       *)
(* clears: 4 bytes of header, the topic and the payload (event->data),     *)
(* without a terminator.  The handlers of the drip settings write one at   *)
(* data[data_len]; those of the fan and of the drip commands do not, so    *)
(* that strstr and atoi read on into what earlier messages left behind.    *)
(***************************************************************************)
EXTENDS TimeString, Sequences, FiniteSets

CONSTANTS
  Drip,         \* the drip systems
  StartTime,    \* the start times users set
  DigitCount,   \* the lengths of the numbers users send
  Last          \* the last byte of the buffer that is looked at

\* The lengths of the topics that carry a payload; those of the requests.
TopicLength ==
  [fan_state |-> 29, fan_temp_on |-> 31, ctrl |-> 26,
   start |-> 31, duration |-> 30, days |-> 26]

RequestLength == {24, 28, 29, 30, 31, 32, 34, 35, 36}
StartRequestLength == 35

\* The first byte of the payload.
Data(length) == 4 + length

\* Payloads and their terminators are within the bytes that are looked at.
ASSUME MqttAssumption ==
  /\ StartTime \subseteq Time12
  /\ DigitCount \subseteq Nat \ {0}
  /\ Last \in Nat /\ Last > 42
  /\ \A n \in DigitCount : Data(TopicLength.fan_temp_on) + n <= Last

\* The bytes a payload can be in.
Window == Data(26) .. Last

\* Bytes are told apart as far as strstr(.., "ON"), strstr(.., "OFF") and
\* atoi do.
Byte == {"O", "N", "F", "digit", "other", "NUL"}

Cmd == {"ON", "OFF"}

VARIABLES
  buf,      \* the client's buffer
  last,     \* the last message: its topic, and whether it was read as sent
  lastFan,  \* history: the last fan command since power-up
  reach,    \* history: how many digits of earlier messages there may be
            \* where the digits of a trip point go
  start,    \* start[d]: greenHouseInfo.dripInfo[d-1].start_time
  sent,     \* sent[d]: the set of the one start time last sent, or {}
  reply     \* reply[d]: likewise, the answer to the last request for it

vars == <<buf, last, lastFan, reach, start, sent, reply>>

TypeOK ==
  /\ buf \in [Window -> Byte]
  /\ last \in [topic : DOMAIN TopicLength \cup {"request"}, obeyed : BOOLEAN]
  /\ lastFan \in Cmd
  /\ reach \in Nat
  /\ start \in [Drip -> Nat]
  /\ \A d \in Drip : sent[d] = {} \/ \E t \in StartTime : sent[d] = {t}
  /\ \A d \in Drip : Cardinality(reply[d]) <= 1

-----------------------------------------------------------------------------
(* The client (esp-mqtt): a message is read into its receive buffer.       *)
Received(length, payload) ==
  [i \in Window |->
     IF i < Data(length) THEN "other"
     ELSE IF i < Data(length) + Len(payload) THEN payload[i - Data(length) + 1]
     ELSE buf[i]]

(* What the C library finds at byte i of buffer b.                         *)

\* Byte k belongs to the string that begins at byte i.
InString(b, i, k) == \A j \in i .. k : b[j] # "NUL"

\* strstr(data, "ON") # NULL
HasOn(b, i) ==
  \E k \in i .. Last - 1 : InString(b, i, k) /\ b[k] = "O" /\ b[k + 1] = "N"

\* strstr(data, "OFF") # NULL
HasOff(b, i) ==
  \E k \in i .. Last - 2 :
    InString(b, i, k) /\ b[k] = "O" /\ b[k + 1] = "F" /\ b[k + 2] = "F"

\* The number of digits atoi reads.
Digits(b, i) ==
  Cardinality({k \in i .. Last : \A j \in i .. k : b[j] = "digit"})

-----------------------------------------------------------------------------
(* The handler of MQTT_EVENT_DATA, by topic                                *)

CmdText(cmd) == IF cmd = "ON" THEN <<"O", "N">> ELSE <<"O", "F", "F">>

Number(n) == [i \in 1 .. n |-> "digit"]

Largest(m, n) == IF m < n THEN n ELSE m

Got(topic, b, ok) ==
  /\ buf' = b
  /\ last' = [topic |-> topic, obeyed |-> ok]

\* Control_Fan: ON if it is found, OFF if only that is, else nothing.
FanCommand(cmd) ==
  LET at == Data(TopicLength.fan_state)
      b  == Received(TopicLength.fan_state, CmdText(cmd))
  IN /\ Got("fan_state", b, IF HasOn(b, at) THEN cmd = "ON"
                            ELSE HasOff(b, at) /\ cmd = "OFF")
     /\ lastFan' = cmd
     /\ UNCHANGED <<reach, start, sent, reply>>

\* Control_Fan_Set_Temp_On: atoi without a terminator.
FanSetTempOn(n) ==
  LET at == Data(TopicLength.fan_temp_on)
      b  == Received(TopicLength.fan_temp_on, Number(n))
  IN /\ Got("fan_temp_on", b, Digits(b, at) = n)
     /\ reach' = Largest(reach, n)
     /\ UNCHANGED <<lastFan, start, sent, reply>>

\* Mutant: the drip goes on if OFF is not found.
DripCommandOffFirst(cmd) ==
  LET at == Data(TopicLength.ctrl)
      b  == Received(TopicLength.ctrl, CmdText(cmd))
  IN /\ Got("ctrl", b, cmd = IF HasOff(b, at) THEN "OFF" ELSE "ON")
     /\ UNCHANGED <<lastFan, reach, start, sent, reply>>

\* Control_Drip: ON if it is found, else OFF.
DripCommand(cmd) ==
  LET at == Data(TopicLength.ctrl)
      b  == Received(TopicLength.ctrl, CmdText(cmd))
  IN /\ Got("ctrl", b, cmd = IF HasOn(b, at) THEN "ON" ELSE "OFF")
     /\ UNCHANGED <<lastFan, reach, start, sent, reply>>

\* Mutant: the digit 0 in place of the byte 0.
EndsInDigit(length, payload) ==
  [Received(length, payload) EXCEPT ![Data(length) + Len(payload)] = "digit"]

\* event->data[event->data_len] = 0x00
Terminated(length, payload) ==
  [Received(length, payload) EXCEPT ![Data(length) + Len(payload)] = "NUL"]

\* Control_Drip_Duration_Time and Control_Drip_Days: atoi.
DripSetNumber(topic, n) ==
  LET b == Terminated(TopicLength[topic], Number(n))
  IN /\ Got(topic, b, Digits(b, Data(TopicLength[topic])) = n)
     /\ reach' = Largest(reach, Data(TopicLength[topic]) + n
                                   - Data(TopicLength.fan_temp_on))
     /\ UNCHANGED <<lastFan, start, sent, reply>>

HourDigits(t) == IF t.hour > 9 THEN 2 ELSE 1

TimeText(t) ==
  Number(HourDigits(t)) \o <<"other", "digit", "digit", "other", "other">>

\* Control_Drip_Start_Time: atoi at the start and behind the colon.
DripSetStart(d, t) ==
  /\ LET at == Data(TopicLength.start)
         b  == Terminated(TopicLength.start, TimeText(t))
     IN Got("start", b, /\ Digits(b, at) = HourDigits(t)
                        /\ Digits(b, at + HourDigits(t) + 1) = 2)
  /\ reach' = Largest(reach, Len(TimeText(t)) - 2)
  /\ start' = [start EXCEPT ![d] = ParseTime(t)]
  /\ sent' = [sent EXCEPT ![d] = {t}]
  /\ reply' = [reply EXCEPT ![d] = {}]
  /\ UNCHANGED lastFan

\* The topic of a request goes through the buffer too.
DripRequestStart(d) ==
  /\ Got("request", Received(StartRequestLength, <<>>), TRUE)
  /\ reply' = [reply EXCEPT ![d] = {Convert_Time_To_String(start[d])}]
  /\ UNCHANGED <<lastFan, reach, start, sent>>

\* Any other request: nothing here changes but the buffer.
Request(length) ==
  /\ Got("request", Received(length, <<>>), TRUE)
  /\ UNCHANGED <<lastFan, reach, start, sent, reply>>

-----------------------------------------------------------------------------
\* A buffer fresh from malloc, in which neither commands nor digits are (were
\* they, the first messages could be misread as well); the start times are
\* the defaults of Init_Settings, which count seconds and are taken for minutes.
Init ==
  /\ \E byte \in {"NUL", "other"} : buf = [i \in Window |-> byte]
  /\ last = [topic |-> "request", obeyed |-> TRUE]
  /\ lastFan = "OFF"
  /\ reach = 0
  /\ start = [d \in Drip |-> 60 * 60]
  /\ sent = [d \in Drip |-> {}]
  /\ reply = [d \in Drip |-> {}]

Next ==
  \/ \E cmd \in Cmd : FanCommand(cmd) \/ DripCommand(cmd)
  \/ \E n \in DigitCount : FanSetTempOn(n)
  \/ \E n \in DigitCount, topic \in {"duration", "days"} : DripSetNumber(topic, n)
  \/ \E d \in Drip, t \in StartTime : DripSetStart(d, t)
  \/ \E d \in Drip : DripRequestStart(d)
  \/ \E length \in RequestLength : Request(length)

Spec == Init /\ [][Next]_vars

-----------------------------------------------------------------------------
(* Properties                                                              *)

\* A fan command and a drip setting mean what they say, whatever messages
\* went through the buffer before: the settings because the handler
\* terminates them, the fan commands because nothing that is written behind
\* their place can be taken for a command.
FanAndSettingsObeyed ==
  last.topic \in {"fan_state", "start", "duration", "days"} => last.obeyed

\* A drip command is misread only if it is OFF and the last fan command was
\* ON (which then still stands behind it); a trip point only if an earlier
\* number or time had more digits.
OnlyKnownMisreadings ==
  [][~last'.obeyed =>
       \/ DripCommand("OFF") /\ lastFan = "ON"
       \/ \E n \in DigitCount : FanSetTempOn(n) /\ n < reach]_vars

\* "The controls are performed via MQTT" (README.md): a trip point or a drip
\* command, like every message, does what it says.
MessagesObeyed == last.obeyed

\* A user who asks for the start time of a drip is told the one last set.
ShownAsSet ==
  \A d \in Drip : reply[d] = {} \/ sent[d] = {} \/ reply[d] = sent[d]

\* Every start time is stored in minutes, not in the "seconds since midnight"
\* green_house.h (line 80) and the header of Convert_Time_To_String name: the
\* minutes from midnight that update_drip compares with hour * 60 + min, but
\* twelve hours late in the hours that begin with 12, whose hour the parser
\* takes as it stands.  12:30PM becomes 24:30, which no clock shows, and
\* 12:30AM half past noon.
StoredInMinutes ==
  \A d \in Drip : \A t \in sent[d] :
    start[d] = MinutesFromMidnight(t) + (IF t.hour = 12 THEN 12 * 60 ELSE 0)

=============================================================================
