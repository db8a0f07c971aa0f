------------------------------ MODULE Settings ------------------------------
(***************************************************************************)
(* The settings of the green house firmware and their copy in flash:       *)
(* Init_Settings of init.c, the setters of control.c, NVS_Read and         *)
(* NVS_Write of nvs.c, and the restarts in between.                        *)
(*                                                                         *)
(* Every setting is an int in greenHouseInfo and a key of the NVS          *)
(* namespace "storage".  At boot Init_Settings goes through the keys in    *)
(* turn; a key it cannot read it writes to flash with a default, and it    *)
(* assigns a default to a field of greenHouseInfo.  Which field it reads   *)
(* into, which one it assigns to and with which value is transcribed in    *)
(* Table, line by line.  The MQTT setters change the field first and then  *)
(* write the key; a restart may come between the two.                      *)
(***************************************************************************)
EXTENDS Integers, Sequences

CONSTANTS
  Settable,    \* keys that messages set (the drip keys, or some of them)
  UserVal,     \* values that messages set
  MaxFaults    \* bound: how many NVS calls may fail

Start(d) == <<"START", d>>
Dur(d)   == <<"DUR", d>>
Days(d)  == <<"DAYS", d>>

\* Keys and fields have the same names: <<"START", 1>> is the key
\* DRIP_1_START and the field dripInfo[0].start_time.
DripKey == {"START", "DUR", "DAYS"} \X (1 .. 3)
FanOn  == <<"FAN_TEMP_ON", 0>>
FanOff == <<"FAN_TEMP_OFF", 0>>
Key == DripKey \cup {FanOn, FanOff}

NoKey == <<"NONE", 0>>
Absent == -1       \* a key that is not in flash

ASSUME SettingsAssumption ==
  /\ Settable \subseteq DripKey
  /\ UserVal \subseteq Nat
  /\ MaxFaults \in Nat

-----------------------------------------------------------------------------
(* Init_Settings, one entry per key: the field NVS_Read reads into, the    *)
(* default NVS_Write stores when that fails, the field assigned then, and  *)
(* the value assigned.                                                     *)

Entry(key, into, stored, field, assigned) ==
  [key |-> key, into |-> into, stored |-> stored, field |-> field,
   assigned |-> assigned]

\* Mutant: the duration of drip 2 is read into drip 1.
TableSwapped ==
  << Entry(FanOn,    FanOn,    95,    FanOn,    95),
     Entry(FanOff,   FanOn,    90,    FanOff,   90),
     Entry(Start(1), Start(1), 3600,  Start(1), 3600),
     Entry(Start(2), Start(2), 7200,  Start(2), 7200),
     Entry(Start(3), Start(3), 10800, Start(1), 10800),
     Entry(Dur(1),   Dur(1),   300,   Start(1), 300),
     Entry(Dur(2),   Dur(1),   3600,  Start(2), 300),
     Entry(Dur(3),   Dur(3),   10800, Start(3), 300),
     Entry(Days(1),  Days(1),  0,     Days(1),  0),
     Entry(Days(2),  Days(2),  0,     Days(2),  0),
     Entry(Days(3),  Days(3),  0,     Days(3),  0) >>

Table ==
  << Entry(FanOn,    FanOn,    95,    FanOn,    95),
     Entry(FanOff,   FanOn,    90,    FanOff,   90),
     Entry(Start(1), Start(1), 3600,  Start(1), 3600),
     Entry(Start(2), Start(2), 7200,  Start(2), 7200),
     Entry(Start(3), Start(3), 10800, Start(1), 10800),
     Entry(Dur(1),   Dur(1),   300,   Start(1), 300),
     Entry(Dur(2),   Dur(2),   3600,  Start(2), 300),
     Entry(Dur(3),   Dur(3),   10800, Start(3), 300),
     Entry(Days(1),  Days(1),  0,     Days(1),  0),
     Entry(Days(2),  Days(2),  0,     Days(2),  0),
     Entry(Days(3),  Days(3),  0,     Days(3),  0) >>

Val == UserVal \cup {Table[i].stored : i \in 1 .. Len(Table)}
         \cup {Table[i].assigned : i \in 1 .. Len(Table)} \cup {0}

VARIABLES
  ram,       \* ram[k]: the field of greenHouseInfo
  flash,     \* flash[k]: the key in NVS, or Absent
  step,      \* Init_Settings is at Table[step]; beyond the end when done
  pending,   \* the key the MQTT task has yet to write, or NoKey
  stored,    \* history: stored[k], the last value a setter wrote to flash,
             \* Absent if none did or the flash was erased
  allRead,   \* history: this boot has read every key so far from flash
  hurt,      \* history: keys on which an NVS call has failed
  faults     \* number of NVS calls that have failed

vars == <<ram, flash, step, pending, stored, allRead, hurt, faults>>

TypeOK ==
  /\ ram \in [Key -> Val]
  /\ flash \in [Key -> Val \cup {Absent}]
  /\ step \in 1 .. Len(Table) + 1
  /\ pending \in Key \cup {NoKey}
  /\ stored \in [Key -> UserVal \cup {Absent}]
  /\ allRead \in BOOLEAN
  /\ hurt \subseteq Key
  /\ faults \in 0 .. MaxFaults

Ready == step > Len(Table)

-----------------------------------------------------------------------------
(* NVS.  NVS_Write reports nothing to its caller.  When nvs_open fails it  *)
(* goes on with an uninitialised handle, so the write is lost, or it is    *)
(* done through whatever handle that happens to be.                        *)

\* Mutant: only a byte of the value is stored.
NVS_WriteByte(k, v) == flash' = [flash EXCEPT ![k] = v % 256]

NVS_Write(k, v) == flash' = [flash EXCEPT ![k] = v]

\* An NVS call for key k fails, though the key may be there.
Fail(k) ==
  /\ faults < MaxFaults
  /\ faults' = faults + 1
  /\ hurt' = hurt \cup {k}

NoFail == UNCHANGED <<faults, hurt>>

-----------------------------------------------------------------------------
(* Init_Settings, one key at a time                                        *)

\* NVS_Read succeeds.
ReadKey ==
  LET e == Table[step]
  IN /\ ~Ready /\ flash[e.key] # Absent
     /\ ram' = [ram EXCEPT ![e.into] = flash[e.key]]
     /\ step' = step + 1
     /\ NoFail
     /\ UNCHANGED <<flash, pending, stored, allRead>>

\* Mutant: the default is not written to flash.
DefaultInRamOnly ==
  LET e == Table[step]
  IN /\ ~Ready /\ flash[e.key] = Absent
     /\ ram' = [ram EXCEPT ![e.field] = e.assigned]
     /\ step' = step + 1
     /\ NoFail
     /\ allRead' = FALSE
     /\ UNCHANGED <<flash, pending, stored>>

\* NVS_Read fails, because the key is not there or for another reason (and
\* leaks its handle).  The default is written over the key, and a field is
\* set.
DefaultKey ==
  LET e == Table[step]
  IN /\ ~Ready
     /\ ram' = [ram EXCEPT ![e.field] = e.assigned]
     /\ step' = step + 1
     /\ \/ flash[e.key] = Absent /\ NVS_Write(e.key, e.stored) /\ NoFail
        \/ NVS_Write(e.key, e.stored) /\ Fail(e.key)
        \/ UNCHANGED flash /\ Fail(e.key)
     /\ allRead' = FALSE
     /\ UNCHANGED <<pending, stored>>

Init_Settings == ReadKey \/ DefaultKey

-----------------------------------------------------------------------------
(* Control_Drip_Start_Time, _Duration_Time and _Days                       *)

\* The setter up to the call of NVS_Write.  The MQTT task, and so the
\* setters, run only after Init.
SetField(k, v) ==
  /\ Ready /\ pending = NoKey
  /\ ram' = [ram EXCEPT ![k] = v]
  /\ pending' = k
  /\ UNCHANGED <<flash, step, stored, allRead, hurt, faults>>

\* Mutant: the setter writes the key of the wrong drip.
WriteFirstKey ==
  /\ pending # NoKey
  /\ NVS_Write(<<pending[1], 1>>, ram[pending])
  /\ stored' = [stored EXCEPT ![pending] = ram[pending]]
  /\ hurt' = hurt \ {pending} /\ UNCHANGED faults
  /\ pending' = NoKey
  /\ UNCHANGED <<ram, step, allRead>>

\* The NVS_Write at the end of the setter, with the value of the field.
WriteField ==
  /\ pending # NoKey
  /\ \/ /\ NVS_Write(pending, ram[pending])
        /\ stored' = [stored EXCEPT ![pending] = ram[pending]]
        /\ hurt' = hurt \ {pending} /\ UNCHANGED faults
     \/ Fail(pending) /\ UNCHANGED <<flash, stored>>
  /\ pending' = NoKey
  /\ UNCHANGED <<ram, step, allRead>>

-----------------------------------------------------------------------------
\* Reset or power cycle at any moment.  Init erases the whole flash when
\* nvs_flash_init finds no free pages or a new version.
Restart ==
  /\ \E erased \in BOOLEAN :
       /\ flash' = IF erased THEN [k \in Key |-> Absent] ELSE flash
       /\ stored' = IF erased THEN [k \in Key |-> Absent] ELSE stored
  /\ ram' = [k \in Key |-> 0]
  /\ step' = 1
  /\ pending' = NoKey
  /\ allRead' = TRUE
  /\ NoFail

Init ==
  /\ ram = [k \in Key |-> 0]
  /\ flash = [k \in Key |-> Absent]
  /\ step = 1
  /\ pending = NoKey
  /\ stored = [k \in Key |-> Absent]
  /\ allRead = TRUE
  /\ hurt = {}
  /\ faults = 0

Next ==
  \/ Init_Settings
  \/ \E k \in Settable, v \in UserVal : SetField(k, v)
  \/ WriteField
  \/ Restart

Spec == Init /\ [][Next]_vars

-----------------------------------------------------------------------------
(* Properties                                                              *)

\* A value a setter has written to flash stays there: no boot, however often
\* it is cut short, no setter of another key and no NVS failure on another
\* key replaces it, until the key is set again or the flash is erased.
SettingSurvives ==
  \A k \in Key \ hurt : stored[k] # Absent => flash[k] = stored[k]

\* After a boot that has read every key from flash, all drip settings in use
\* are those in flash, except one a setter is about to write or has failed to.
BootRestores ==
  Ready /\ allRead => \A k \in DripKey \ (hurt \cup {pending}) : ram[k] = flash[k]

\* After any boot, also if boots before were cut short, every key is in flash
\* but those whose write failed: the next boot reads them.
BootCompletesFlash == Ready => \A k \in Key \ hurt : flash[k] # Absent

\* "Read settings from Flash": after Init the settings in use, those of the
\* fans and of the drips, are those in flash, on the first boot as well.
BootAgrees ==
  Ready => \A k \in Key \ {pending} : ram[k] = flash[k]

=============================================================================
