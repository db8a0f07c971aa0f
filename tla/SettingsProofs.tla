--------------------------- MODULE SettingsProofs ---------------------------
(***************************************************************************)
(* Proofs, for any values and any keys that messages set and any number of *)
(* NVS failures, that a setting written to flash stays there, that a boot  *)
(* which reads every key puts all drip settings back in use, and that      *)
(* every boot leaves the flash complete.                                   *)
(***************************************************************************)
EXTENDS Settings, TLAPS

-----------------------------------------------------------------------------
(* The table of Init_Settings                                              *)

\* Eleven keys; the entry of a drip key reads into the field of that key, the
\* entry of a fan key into no drip field.
LEMMA TableFacts ==
  /\ Len(Table) = 11
  /\ \A i \in 1 .. 11 :
       /\ Table[i].key \in Key
       /\ Table[i].stored \in Nat /\ Table[i].assigned \in Nat
       /\ Table[i].key \in DripKey => Table[i].into = Table[i].key
       /\ Table[i].key \notin DripKey => Table[i].into \notin DripKey
<1>1. Len(Table) = 11
  BY DEF Table, Entry
<1>2. ASSUME NEW i \in 1 .. 11
      PROVE  /\ Table[i].key \in Key
             /\ Table[i].stored \in Nat /\ Table[i].assigned \in Nat
             /\ Table[i].key \in DripKey => Table[i].into = Table[i].key
             /\ Table[i].key \notin DripKey => Table[i].into \notin DripKey
  <2>1. \/ i = 1 \/ i = 2 \/ i = 3 \/ i = 4 \/ i = 5 \/ i = 6 \/ i = 7
        \/ i = 8 \/ i = 9 \/ i = 10 \/ i = 11
    OBVIOUS
  <2>2. Table[i].stored \in Nat /\ Table[i].assigned \in Nat
    BY <2>1 DEF Table, Entry
  <2>3. CASE i = 1 \/ i = 2
    <3>1. Table[i].key \in {FanOn, FanOff} /\ Table[i].into = FanOn
      BY <2>3 DEF Table, Entry
    <3>2. FanOn \notin DripKey /\ FanOff \notin DripKey
      BY DEF FanOn, FanOff, DripKey
    <3> QED
      BY <2>2, <3>1, <3>2 DEF Key
  <2>4. CASE i # 1 /\ i # 2
    <3>1. Table[i].key \in DripKey
      BY <2>1, <2>4 DEF Table, Entry, DripKey, Start, Dur, Days
    <3>2. Table[i].into = Table[i].key
      BY <2>1, <2>4 DEF Table, Entry
    <3> QED
      BY <2>2, <3>1, <3>2 DEF Key
  <2> QED
    BY <2>3, <2>4
<1> QED
  BY <1>1, <1>2

\* Every drip key has an entry.
LEMMA TableComplete ==
  \A k \in DripKey : \E i \in 1 .. 11 : Table[i].key = k
<1> SUFFICES ASSUME NEW k \in DripKey
             PROVE  \E i \in 1 .. 11 : Table[i].key = k
  OBVIOUS
<1>0. PICK n \in {"START", "DUR", "DAYS"}, d \in 1 .. 3 : k = <<n, d>>
  BY DEF DripKey
<1>1. /\ Table[3].key = <<"START", 1>> /\ Table[4].key = <<"START", 2>>
      /\ Table[5].key = <<"START", 3>> /\ Table[6].key = <<"DUR", 1>>
      /\ Table[7].key = <<"DUR", 2>>   /\ Table[8].key = <<"DUR", 3>>
      /\ Table[9].key = <<"DAYS", 1>>  /\ Table[10].key = <<"DAYS", 2>>
      /\ Table[11].key = <<"DAYS", 3>>
  BY DEF Table, Entry, Start, Dur, Days
<1>2. d = 1 \/ d = 2 \/ d = 3
  OBVIOUS
<1> QED
  BY <1>0, <1>1, <1>2

-----------------------------------------------------------------------------
(* Shapes                                                                  *)

Shape ==
  /\ ram \in [Key -> Int]
  /\ flash \in [Key -> Int]
  /\ stored \in [Key -> Int]
  /\ step \in 1 .. 12
  /\ pending \in DripKey \cup {NoKey}

LEMMA ShapeInit == Init => Shape
BY DEF Init, Shape, Absent

LEMMA ShapeStep == Shape /\ [Next]_vars => Shape'
<1> SUFFICES ASSUME Shape, [Next]_vars PROVE Shape'
  OBVIOUS
<1>0. DripKey \subseteq Key
  BY DEF Key
<1>1. CASE ReadKey
  <2>1. step \in 1 .. 11
    BY <1>1, TableFacts DEF ReadKey, Shape, Ready
  <2>2. flash[Table[step].key] \in Int
    BY <2>1, TableFacts DEF Shape
  <2>3. ram' \in [Key -> Int]
    BY <1>1, <2>2 DEF ReadKey, Shape
  <2> QED
    BY <1>1, <2>1, <2>3 DEF ReadKey, Shape
<1>2. CASE DefaultKey
  <2>1. step \in 1 .. 11
    BY <1>2, TableFacts DEF DefaultKey, Shape, Ready
  <2>2. Table[step].stored \in Int /\ Table[step].assigned \in Int
    BY <2>1, TableFacts
  <2>3. ram' \in [Key -> Int]
    BY <1>2, <2>2 DEF DefaultKey, Shape
  <2>4. flash' \in [Key -> Int]
    BY <1>2, <2>2 DEF DefaultKey, Shape, NVS_Write
  <2> QED
    BY <1>2, <2>1, <2>3, <2>4 DEF DefaultKey, Shape
<1>3. ASSUME NEW k \in Settable, NEW v \in UserVal, SetField(k, v)
      PROVE  Shape'
  <2>1. k \in DripKey /\ v \in Int
    BY SettingsAssumption
  <2> QED
    BY <1>3, <2>1 DEF SetField, Shape
<1>4. CASE WriteField
  BY <1>0, <1>4 DEF WriteField, Shape, NVS_Write
<1>5. CASE Restart
  BY <1>5 DEF Restart, Shape, Absent
<1>6. CASE UNCHANGED vars
  BY <1>6 DEF vars, Shape
<1> QED
  BY <1>1, <1>2, <1>3, <1>4, <1>5, <1>6 DEF Next, Init_Settings

-----------------------------------------------------------------------------
(* A stored setting stays in flash                                         *)

LEMMA SurvivesStep ==
  Shape /\ SettingSurvives /\ [Next]_vars => SettingSurvives'
<1> SUFFICES ASSUME Shape, SettingSurvives, [Next]_vars
             PROVE  SettingSurvives'
  OBVIOUS
<1>1. CASE ReadKey
  BY <1>1 DEF ReadKey, NoFail, SettingSurvives
<1>2. CASE DefaultKey
  BY <1>2 DEF DefaultKey, NVS_Write, Fail, NoFail, SettingSurvives, Shape
<1>3. ASSUME NEW k \in Settable, NEW v \in UserVal, SetField(k, v)
      PROVE  SettingSurvives'
  BY <1>3 DEF SetField, SettingSurvives
<1>4. CASE WriteField
  BY <1>4 DEF WriteField, NVS_Write, Fail, SettingSurvives, Shape
<1>5. CASE Restart
  BY <1>5 DEF Restart, NoFail, SettingSurvives
<1>6. CASE UNCHANGED vars
  BY <1>6 DEF vars, SettingSurvives
<1> QED
  BY <1>1, <1>2, <1>3, <1>4, <1>5, <1>6 DEF Next, Init_Settings

\* What a setter has written to flash survives every sequence of boots, cut
\* short or not, and every NVS failure on another key.
THEOREM SettingsSurvive == Spec => []SettingSurvives
<1>1. Init => SettingSurvives
  BY DEF Init, SettingSurvives
<1> QED
  BY <1>1, ShapeInit, ShapeStep, SurvivesStep, PTL DEF Spec

-----------------------------------------------------------------------------
(* A boot restores the drip settings                                       *)

\* The drip key k is in use as it is in flash.
Restored(k) == k \in hurt \/ k = pending \/ ram[k] = flash[k]

\* While Init_Settings runs, the keys it has passed are restored.
BootProgress ==
  allRead =>
    \A i \in 1 .. 11 : i < step /\ Table[i].key \in DripKey =>
                         Restored(Table[i].key)

LEMMA BootStep == Shape /\ BootProgress /\ [Next]_vars => BootProgress'
<1> SUFFICES ASSUME Shape, BootProgress, [Next]_vars, allRead',
                    NEW i \in 1 .. 11, i < step', Table[i].key \in DripKey
             PROVE  Restored(Table[i].key)'
  BY DEF BootProgress, Table, Entry
<1> DEFINE k == Table[i].key
<1>0. k \in Key /\ DripKey \subseteq Key
  BY TableFacts DEF Key
<1>1. CASE ReadKey
  <2>1. i < step => Restored(k)
    BY <1>1 DEF ReadKey, BootProgress
  <2>2. step \in 1 .. 11
    BY <1>1, TableFacts DEF ReadKey, Ready, Shape
  <2>3. CASE Table[step].into = k
    <3>1. Table[step].key = k
      BY <2>2, <2>3, TableFacts
    <3> QED
      BY <1>0, <1>1, <2>3, <3>1 DEF ReadKey, Restored, Shape
  <2>4. CASE Table[step].into # k
    <3>1. i # step
      BY <2>4, TableFacts
    <3>2. i < step
      BY <1>1, <2>2, <3>1 DEF ReadKey
    <3> QED
      BY <1>0, <1>1, <2>1, <2>4, <3>2 DEF ReadKey, NoFail, Restored, Shape
  <2> QED
    BY <2>3, <2>4
<1>2. CASE DefaultKey
  BY <1>2 DEF DefaultKey
<1>3. ASSUME NEW f \in Settable, NEW v \in UserVal, SetField(f, v)
      PROVE  Restored(k)'
  BY <1>0, <1>3, SettingsAssumption
     DEF SetField, BootProgress, Restored, Shape, NoKey, DripKey
<1>4. CASE WriteField
  BY <1>0, <1>4 DEF WriteField, NVS_Write, Fail, BootProgress, Restored, Shape
<1>5. CASE Restart
  BY <1>5 DEF Restart
<1>6. CASE UNCHANGED vars
  BY <1>6 DEF vars, BootProgress, Restored
<1> QED
  BY <1>1, <1>2, <1>3, <1>4, <1>5, <1>6 DEF Next, Init_Settings

\* A boot that has read all eleven keys leaves every drip setting in use as it
\* is in flash.
THEOREM BootRestoresDrips == Spec => []BootRestores
<1>1. Init => BootProgress
  BY DEF Init, BootProgress
<1>2. Shape /\ BootProgress => BootRestores
  <2> SUFFICES ASSUME Shape, BootProgress, Ready, allRead,
                      NEW k \in DripKey, k \notin hurt, k # pending
               PROVE  ram[k] = flash[k]
    BY DEF BootRestores
  <2>1. PICK i \in 1 .. 11 : Table[i].key = k
    BY TableComplete
  <2>2. i < step
    BY TableFacts DEF Ready, Shape
  <2> QED
    BY <2>1, <2>2 DEF BootProgress, Restored
<1> QED
  BY <1>1, <1>2, ShapeInit, ShapeStep, BootStep, PTL DEF Spec

-----------------------------------------------------------------------------
(* Types                                                                   *)

\* Every default is a value.
LEMMA DefaultsAreValues ==
  ASSUME NEW i \in 1 .. 11
  PROVE  Table[i].stored \in Val /\ Table[i].assigned \in Val
<1>1. i \in 1 .. Len(Table)
  BY TableFacts
<1> HIDE DEF Table
<1> QED
  BY <1>1 DEF Val

LEMMA TypeInit == Init => TypeOK
<1>1. 0 \in Val
  BY DEF Val
<1>2. Len(Table) = 11
  BY TableFacts
<1>3. 0 \in 0 .. MaxFaults
  BY SettingsAssumption
<1> QED
  BY <1>1, <1>2, <1>3 DEF Init, TypeOK

\* The field a setter has yet to write to flash holds what the message said.
PendingSet == pending # NoKey => Ready /\ pending \in Key /\ ram[pending] \in UserVal

LEMMA PendingStep == TypeOK /\ PendingSet /\ [Next]_vars => PendingSet'
<1> SUFFICES ASSUME TypeOK, PendingSet, [Next]_vars PROVE PendingSet'
  OBVIOUS
<1>1. CASE Init_Settings
  BY <1>1 DEF Init_Settings, ReadKey, DefaultKey, PendingSet
<1>2. ASSUME NEW k \in Settable, NEW v \in UserVal, SetField(k, v)
      PROVE  PendingSet'
  <2>1. k \in Key
    BY SettingsAssumption DEF Key
  <2> QED
    BY <1>2, <2>1 DEF SetField, PendingSet, Ready, TypeOK
<1>3. CASE WriteField
  BY <1>3 DEF WriteField, PendingSet
<1>4. CASE Restart
  BY <1>4 DEF Restart, PendingSet
<1>5. CASE UNCHANGED vars
  BY <1>5 DEF vars, PendingSet, Ready
<1> QED
  BY <1>1, <1>2, <1>3, <1>4, <1>5 DEF Next

LEMMA TypeStep == TypeOK /\ PendingSet /\ [Next]_vars => TypeOK'
<1> SUFFICES ASSUME TypeOK, PendingSet, [Next]_vars PROVE TypeOK'
  OBVIOUS
<1>0. DripKey \subseteq Key /\ UserVal \subseteq Val /\ 0 \in Val
  BY DEF Key, Val
<1>f. ASSUME NEW k \in Key, Fail(k)
      PROVE  hurt' \subseteq Key /\ faults' \in 0 .. MaxFaults
  BY <1>f, SettingsAssumption DEF Fail, TypeOK
<1>n. ASSUME NoFail PROVE hurt' \subseteq Key /\ faults' \in 0 .. MaxFaults
  BY <1>n DEF NoFail, TypeOK
<1>1. CASE ReadKey
  <2>1. step \in 1 .. 11
    BY <1>1, TableFacts DEF ReadKey, TypeOK, Ready
  <2>2. step' \in 1 .. Len(Table) + 1
    BY <1>1, <2>1, TableFacts DEF ReadKey
  <2>3. flash[Table[step].key] \in Val
    BY <1>1, <2>1, TableFacts DEF ReadKey, TypeOK
  <2>4. ram' \in [Key -> Val]
    BY <1>1, <2>3 DEF ReadKey, TypeOK
  <2> QED
    BY <1>1, <1>n, <2>2, <2>4 DEF ReadKey, TypeOK
<1>2. CASE DefaultKey
  <2>1. step \in 1 .. 11
    BY <1>2, TableFacts DEF DefaultKey, TypeOK, Ready
  <2>2. step' \in 1 .. Len(Table) + 1
    BY <1>2, <2>1, TableFacts DEF DefaultKey
  <2>3. Table[step].stored \in Val /\ Table[step].assigned \in Val
    BY <2>1, DefaultsAreValues
  <2>4. ram' \in [Key -> Val] /\ flash' \in [Key -> Val \cup {Absent}]
    BY <1>2, <2>3 DEF DefaultKey, NVS_Write, TypeOK
  <2>5. hurt' \subseteq Key /\ faults' \in 0 .. MaxFaults
    BY <1>2, <1>f, <1>n, <2>1, TableFacts DEF DefaultKey
  <2> QED
    BY <1>2, <2>2, <2>4, <2>5 DEF DefaultKey, TypeOK
<1>3. ASSUME NEW k \in Settable, NEW v \in UserVal, SetField(k, v)
      PROVE  TypeOK'
  <2>1. k \in Key /\ v \in Val
    BY <1>0, SettingsAssumption
  <2>2. ram' \in [Key -> Val]
    BY <1>3, <2>1 DEF SetField, TypeOK
  <2> QED
    BY <1>3, <2>1, <2>2 DEF SetField, TypeOK
<1>4. CASE WriteField
  <2>1. pending \in Key /\ ram[pending] \in UserVal
    BY <1>4 DEF WriteField, PendingSet
  <2>2. flash' \in [Key -> Val \cup {Absent}] /\ stored' \in [Key -> UserVal \cup {Absent}]
    BY <1>0, <1>4, <2>1 DEF WriteField, NVS_Write, TypeOK
  <2>3. hurt' \subseteq Key /\ faults' \in 0 .. MaxFaults
    BY <1>4, <1>f, <2>1 DEF WriteField, TypeOK
  <2> QED
    BY <1>4, <2>2, <2>3 DEF WriteField, TypeOK
<1>5. CASE Restart
  <2>1. 1 \in 1 .. Len(Table) + 1
    BY TableFacts
  <2> QED
    BY <1>0, <1>5, <1>n, <2>1 DEF Restart, TypeOK
<1>6. CASE UNCHANGED vars
  BY <1>6 DEF vars, TypeOK
<1> QED
  BY <1>1, <1>2, <1>3, <1>4, <1>5, <1>6 DEF Next, Init_Settings

\* The settings, the flash and the boot keep their types: no field and no key
\* ever holds anything but a default or what a message has set.
THEOREM SettingsTypes == Spec => []TypeOK
<1>1. Init => PendingSet
  BY DEF Init, PendingSet
<1> QED
  BY <1>1, TypeInit, TypeStep, PendingStep, PTL DEF Spec

-----------------------------------------------------------------------------
(* A boot completes the flash                                              *)

\* The fan keys, like the drip keys, have an entry.
LEMMA EveryKeyHasEntry ==
  \A k \in Key : \E i \in 1 .. 11 : Table[i].key = k
<1>1. Table[1].key = FanOn /\ Table[2].key = FanOff
  BY DEF Table, Entry
<1> QED
  BY <1>1, TableComplete DEF Key

\* The keys that Init_Settings has passed are in flash, as far as NVS works.
FlashProgress ==
  \A i \in 1 .. 11 :
    i < step => Table[i].key \in hurt \/ flash[Table[i].key] # Absent

LEMMA FlashStep ==
  TypeOK /\ PendingSet /\ FlashProgress /\ [Next]_vars => FlashProgress'
<1> SUFFICES ASSUME TypeOK, PendingSet, FlashProgress, [Next]_vars,
                    NEW i \in 1 .. 11, i < step'
             PROVE  Table[i].key \in hurt' \/ flash'[Table[i].key] # Absent
  BY DEF FlashProgress, Table, Entry
<1> DEFINE k == Table[i].key
<1>0. k \in Key /\ Absent \notin UserVal
  BY TableFacts, SettingsAssumption DEF Absent
<1>p. i < step => k \in hurt \/ flash[k] # Absent
  BY DEF FlashProgress
<1>1. CASE ReadKey
  <2>1. step \in Int /\ step' = step + 1 /\ UNCHANGED <<flash, hurt>>
    BY <1>1 DEF ReadKey, NoFail, TypeOK
  <2>2. i = step => flash[k] # Absent
    BY <1>1 DEF ReadKey
  <2> QED
    BY <1>p, <2>1, <2>2
<1>2. CASE DefaultKey
  <2>1. step \in 1 .. 11 /\ step' = step + 1
    BY <1>2, TableFacts DEF DefaultKey, TypeOK, Ready
  <2> DEFINE e == Table[step]
  <2>2. e.key \in Key /\ e.stored # Absent
    BY <2>1, TableFacts DEF Absent
  <2>3. \/ flash' = [flash EXCEPT ![e.key] = e.stored] /\ hurt \subseteq hurt'
        \/ flash' = flash /\ hurt' = hurt \cup {e.key}
    BY <1>2 DEF DefaultKey, NVS_Write, NoFail, Fail
  <2>4. i = step => e.key = k
    OBVIOUS
  <2>5. i < step \/ i = step
    BY <2>1
  <2> HIDE DEF e, k
  <2>6. k \in hurt' \/ flash'[k] # Absent
    BY <1>0, <1>p, <2>2, <2>3, <2>4, <2>5 DEF TypeOK
  <2> QED
    BY <2>6 DEF k
<1>3. ASSUME NEW f \in Settable, NEW v \in UserVal, SetField(f, v)
      PROVE  k \in hurt' \/ flash'[k] # Absent
  BY <1>p, <1>3 DEF SetField
<1>4. CASE WriteField
  <2>1. pending \in Key /\ ram[pending] # Absent
    BY <1>0, <1>4 DEF WriteField, PendingSet
  <2>2. k \in hurt \/ flash[k] # Absent
    BY <1>p, <1>4 DEF WriteField
  <2> HIDE DEF k
  <2>3. k \in hurt' \/ flash'[k] # Absent
    BY <1>0, <1>4, <2>1, <2>2 DEF WriteField, NVS_Write, Fail, TypeOK
  <2> QED
    BY <2>3 DEF k
<1>5. CASE Restart
  BY <1>5 DEF Restart
<1>6. CASE UNCHANGED vars
  BY <1>p, <1>6 DEF vars
<1> QED
  BY <1>1, <1>2, <1>3, <1>4, <1>5, <1>6 DEF Next, Init_Settings

\* However many boots were cut short before, a boot that has come to its end
\* leaves every key in flash whose NVS calls did not fail.
THEOREM BootCompletes == Spec => []BootCompletesFlash
<1>1. Init => PendingSet /\ FlashProgress
  BY DEF Init, PendingSet, FlashProgress
<1>2. TypeOK /\ FlashProgress => BootCompletesFlash
  <2> SUFFICES ASSUME TypeOK, FlashProgress, Ready, NEW k \in Key, k \notin hurt
               PROVE  flash[k] # Absent
    BY DEF BootCompletesFlash
  <2>1. PICK i \in 1 .. 11 : Table[i].key = k
    BY EveryKeyHasEntry
  <2>2. i < step
    BY TableFacts DEF Ready, TypeOK
  <2> QED
    BY <2>1, <2>2 DEF FlashProgress
<1> QED
  BY <1>1, <1>2, TypeInit, TypeStep, PendingStep, FlashStep, PTL DEF Spec

=============================================================================
