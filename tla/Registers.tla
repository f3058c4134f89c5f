------------------------------ MODULE Registers ------------------------------
(***************************************************************************)
(* The register maps of the seventh protocol generation                    *)
(* (src/src/growatt/v7/registers.rs): the settings that may be written and *)
(* the values each accepts, the telemetry fields and where in a frame each *)
(* is read from, and the datalogger's own fields.  Names, units and        *)
(* scalings are left out; a setting is known by its register.              *)
(***************************************************************************)
EXTENDS Integers, Sequences, FiniteSets, SequencesExt

Register == 0..65535

-----------------------------------------------------------------------------
(* What a setting accepts: Domain.                                         *)

Between(min, max) == [kind |-> "range", min |-> min, max |-> max]
Flag == [kind |-> "flag"]
TimeOfDay == [kind |-> "time"]
WorkMode == [kind |-> "enum", labels |-> 3]
Weekdays == [kind |-> "weekdays"]

Accepts(domain, value) ==
    CASE domain.kind = "range"    -> value >= domain.min /\ value <= domain.max
      [] domain.kind = "flag"     -> value <= 1
      [] domain.kind = "time"     -> value \div 256 < 24 /\ value % 256 < 60
      [] domain.kind = "enum"     -> value < domain.labels
      [] domain.kind = "weekdays" -> value <= 127

-----------------------------------------------------------------------------
(* Holding registers                                                       *)

SlotBase == 254
SlotStride == 5
SlotCount == 9
SlotRepeatBase == 342
SlotRepeatStride == 2

Setting(register, domain) == [register |-> register, domain |-> domain, supersededBy |-> 0]
NoSetting == [register |-> -1]

(* HOLDING_REGISTERS, in its order.                                        *)
HoldingRegisters ==
    << Setting(250, Between(70, 100)), Setting(251, Between(0, 30)),
       Setting(303, Flag), Setting(304, Flag), Setting(305, Flag),
       Setting(322, Between(0, 1000)), Setting(323, Flag), Setting(324, Between(0, 100)),
       Setting(325, Flag), Setting(326, Flag), Setting(327, Flag) >>

SlotRepeat(slot) ==
    IF slot \in 1..SlotCount
    THEN Setting(SlotRepeatBase + (slot - 1) * SlotRepeatStride, Weekdays)
    ELSE NoSetting

(* A slot's output power is superseded by the slot's own work mode, the    *)
(* register before it.                                                     *)
SlotSetting(register, field) ==
    CASE field \in {0, 1} -> Setting(register, TimeOfDay)
      [] field = 2 -> Setting(register, WorkMode)
      [] field = 3 -> [register |-> register, domain |-> Between(0, 1000),
                       supersededBy |-> register - 1]
      [] field = 4 -> Setting(register, Flag)

SlotFieldEvery(register) ==  \* mutant: between two masks is a mask too
    IF register >= SlotRepeatBase
    THEN SlotRepeat((register - SlotRepeatBase) \div SlotRepeatStride + 1)
    ELSE IF register >= SlotBase /\ (register - SlotBase) \div SlotStride < SlotCount
         THEN SlotSetting(register, (register - SlotBase) % SlotStride)
         ELSE NoSetting
SlotField(register) ==
    IF register >= SlotRepeatBase
    THEN IF (register - SlotRepeatBase) % SlotRepeatStride = 0
         THEN SlotRepeat((register - SlotRepeatBase) \div SlotRepeatStride + 1)
         ELSE NoSetting
    ELSE IF register >= SlotBase /\ (register - SlotBase) \div SlotStride < SlotCount
         THEN SlotSetting(register, (register - SlotBase) % SlotStride)
         ELSE NoSetting

(* HoldingRegister::lookup.                                                *)
LookupSetting(register) ==
    LET named == {i \in DOMAIN HoldingRegisters : HoldingRegisters[i].register = register} IN
    IF named # {} THEN HoldingRegisters[CHOOSE i \in named : \A j \in named : i <= j]
    ELSE SlotField(register)

IsSetting(register) == LookupSetting(register) # NoSetting

(* HoldingRegister::slot: the five registers of a slot and its mask.       *)
Slot(slot) ==
    IF slot \in 1..SlotCount
    THEN [i \in 1..SlotStride |-> SlotField(SlotBase + (slot - 1) * SlotStride + i - 1)]
             \o <<SlotRepeat(slot)>>
    ELSE <<>>

(* HoldingRegister::resync_set: what is read back when a device connects,  *)
(* slot by slot after the rest.                                            *)
SlotSize == SlotStride + 1
InSlots(i) == Slot((i - 1) \div SlotSize + 1)[((i - 1) % SlotSize) + 1]
ResyncSetOf(slots) == HoldingRegisters \o [i \in 1..slots * SlotSize |-> InSlots(i)]
ResyncSet(slots) == ResyncSetOf(IF slots < SlotCount THEN slots ELSE SlotCount)

(* HoldingRegister::decode.                                                *)
DecodeSetting(setting, raw) ==
    CASE setting.domain.kind = "flag" -> IF raw # 0 THEN 1 ELSE 0
      [] setting.domain.kind = "time" -> <<raw \div 256, raw % 256>>
      [] setting.domain.kind = "enum" ->
             [raw |-> raw, labelled |-> raw < setting.domain.labels]
      [] setting.domain.kind = "range" -> raw
      [] setting.domain.kind = "weekdays" -> {day \in 1..7 : (raw \div 2 ^ (day - 1)) % 2 = 1}

-----------------------------------------------------------------------------
(* Input registers                                                         *)

InputBaseOffset == 79

Input(register, kind, registers) == [register |-> register, kind |-> kind, registers |-> registers]

(* INPUT_REGISTERS by the kind of their values.                            *)
IntInputs == {2, 3, 4, 6, 12, 18, 88, 101, 119, 120}
EnumInputs == {8, 10}
TextInputs == {21, 23, 25, 27}
Float32Inputs == {71, 73, 75, 77}
FloatInputs ==
    {5, 7, 11, 13, 29, 30, 41, 42, 53, 54, 65, 66} \cup {16, 17, 19, 20} \cup 79..82
        \cup 89..100 \cup 102..118

InputRegisters ==
    {Input(r, "int", 1) : r \in IntInputs} \cup {Input(r, "enum", 1) : r \in EnumInputs}
        \cup {Input(r, "text", 2) : r \in TextInputs}
        \cup {Input(r, "float32", 2) : r \in Float32Inputs}
        \cup {Input(r, "float", 1) : r \in FloatInputs}

(* InputRegister::offset_of: from the start of the frame.                  *)
InputOffset(register) == InputBaseOffset + 2 * register

-----------------------------------------------------------------------------
(* Config registers                                                        *)

ConfigReported == {4, 7, 8, 9, 12, 13, 14} \cup 16..22 \cup {25, 26, 30, 31, 76, 102, 122}
ConfigRegisterLast == 145
AccessoryList == 122
=============================================================================
