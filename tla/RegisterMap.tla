------------------------------ MODULE RegisterMap ------------------------------
(***************************************************************************)
(* The register maps, looked at register by register: one state each, of   *)
(* every number up to MaxRegister.                                         *)
(***************************************************************************)
EXTENDS V7

CONSTANT MaxRegister  \* bound: past the last register of every map

VARIABLE row  \* the register looked at, or -1 before the first

FirstRow == row = -1

NextRow == row < MaxRegister /\ row' = row + 1

(* A setting is found exactly by the registers that are read back when a   *)
(* device connects, each by its own, and each of those is read back once:  *)
(* nothing can be written that is not learned, nor the other way round     *)
(* (lookup and slot_field, against slot and resync_set).                   *)
SettingsAreLearned ==
    LET found == SelectSeq(ResyncSet(SlotCount), LAMBDA s : s.register = row) IN
    found = IF IsSetting(row) THEN <<LookupSetting(row)>> ELSE <<>>

(* What a setting accepts is read back as it was written: decoding keeps   *)
(* apart any two values it accepts, but for the days of a week             *)
(* (Domain::accepts, HoldingRegister::decode).                             *)
Edges == {0, 1, 2, 3, 30, 69, 70, 100, 101, 127, 128, 59, 60, 256, 1000, 1001, 5947, 5948, 6144, 65535}
AcceptedIsTold ==
    IsSetting(row) =>
        LET setting == LookupSetting(row) IN
        \A v, w \in {u \in Edges : Accepts(setting.domain, u)} :
            DecodeSetting(setting, v) = DecodeSetting(setting, w) => v = w

(* No telemetry field is read from octets another one is read from: what   *)
(* the table's compile-time check, that registers increase, leaves open of *)
(* the fields that take two registers (InputBlock::read).                  *)
FieldsDoNotOverlap ==
    LET blank == [i \in 1..InputOffset(MaxRegister) |-> 0]
        marked(input) ==
            [i \in DOMAIN blank |->
                IF i - InputOffset(input.register) \in 1..(2 * input.registers) THEN 1 ELSE 0]
    IN  \A a, b \in InputRegisters :
          a.register = row /\ a # b => ReadInput(marked(a), b) = ReadInput(blank, b)

(* The maps fit one another, register by register (registers.rs).          *)
MapsFit == row # -1 => SettingsAreLearned /\ AcceptedIsTold /\ FieldsDoNotOverlap
=============================================================================
