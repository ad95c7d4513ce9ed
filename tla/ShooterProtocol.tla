-------------------------- MODULE ShooterProtocol --------------------------
(***************************************************************************)
(* The seven messages of ShooterProtocol.pb.cc and their encoding, byte by *)
(* byte, as Serialize and ByteSizeLong compute it; ShooterParsing reads    *)
(* them.  protoc writes the functions of a message out field by field;     *)
(* here a message is its list of fields, and the functions go over it.     *)
(*                                                                         *)
(* A message is a record of the fields that are set.  A float is its four  *)
(* bytes.  Field numbers a message does not have are left out: neither end *)
(* sends any.                                                              *)
(***************************************************************************)
EXTENDS Varints

\* An implicit field is written unless it is zero, an explicit one when set.
Implicit(no, name, type) == [no |-> no, name |-> name, type |-> type, implicit |-> TRUE]
Explicit(no, name, type) == [no |-> no, name |-> name, type |-> type, implicit |-> FALSE]

PVector ==
    <<Implicit(1, "X", "float"), Implicit(2, "Y", "float"), Implicit(3, "Z", "float")>>

PRotator ==
    <<Implicit(1, "Roll", "float"), Implicit(2, "Pitch", "float"), Implicit(3, "Yaw", "float")>>

PClientId == <<Implicit(1, "Index", "uint32")>>

PWeapon ==
    <<Explicit(1, "Id", "PClientId"),
      Explicit(2, "StartFire", "bool"), Explicit(3, "StopFire", "bool"),
      Explicit(4, "ChangeNextWeapon", "bool"), Explicit(5, "ChangePrevWeapon", "bool"),
      Explicit(6, "StartReload", "bool"),
      Explicit(7, "Ammo", "uint32"), Explicit(8, "ClipAmmo", "uint32")>>

PFireEvent ==
    <<Explicit(1, "Id", "PClientId"), Implicit(2, "RandomSeed", "float"),
      Explicit(3, "AimDir", "PVector"), Explicit(4, "StartTrace", "PVector")>>

PMovement ==
    <<Explicit(1, "Id", "PClientId"), Explicit(2, "Loc", "PVector"),
      Explicit(3, "Rot", "PRotator"), Explicit(4, "Vel", "PVector")>>

PAnimState ==
    <<Explicit(1, "Id", "PClientId"),
      Explicit(2, "AimYaw", "float"), Explicit(3, "AimPitch", "float")>>

Fields == [PVector |-> PVector, PRotator |-> PRotator, PClientId |-> PClientId,
           PWeapon |-> PWeapon, PFireEvent |-> PFireEvent,
           PMovement |-> PMovement, PAnimState |-> PAnimState]

IsMessage(type) == type \in DOMAIN Fields

Empty   == [name \in {} |-> 0]
Default(type) ==
    CASE type = "float" -> <<0, 0, 0, 0>>
      [] type \in {"uint32", "bool"} -> 0
      [] IsMessage(type) -> Empty

\* What the accessor of a field returns: its default when it is not set.
Get(m, name, type) == IF name \in DOMAIN m THEN m[name] ELSE Default(type)

ClientIndex(m) == Get(Get(m, "Id", "PClientId"), "Index", "uint32")

\* What a field may be set to.  An implicit field is not set when it is zero.
Number(type) == CASE type = "float" -> {v \in Seq(Byte) : Len(v) = 4}
                  [] type = "uint32" -> UInt32
                  [] type = "bool" -> {0, 1}

Names(type) == {Fields[type][i].name : i \in 1 .. Len(Fields[type])}

IsRecordOf(type, m) ==
    /\ m = [name \in DOMAIN m |-> m[name]]
    /\ DOMAIN m \subseteq Names(type)

IsFlatMessage(type, m) ==
    /\ IsRecordOf(type, m)
    /\ \A i \in 1 .. Len(Fields[type]) :
        LET f == Fields[type][i]
        IN  f.name \in DOMAIN m =>
                /\ m[f.name] \in Number(f.type)
                /\ f.implicit => m[f.name] # Default(f.type)

IsValue(type, v) == IF IsMessage(type) THEN IsFlatMessage(type, v) ELSE v \in Number(type)

IsShooterMessage(type, m) ==
    /\ IsRecordOf(type, m)
    /\ \A i \in 1 .. Len(Fields[type]) :
        LET f == Fields[type][i]
        IN  f.name \in DOMAIN m =>
                /\ IsValue(f.type, m[f.name])
                /\ f.implicit => m[f.name] # Default(f.type)

-----------------------------------------------------------------------------
(* Writing.  PVector, PRotator and PClientId hold numbers only and have at  *)
(* most three fields, the others at most eight, of which a part are         *)
(* messages of these three kinds.                                           *)

Tag(f) == 8 * f.no + (CASE f.type = "float" -> 5
                        [] f.type \in {"uint32", "bool"} -> 0
                        [] IsMessage(f.type) -> 2)

IsWritten(f, m) ==
    f.name \in DOMAIN m /\ (f.implicit => m[f.name] # Default(f.type))

\* The message has an i-th field and it is written.
HasField(type, i, m) == i <= Len(Fields[type]) /\ IsWritten(Fields[type][i], m)

NumberSize(type, v) ==
    CASE type = "float" -> 4
      [] type = "bool" -> 1
      [] type = "uint32" -> VarintSize32(v)

NumberBytes(type, v) == IF type = "float" THEN v ELSE Varint(v)

\* ByteSizeLong and Serialize of a message of numbers.
FlatFieldSize(type, i, m) ==
    LET f == Fields[type][i]
    IN  IF HasField(type, i, m) THEN 1 + NumberSize(f.type, m[f.name]) ELSE 0

FlatFieldBytes(type, i, m) ==
    LET f == Fields[type][i]
    IN  IF HasField(type, i, m) THEN <<Tag(f)>> \o NumberBytes(f.type, m[f.name]) ELSE <<>>

FlatSize(type, m) ==
    FlatFieldSize(type, 1, m) + FlatFieldSize(type, 2, m) + FlatFieldSize(type, 3, m)

FlatBytes(type, m) ==
    FlatFieldBytes(type, 1, m) \o FlatFieldBytes(type, 2, m) \o FlatFieldBytes(type, 3, m)

\* A message in a message comes after its size.
ValueSize(type, v) ==
    IF IsMessage(type) THEN VarintSize32(FlatSize(type, v)) + FlatSize(type, v)
    ELSE NumberSize(type, v)

ValueBytes(type, v) ==
    IF IsMessage(type) THEN Varint(FlatSize(type, v)) \o FlatBytes(type, v)
    ELSE NumberBytes(type, v)

FieldSize(type, i, m) ==
    LET f == Fields[type][i]
    IN  IF HasField(type, i, m) THEN 1 + ValueSize(f.type, m[f.name]) ELSE 0

FieldBytes(type, i, m) ==
    LET f == Fields[type][i]
    IN  IF HasField(type, i, m) THEN <<Tag(f)>> \o ValueBytes(f.type, m[f.name]) ELSE <<>>

\* The size that packet headers are made from.
ByteSizeLong(type, m) ==
    FieldSize(type, 1, m) + FieldSize(type, 2, m) + FieldSize(type, 3, m) + FieldSize(type, 4, m)
    + FieldSize(type, 5, m) + FieldSize(type, 6, m) + FieldSize(type, 7, m) + FieldSize(type, 8, m)

Serialize(type, m) ==
    FieldBytes(type, 1, m) \o FieldBytes(type, 2, m) \o FieldBytes(type, 3, m)
    \o FieldBytes(type, 4, m) \o FieldBytes(type, 5, m) \o FieldBytes(type, 6, m)
    \o FieldBytes(type, 7, m) \o FieldBytes(type, 8, m)
=============================================================================
