-------------------------- MODULE MCStreamFraming --------------------------
EXTENDS StreamFraming, SequencesExt, TLC

\* 1.0, -2.5 and the smallest number above zero.
One  == <<0, 0, 128, 63>>
Neg  == <<0, 0, 32, 192>>
Tiny == <<1, 0, 0, 0>>

Me == [Index |-> 7]

Vectors  == {Empty, [X |-> One, Y |-> Neg, Z |-> Tiny], [Z |-> Neg]}
Rotators == {Empty, [Roll |-> One, Pitch |-> Tiny, Yaw |-> Neg], [Pitch |-> One]}

Some(name, S) == {Empty} \cup {name :> v : v \in S}
Messages(parts) == FoldSeq(LAMBDA S, all : {a @@ b : a \in all, b \in S}, {Empty}, parts)

Movements == Messages(<<{"Id" :> Me}, Some("Loc", Vectors), Some("Rot", Rotators)>>)
                \cup Messages(<<{"Id" :> Me}, {"Loc" :> [X |-> One]}, Some("Vel", Vectors)>>)
FireEvents == Messages(<<{"Id" :> i : i \in {Empty, Me}}, Some("RandomSeed", {One}),
                         Some("AimDir", Vectors), Some("StartTrace", {[Y |-> Neg]})>>)
AnimStates == Messages(<<{"Id" :> Me}, Some("AimYaw", {Default("float"), One}),
                         Some("AimPitch", {Default("float"), Tiny})>>)
Counts == {0, 1, 127, 128, 16383, 16384, 2097152, 268435456, 2147483647}
Weapons == Messages(<<{"Id" :> Me}, Some("StartFire", {0, 1}), Some("StopFire", {1}),
                      Some("ClipAmmo", {0, 300})>>)
    \cup Messages(<<{"Id" :> Me}, Some("ChangeNextWeapon", {0, 1}), Some("ChangePrevWeapon", {1}),
                    Some("StartReload", {0})>>)
    \cup Messages(<<{"Id" :> Me}, Some("Ammo", Counts)>>)

Packets(id, messages) == {[id |-> id, msg |-> m] : m \in messages}

\* Every kind first; then a login, or a weapon with little in it.
MCSends ==
    <<Packets(2, {m \in Movements : DOMAIN m = {"Id", "Loc", "Rot"}})
        \cup Packets(6, Movements) \cup Packets(4, FireEvents)
        \cup Packets(8, AnimStates) \cup Packets(10, Weapons),
      Packets(8, {"Id" :> Me @@ "AimYaw" :> Tiny}) \cup Packets(10, {"Id" :> Me @@ "Ammo" :> 1})>>
=============================================================================
