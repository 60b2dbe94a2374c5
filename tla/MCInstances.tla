----------------------------- MODULE MCInstances -----------------------------
(* Instances of AvatarInstances for TLC.                                    *)
EXTENDS InstanceInvariant

CONSTANTS c1, c2, a1, adventurer, rider, strength, race, elf, key

Kinds == [p \in Part |->
            CASE p = strength -> "attribute" [] p = key -> "achievement"
              [] p = race -> "customization" [] p = elf -> "option"]
Bases == [p \in Part |-> IF p = elf THEN race ELSE p]

\* The second version of adventurer takes the attribute away.
Versions ==
    [o \in AvatarType |->
       IF o = adventurer THEN {Part, {race, elf}} ELSE {{race, elf}}]

Ask(op, a, o, parts) == [op |-> op, a |-> a, type |-> o, parts |-> parts]

\* Creations while the blueprints change.
Creations ==
    [c \in Client |-> {Ask("create", a1, adventurer, {strength, elf}),
                      Ask("create", a1, rider, {elf}), Ask("create", a1, rider, {strength})}]

\* One version, for runs in which the blueprint is not edited.
Fixed == [o \in AvatarType |-> {Part}]

\* Creations, deletions and reads of the same avatar.
Requests ==
    [c \in Client |->
       IF c = c1
       THEN {Ask("create", a1, adventurer, {strength, key}), Ask("get", a1, adventurer, {})}
       ELSE {Ask("delete", a1, adventurer, {}), Ask("list", a1, adventurer, {})}]

\* One creation, for the run about attributes that were taken away.
OneCreation == [c \in Client |-> {Ask("create", a1, adventurer, {strength})}]
=============================================================================
