----------------------------- MODULE MCRotation -----------------------------
(***************************************************************************)
(* An instance of Rotation: an attack of the weapon set in hand, with a    *)
(* cast time; an instant skill; a kit, a skill of it, a Weapon Swap that   *)
(* drops it and one that changes the weapon set; over and over.  The       *)
(* attack's strikes trigger a proc with a cooldown while it is ready; a    *)
(* counter triggers itself; one of the attacks has a child skill with a    *)
(* cast time; the instant skill makes the actor cast another one.          *)
(***************************************************************************)
EXTENDS Rotation, TLC

CONSTANTS slash, chop, attack, dash, proc, counter, flip, parry, kit, shot, swap, stow, pack

Casts(skills) ==
    [i \in DOMAIN skills |-> [skill |-> skills[i], cast_time_ms |-> IF skills[i] = dash THEN 3 ELSE 0]]

\* Two orderly rotations; one that drops a kit while a swap animates; one that lacks a kit,
\* and one that takes it twice.
MCRotations ==
    {Casts(<<attack, dash, kit, shot, swap, swap>>), Casts(<<kit, attack, stow, dash, swap>>),
     Casts(<<kit, swap, pack>>), Casts(<<dash, shot>>), Casts(<<attack, kit, kit>>)}

With(default, exceptions) ==
    [s \in Skills |-> IF s \in DOMAIN exceptions THEN exceptions[s] ELSE default]

GroupOf ==
    attack :> <<[skill_key |-> slash, weapon_set |-> 1, bundle |-> Nothing],
                [skill_key |-> chop, weapon_set |-> 2, bundle |-> Nothing]>>
EquipBundle == With(Nothing, kit :> "kit")
DropBundle == With(Nothing, stow :> "kit" @@ pack :> "kit")
RequiredBundle == With(Nothing, shot :> "kit")
WeaponSets == With({1, 2}, slash :> {1} @@ chop :> {2})
CastDurations ==
    With(0, slash :> 2 @@ chop :> 2 @@ flip :> 2 @@ kit :> 1 @@ shot :> 1 @@ stow :> 1
            @@ swap :> 2)
ActiveTicks == With(1, slash :> 2 @@ chop :> 2 @@ flip :> 3 @@ swap :> 2)
Cooldowns == With(0, slash :> 3 @@ chop :> 3 @@ proc :> 24 @@ parry :> 2 @@ swap :> 4)
ChildSkills == With(<<>>, slash :> <<flip>>)
On(event, by, s) ==
    [on |-> event, by |-> by, skill_key |-> s, off_cooldown |-> FALSE, random |-> FALSE,
     weapon_set |-> 0, bundle |-> Nothing]
Chained ==
    {[On("strike", slash, proc) EXCEPT !.off_cooldown = TRUE, !.random = TRUE],
     On("finished", proc, counter), On("finished", counter, counter)}
ProcToCounter == On("finished", proc, counter)
Carried == With({}, proc :> {ProcToCounter})
Unchained ==
    {[On("strike", proc, counter) EXCEPT !.random = TRUE],
     [On("finished", swap, counter) EXCEPT !.weapon_set = 2]}
SourceActor == {On("finished", dash, parry)}

\* What the properties of orderly rotations are about is there.
ASSUME Instance == Tame /\ Cardinality(OrderlyRotations) = 2
=============================================================================
