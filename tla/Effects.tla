------------------------------ MODULE Effects ------------------------------
(***************************************************************************)
(* The effects and unique effects on one actor: how applications stack,    *)
(* how long each lasts, what removes it, and what a damaging condition     *)
(* pays.  Every stack is an entity of its own with a duration_component.   *)
(* An application of several stacks is as many steps of Apply.  The three  *)
(* phases are the parts of tick between progress_durations, the damage of  *)
(* conditions, and the destruction of marked entities.                     *)
(***************************************************************************)
EXTENDS Integers, FiniteSets

CONSTANTS
    Effects, UniqueEffects,  \* effect_t and unique_effect_key
    stacking_type,           \* of either: "intensity", "duration" or "replace"
    max_duration,
    max_stored_stacks,       \* of a unique effect
    refreshes_other_stacks,  \* unique effects that do
    damaging,                \* effects that are damaging conditions
    marking,                 \* QUICKNESS and ALACRITY: has_quickness, has_alacrity
    removable,               \* effects and unique effects that some effect_removal names
    Durations,               \* of the applications
    interval,                \* ticks between payments of condition damage (1000)
    MaxEntities              \* bound: stacks on the actor at a time

Kinds == Effects \cup UniqueEffects
Entity == 1..MaxEntities

ASSUME KindsDisjoint == Effects \cap UniqueEffects = {}
ASSUME Stacking ==
    /\ stacking_type \in [Kinds -> {"intensity", "duration", "replace"}]
    /\ max_duration \in [Kinds -> Nat] /\ max_stored_stacks \in [UniqueEffects -> Nat]
    /\ damaging \subseteq Effects /\ removable \subseteq Kinds
    /\ refreshes_other_stacks \subseteq UniqueEffects
(***************************************************************************)
(* Damaging conditions stack in intensity, but for BINDING_BLADE; boons    *)
(* stack in duration (effect_utils.hpp, get_effect_stacking_type).         *)
(***************************************************************************)
ASSUME Marking == marking \subseteq {k \in Effects : stacking_type[k] = "duration"}
ASSUME Times ==
    /\ Durations \subseteq Nat \ {0} /\ interval \in Nat \ {0} /\ MaxEntities \in Nat

VARIABLES
    phase,
    clock,              \* (current_tick + condition_tick_offset) % interval
    effects,            \* the entities: [kind, duration, progress]
    duration_expired, destroy_entity,
    markers,            \* effects of marking whose component the actor has
    unpaid              \* history: what each stack was granted and has not paid

marks == <<duration_expired, destroy_entity>>
vars == <<phase, clock, effects, marks, markers, unpaid>>

Entities == DOMAIN effects

Init ==
    /\ phase = "casting" /\ clock \in 0..(interval - 1)
    /\ effects = [e \in {} |-> 0] /\ unpaid = [e \in {} |-> 0]
    /\ duration_expired = {} /\ destroy_entity = {} /\ markers = {}

Of(kind) == {e \in Entities : effects[e].kind = kind}
Live(kind) == Of(kind) \ destroy_entity
Remaining(e) == effects[e].duration - effects[e].progress

-----------------------------------------------------------------------------
(* add_effect_to_actor and add_unique_effect_to_actor, one stack *)

Smaller(a, b) == IF a < b THEN a ELSE b

Unlimited(kind, left, d) == left + d  \* mutant
Extended(kind, left, d) == Smaller(left + d, max_duration[kind])

StackableUnexpired(kind) == Of(kind) \ duration_expired  \* mutant
Stackable(kind) == Of(kind)

\* An effect that stacks in duration goes on, also when it expired in this tick.
Extend(kind, d) ==
    /\ stacking_type[kind] = "duration"
    /\ \E e \in Stackable(kind) :
          LET longer == Extended(kind, Remaining(e), d) IN
          /\ effects' = [effects EXCEPT ![e].progress = 0, ![e].duration = longer]
          /\ duration_expired' = IF longer > 0 THEN duration_expired \ {e} ELSE duration_expired
    /\ UNCHANGED <<destroy_entity, markers, unpaid>>

OutlastedAnyway(kind, d) == TRUE  \* mutant: the longer one is replaced too
Outlasted(kind, d) == \A e \in Of(kind) : Remaining(e) <= d

\* A unique effect is not stored beyond its limit; marked entities count.
CanStore(kind) ==
    kind \in UniqueEffects => Cardinality(Of(kind)) < max_stored_stacks[kind]

Replaced(kind) ==
    [e \in Entities |-> IF stacking_type[kind] = "replace" /\ e \in Of(kind)
                        THEN [effects[e] EXCEPT !.progress = effects[e].duration]
                        ELSE effects[e]]

Refreshed(kind, others) ==
    [e \in DOMAIN others |-> IF kind \in refreshes_other_stacks /\ others[e].kind = kind
                             THEN [others[e] EXCEPT !.progress = 0]
                             ELSE others[e]]

Fresh == CHOOSE e \in Entity \ Entities : \A f \in Entity \ Entities : e <= f

\* Effects of their own duration, and the first of those that extend or replace.
Create(kind, d) ==
    /\ stacking_type[kind] = "duration" => Stackable(kind) = {}
    /\ stacking_type[kind] = "replace" => Outlasted(kind, d)
    /\ Entities # Entity
    /\ destroy_entity' = IF stacking_type[kind] = "replace" THEN destroy_entity \cup Of(kind)
                         ELSE destroy_entity
    /\ IF CanStore(kind)
       THEN LET new == [kind |-> kind, duration |-> d, progress |-> 0]
                others == Refreshed(kind, Replaced(kind))
            IN  /\ effects' = [e \in Entities \cup {Fresh} |-> IF e = Fresh THEN new ELSE others[e]]
                /\ unpaid' = [e \in Entities \cup {Fresh} |-> IF e = Fresh THEN d ELSE unpaid[e]]
                /\ markers' = markers \cup ({kind} \cap marking)
       ELSE effects' = Replaced(kind) /\ UNCHANGED <<unpaid, markers>>
    /\ UNCHANGED duration_expired

Apply(kind, d) ==
    /\ phase = "effects"
    /\ Extend(kind, d) \/ Create(kind, d)
    /\ UNCHANGED <<phase, clock>>

-----------------------------------------------------------------------------
(* The tick *)

\* effect_removals of apply_side_effects: some or all stacks, marked ones included.  The
\* hooks of finished casts run before progress_durations, the others after.
Remove(kind, removed) ==
    /\ phase \in {"casting", "effects"} /\ kind \in removable
    /\ removed \in SUBSET Of(kind) \ {{}}
    /\ destroy_entity' = destroy_entity \cup removed
    /\ UNCHANGED <<phase, clock, effects, duration_expired, markers, unpaid>>

progress_durations ==
    /\ phase = "casting" /\ phase' = "effects"
    /\ effects' = [e \in Entities |-> [effects[e] EXCEPT !.progress = @ + 1]]
    /\ duration_expired' = {e \in Entities : effects'[e].progress >= effects'[e].duration}
    /\ UNCHANGED <<clock, destroy_entity, markers, unpaid>>

\* The history stops counting at -1, too much.
Pay(owed, amount) == IF owed - amount < -1 THEN -1 ELSE owed - amount

\* buffer_condition_damage pays the progress, into the buffer, and takes it off the duration.
Buffer(paying) ==
    /\ unpaid' = [e \in Entities |-> IF e \in paying THEN Pay(unpaid[e], effects[e].progress)
                                     ELSE unpaid[e]]
    /\ effects' = [e \in Entities |->
            IF e \in paying
            THEN [effects[e] EXCEPT !.duration = Remaining(e), !.progress = 0]
            ELSE effects[e]]

\* Mutant: conditions that expire between two payments never pay.
DueAtIntervals == IF clock = 0 THEN Entities ELSE {}
\* Expired conditions pay at once, all of them when the interval is over (and Pipeline has
\* when the buffer is dealt as damage).
Due == IF clock = 0 THEN Entities ELSE duration_expired

buffer_damage ==
    /\ phase = "effects" /\ phase' = "cleanup"
    /\ Buffer({e \in Due : effects[e].kind \in damaging})
    /\ UNCHANGED <<clock, marks, markers>>

\* cleanup_expired_components, destroy_marked_entities, clear_temporary_components
cleanup ==
    LET remaining == Entities \ (destroy_entity \cup duration_expired) IN
    /\ phase = "cleanup" /\ phase' = "casting"
    /\ clock' = (clock + 1) % interval
    /\ markers' = markers \ {effects[e].kind : e \in duration_expired}
    /\ effects' = [e \in remaining |-> effects[e]]
    /\ unpaid' = [e \in remaining |-> unpaid[e]]
    /\ duration_expired' = {} /\ destroy_entity' = {}

Step == progress_durations \/ buffer_damage \/ cleanup

Next ==
    \/ \E kind \in Kinds, d \in Durations : Apply(kind, d)
    \/ \E kind \in removable : \E removed \in SUBSET Of(kind) : Remove(kind, removed)
    \/ Step

Spec == Init /\ [][Next]_vars

-----------------------------------------------------------------------------
(* Properties *)

Stack == [kind : Kinds, duration : Int, progress : Nat]

\* Every stack is an entity with its components, lasting no longer than an application or
\* than max_duration; only entities are marked.
TypeOK ==
    /\ phase \in {"casting", "effects", "cleanup"} /\ clock \in 0..(interval - 1)
    /\ Entities \subseteq Entity /\ effects \in [Entities -> Stack]
    /\ \A e \in Entities :
          \E d \in Durations \cup {max_duration[effects[e].kind]} : effects[e].duration <= d
    /\ unpaid \in [Entities -> Int]
    /\ duration_expired \cup destroy_entity \subseteq Entities
    /\ markers \subseteq marking

\* Effects that stack in duration are one entity, and of effects that replace each other
\* all but one are about to be destroyed, in whatever order they are applied, expire and
\* are removed within a tick.
OneAtATime ==
    \A kind \in Kinds :
        /\ stacking_type[kind] = "duration" => Cardinality(Of(kind)) <= 1
        /\ stacking_type[kind] = "replace" => Cardinality(Live(kind)) <= 1

\* The actor has has_quickness (has_alacrity) just while the effect lasts, however its
\* extension races its expiry.  A removal leaves the marker behind: for effects that are
\* never removed only.
MarkedWhileItLasts ==
    \A kind \in marking :
        /\ Of(kind) # {} => kind \in markers
        /\ kind \notin removable /\ kind \in markers => Of(kind) # {}

Conditions == {k \in damaging : stacking_type[k] = "intensity"}

\* A damaging condition that runs its course has paid for exactly the time it was granted,
\* wherever its payments fell and in whichever tick it expired.
PaidInFull ==
    [][\A e \in duration_expired \ DOMAIN effects' :
            effects[e].kind \in Conditions => unpaid[e] = 0]_vars

\* While no limit on its duration or its stacks is met, another application never leaves the
\* actor with an effect for less time than it had it.
NeverShortened ==
    [][phase = "effects" /\ phase' = "effects" /\ effects' # effects =>
        \A kind \in Kinds : \A e \in Live(kind) :
            \E f \in Live(kind)' : Remaining(f)' >= Remaining(e)]_vars
=============================================================================
