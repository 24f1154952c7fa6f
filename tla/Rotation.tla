------------------------------ MODULE Rotation ------------------------------
(***************************************************************************)
(* One actor of the encounter, its rotation, and the temporary child       *)
(* actors that triggers and finished casts spawn for it, tick after tick   *)
(* (combat_loop.cpp, tick).  The inner loop of a tick alternates passes of *)
(* perform_rotations over every rotation and of progress_animations over   *)
(* every animation and every finished cast, until neither does anything.   *)
(* Views visit their entities in no particular order.  An actor casts with *)
(* the weapon set it has in hand or with a bundle, which skills equip and  *)
(* drop, and a Weapon Swap drops a bundle or changes the weapon set.       *)
(*                                                                         *)
(* Time is kept as what the code compares: the ticks since tick_offset,    *)
(* and the ticks an animation, a cooldown or a running skill has left.     *)
(* A cast is active until cleanup_skill_ticks_tracker and                  *)
(* cleanup_skill_actions have removed it.                                  *)
(***************************************************************************)
EXTENDS Integers, FiniteSets, Sequences, SequencesExt

CONSTANTS
    Skills,
    WeaponSwap,       \* the skill of that name
    Groups,           \* conditional skill groups
    conditional_skill_keys,  \* of a group: [skill_key, weapon_set, bundle] in order
    Bundles,
    equip_bundle, drop_bundle, required_bundle,  \* of a skill, or Nothing
    weapon_sets,      \* those with a weapon the skill can be cast with
    Rotations,        \* the skill_casts an actor may have: [skill, cast_time_ms], where a
                      \* group may stand for a skill
    repeat,
    cast_duration,    \* ticks of the animation, 0 for an instant cast; quickness is left out
    active_ticks,     \* ticks until the cast has run its skill ticks and actions
    cooldown,         \* ticks, 0 for none; every skill has one charge
    strikes,          \* skills that strike in the tick they are cast
    child_skill_keys, \* spawned when the skill finishes
    skill_triggers, unchained_skill_triggers, source_actor_skill_triggers,
                      \* of the actor: [on, by, skill_key, off_cooldown, random, weapon_set,
                      \* bundle], the last two 0 and Nothing when any will do
    carried,          \* those of them a skill brings along for every actor that has it
    MaxChildren,      \* bound: child actors alive at a time
    Nobody,           \* no animation
    Nothing           \* no bundle

Triggers == skill_triggers \cup unchained_skill_triggers \cup source_actor_skill_triggers

ASSUME Configuration ==
    /\ WeaponSwap \in Skills /\ Skills \cap Groups = {} /\ Nothing \notin Bundles
    /\ Rotations \subseteq Seq([skill : Skills \cup Groups, cast_time_ms : Nat])
    /\ conditional_skill_keys \in
          [Groups -> Seq([skill_key : Skills, weapon_set : 0..2, bundle : Bundles \cup {Nothing}])]
    /\ {equip_bundle, drop_bundle, required_bundle} \subseteq [Skills -> Bundles \cup {Nothing}]
    /\ weapon_sets \in [Skills -> SUBSET {1, 2}]
    /\ repeat \in BOOLEAN /\ (repeat => <<>> \notin Rotations)
    /\ cast_duration \in [Skills -> Nat] /\ cooldown \in [Skills -> Nat]
    /\ \A s \in Skills : active_ticks[s] \in Nat \ {0} /\ active_ticks[s] >= cast_duration[s]
    /\ child_skill_keys \in [Skills -> Seq(Skills)]
    /\ Triggers \subseteq [on : {"finished", "strike"}, by : Skills, skill_key : Skills,
                           off_cooldown : BOOLEAN, random : BOOLEAN, weapon_set : 0..2,
                           bundle : Bundles \cup {Nothing}]
    /\ carried \in [Skills -> SUBSET Triggers]
    /\ IsFiniteSet(Skills) /\ IsFiniteSet(Triggers) /\ MaxChildren \in Nat
    /\ Nobody \notin [skill : Skills, left : Int]

Actor == 0
Children == 1..MaxChildren
Entities == {Actor} \cup Children

VARIABLES
    rotation,          \* the actor's skill_casts
    phase,             \* "rotations", "animations" and "finished" are the inner loop
    todo,              \* entities the current view has still to visit
    progressed,        \* repeat in tick: this round of the inner loop did something
    alive,             \* child actors in the registry
    skills_of,         \* the skills of a child actor, fixed when it is created
    current_idx, elapsed,  \* of the actor; current_tick - tick_offset
    queued_rotation,
    no_more_rotation, already_performed_rotation,
    animation,         \* Nobody, or [skill, left]
    already_performed_animation, animation_expired,
    finished_casting_skills, already_finished_casting_skill,
    casting,           \* skills_ticks_tracker and skills_actions: [skill, left]
    incoming_strikes,  \* strikes whose hooks have not run: [actor, index in casting]
    on_cooldown,       \* ticks left, 0 without a cooldown_component
    already_triggered,
    bundle,            \* bundle_component, or Nothing
    current_weapon_set,  \* of the actor
    equipped_bundle, dropped_bundle,  \* in this tick
    audited_bundle,    \* what those who replay the events of the audit take for bundle
    failed             \* an exception ended the run

loop == <<phase, todo, progressed>>
turn == <<rotation, current_idx, elapsed, queued_rotation>>
rotations == <<turn, no_more_rotation, already_performed_rotation>>
animations == <<animation, already_performed_animation, animation_expired>>
finished == <<finished_casting_skills, already_finished_casting_skill>>
hooks == <<incoming_strikes, already_triggered>>
equipment == <<bundle, current_weapon_set, equipped_bundle, dropped_bundle, audited_bundle>>
children == <<alive, skills_of>>
vars == <<loop, children, rotations, animations, finished, casting, on_cooldown,
          hooks, equipment, failed>>

MaxCastTime == Max({0} \cup {rotation[i].cast_time_ms : i \in DOMAIN rotation})

Init ==
    /\ rotation \in Rotations
    /\ phase = "rotations" /\ todo = {Actor} /\ progressed = FALSE
    /\ alive = {} /\ skills_of = [c \in Children |-> {}]
    /\ current_idx = 0 /\ elapsed = 0
    /\ queued_rotation = [e \in Entities |-> <<>>]
    /\ no_more_rotation = {} /\ already_performed_rotation = {}
    /\ animation = [e \in Entities |-> Nobody]
    /\ already_performed_animation = {} /\ animation_expired = {}
    /\ finished_casting_skills = [e \in Entities |-> <<>>]
    /\ already_finished_casting_skill = {}
    /\ casting = [e \in Entities |-> <<>>] /\ incoming_strikes = {}
    /\ on_cooldown = [s \in Skills |-> 0]
    /\ already_triggered = {}
    /\ current_weapon_set = 1
    /\ bundle = [e \in Entities |-> Nothing] /\ audited_bundle = [e \in Entities |-> Nothing]
    /\ equipped_bundle = [e \in Entities |-> Nothing]
    /\ dropped_bundle = [e \in Entities |-> Nothing]
    /\ failed = FALSE

In(p) == ~failed /\ phase = p
Visit(e) == e \in todo /\ todo' = todo \ {e}

-----------------------------------------------------------------------------
(* perform_rotations *)

HasQueued(e) == queued_rotation[e] # <<>>

ActiveOnce(e) == e \notin already_performed_rotation  \* mutant: queued casts wait for the next tick

\* A rotation is looked at once a tick, and again while casts are queued.
Active(e) == e \notin already_performed_rotation \/ HasQueued(e)

\* Child actors have no rotation but their queue.
OutOfCasts(e) == ~HasQueued(e) /\ (e # Actor \/ current_idx >= Len(rotation))

Restarts(e) == OutOfCasts(e) /\ e = Actor /\ repeat
NextIdx(e) == IF Restarts(e) THEN 0 ELSE current_idx
NextElapsed(e) == IF Restarts(e) THEN 0 ELSE elapsed

\* Queued casts have no cast time to wait for.
NextCast(e) ==
    IF HasQueued(e) THEN [skill |-> Head(queued_rotation[e]), cast_time_ms |-> 0]
    ELSE rotation[NextIdx(e) + 1]

\* Conditions on the source actor, whoever casts or strikes.
Holds(condition, set, held) ==
    /\ condition.weapon_set \in {0, set}
    /\ condition.bundle \in {Nothing, held}

\* get_skill_entity: of a group the first skill whose condition holds; none throws.
Options(e) ==
    LET key == NextCast(e).skill IN
    IF key \in Skills THEN <<[skill_key |-> key, weapon_set |-> 0, bundle |-> Nothing]>>
    ELSE conditional_skill_keys[key]
Offered(e) ==
    {i \in DOMAIN Options(e) : Holds(Options(e)[i], current_weapon_set, bundle[Actor])}
NextSkill(e) == Options(e)[Min(Offered(e))].skill_key

Due(e) == NextElapsed(e) >= NextCast(e).cast_time_ms

DropsNoBundle(e, s) == FALSE  \* mutant: a swap that drops a bundle is paid for as well

\* A swap that drops a bundle neither needs nor takes the charge.
DropsBundle(e, s) == s = WeaponSwap /\ bundle[e] # Nothing

HasCharge(e, s) == on_cooldown[s] = 0 \/ DropsBundle(e, s)

\* What can_cast_skill asks of the actor besides the charge.  A child actor casts a copy of
\* the skill, with a charge of its own, and may always cast.  Cast conditions are left out.
can_cast_skill(e, s) ==
    e = Actor => IF required_bundle[s] = Nothing THEN current_weapon_set \in weapon_sets[s]
                 ELSE bundle[e] = required_bundle[s]

CanStart(e) ==
    /\ Due(e) /\ Offered(e) # {}
    /\ cast_duration[NextSkill(e)] = 0 \/ animation[e] = Nobody
    /\ e = Actor => HasCharge(e, NextSkill(e))

Members(g) == {conditional_skill_keys[g][i].skill_key : i \in DOMAIN conditional_skill_keys[g]}

\* put_skill_on_cooldown_for_actor: the skills of a group are put on cooldown together.
Paying(s) == {s} \cup UNION {Members(g) : g \in {h \in Groups : s \in Members(h)}}

\* finish_casting_skill: the actor's skill pays, also for a child actor's cast, and a
\* skill without a charge throws.
FinishCasting(e, s) ==
    LET paying == IF DropsBundle(e, s) THEN {} ELSE Paying(s) IN
    /\ finished_casting_skills' = [finished_casting_skills EXCEPT ![e] = Append(@, s)]
    /\ failed' = (\E p \in paying : on_cooldown[p] > 0)
    /\ on_cooldown' = [p \in Skills |-> IF p \in paying /\ on_cooldown[p] = 0 THEN cooldown[p]
                                       ELSE on_cooldown[p]]

SkipRotation(e) ==
    /\ In("rotations") /\ Visit(e) /\ ~Active(e)
    /\ UNCHANGED <<phase, progressed, children, rotations, animations, finished, casting,
                   on_cooldown, hooks, equipment, failed>>

Perform(e) ==
    /\ In("rotations") /\ Visit(e) /\ Active(e)
    /\ already_performed_rotation' = already_performed_rotation \cup {e}
    /\ UNCHANGED <<phase, children, already_performed_animation, animation_expired,
                   already_finished_casting_skill, hooks, equipment>>

EndRotation(e) ==
    /\ Perform(e) /\ OutOfCasts(e) /\ ~Restarts(e)
    /\ no_more_rotation' = no_more_rotation \cup {e}
    /\ UNCHANGED <<progressed, turn, animation, finished_casting_skills, casting, on_cooldown,
                   failed>>

\* The next cast has to wait; a rotation that starts over has done so.
WaitRotation(e) ==
    /\ Perform(e) /\ (OutOfCasts(e) => Restarts(e)) /\ ~CanStart(e)
    /\ Due(e) => Offered(e) # {}
    /\ UNCHANGED rotation
    /\ current_idx' = NextIdx(e) /\ elapsed' = NextElapsed(e)
    /\ UNCHANGED <<progressed, queued_rotation, no_more_rotation, animation,
                   finished_casting_skills, casting, on_cooldown, failed>>

Unpopped(queue) == queue  \* mutant: a queued cast stays in the queue
Popped(queue) == IF queue = <<>> THEN queue ELSE Tail(queue)

\* No skill of the group is in order, or the actor lacks its weapon or its bundle.
RotationThrows(e) ==
    /\ Perform(e) /\ (OutOfCasts(e) => Restarts(e)) /\ Due(e)
    /\ Offered(e) = {} \/ (CanStart(e) /\ ~can_cast_skill(e, NextSkill(e)))
    /\ failed' = TRUE
    /\ UNCHANGED <<progressed, turn, no_more_rotation, animation, finished_casting_skills,
                   casting, on_cooldown>>

\* The next cast begins; an instant one also finishes.
StartCast(e) ==
    LET s == NextSkill(e) IN
    /\ Perform(e) /\ (OutOfCasts(e) => Restarts(e)) /\ CanStart(e)
    /\ can_cast_skill(e, s)
    /\ progressed' = TRUE
    /\ casting' = [casting EXCEPT ![e] = Append(@, [skill |-> s, left |-> active_ticks[s]])]
    /\ queued_rotation' = [queued_rotation EXCEPT ![e] = Popped(@)]
    /\ current_idx' = IF HasQueued(e) THEN current_idx ELSE NextIdx(e) + 1
    /\ elapsed' = NextElapsed(e) /\ UNCHANGED rotation
    /\ IF cast_duration[s] = 0
       THEN FinishCasting(e, s) /\ UNCHANGED animation
       ELSE /\ animation' = [animation EXCEPT ![e] = [skill |-> s, left |-> cast_duration[s]]]
            /\ UNCHANGED <<finished_casting_skills, on_cooldown, failed>>
    /\ UNCHANGED no_more_rotation

\* progress_animations views the animations there are after the pass.
EndRotationPass ==
    /\ In("rotations") /\ todo = {}
    /\ phase' = "animations"
    /\ todo' = {e \in Entities : animation[e] # Nobody} \ already_performed_animation
    /\ UNCHANGED <<progressed, children, rotations, animations, finished, casting, on_cooldown,
                   hooks, equipment, failed>>

-----------------------------------------------------------------------------
(* progress_animations: first the animations, then the finished casts *)

\* Once a tick; the component stays until cleanup, so no other animation starts before.
ProgressAnimation(e) ==
    /\ In("animations") /\ Visit(e)
    /\ progressed' = TRUE
    /\ already_performed_animation' = already_performed_animation \cup {e}
    /\ animation' = [animation EXCEPT ![e].left = @ - 1]
    /\ IF animation[e].left = 1
       THEN /\ animation_expired' = animation_expired \cup {e}
            /\ FinishCasting(e, animation[e].skill)
       ELSE UNCHANGED <<animation_expired, finished_casting_skills, on_cooldown, failed>>
    /\ UNCHANGED <<phase, children, rotations, already_finished_casting_skill, casting,
                   hooks, equipment>>

EndAnimationPass ==
    /\ In("animations") /\ todo = {}
    /\ phase' = "finished"
    /\ todo' = {e \in Entities : finished_casting_skills[e] # <<>>}
    /\ UNCHANGED <<progressed, children, rotations, animations, finished, casting, on_cooldown,
                   hooks, equipment, failed>>

\* enqueue_child_skills: one new child actor for every queue of the batch.
Free(i) ==
    CHOOSE c \in Children \ alive : Cardinality({d \in Children \ alive : d < c}) = i - 1

\* add_skill_to_actor adds the child skills of a skill as well, and theirs.
SkillsWith ==
    LET more[n \in 0..Cardinality(Skills)] ==
            IF n = 0 THEN [s \in Skills |-> {s}]
            ELSE LET fewer == more[n - 1]
                 IN [s \in Skills |-> fewer[s] \cup UNION {Range(child_skill_keys[t]) : t \in fewer[s]}]
    IN  more[Cardinality(Skills)]

Spawn(batch, to_actor) ==
    LET born == {Free(i) : i \in 1..Len(batch)} IN
    /\ Len(batch) <= Cardinality(Children \ alive)
    /\ alive' = alive \cup born
    /\ queued_rotation' = [e \in Entities |->
            IF e \in born THEN batch[CHOOSE i \in 1..Len(batch) : Free(i) = e]
            ELSE IF e = Actor THEN queued_rotation[e] \o to_actor ELSE queued_rotation[e]]
    /\ skills_of' = [c \in Children |->
            IF c \in born THEN UNION {SkillsWith[s] : s \in Range(queued_rotation'[c])}
            ELSE skills_of[c]]

\* A trigger is an entity of the actor, and of every child actor whose skills carry it.
Copies(triggers) ==
    {copy \in triggers \X (alive \cup {Actor}) :
        copy[2] = Actor \/ \E s \in skills_of[copy[2]] : copy[1] \in carried[s]}

\* Mutant: triggers do not look at the cooldown of their skill.
SatisfiedAnytime(trigger, on, by, set, held) ==
    /\ trigger.on = on /\ trigger.by = by
    /\ Holds(trigger, set, held)

\* The conditions of a trigger, with the actor's weapon set and bundle; random numbers
\* decide the others.
Satisfied(trigger, on, by, set, held) ==
    /\ trigger.on = on /\ trigger.by = by
    /\ trigger.off_cooldown => on_cooldown[trigger.skill_key] = 0
    /\ Holds(trigger, set, held)

Queued(copies) ==
    LET order == SetToSeq(copies) IN [i \in DOMAIN order |-> order[i][1].skill_key]
Queues(copies) == LET keys == Queued(copies) IN [i \in DOMAIN keys |-> <<keys[i]>>]

\* apply_side_effects for one event: a skill trigger fires once a tick, the others every time.
FireMarking(on, by, more, set, held, marks) ==
    LET due == {copy \in Copies(Triggers) : Satisfied(copy[1], on, by, set, held)} IN
    \E luck \in SUBSET {copy \in due : copy[1].random} :
        LET fires(triggers) == {copy \in due : /\ copy[1] \in triggers
                                               /\ copy[1].random => copy \in luck}
            chained == fires(skill_triggers) \ already_triggered
        IN  /\ Spawn(Queues(chained) \o Queues(fires(unchained_skill_triggers)) \o more,
                     Queued(fires(source_actor_skill_triggers)))
            /\ already_triggered' = already_triggered \cup {c \in chained : c[1] \in marks}

FireUnmarked(on, by, more, set, held) == FireMarking(on, by, more, set, held, {})  \* mutant
Fire(on, by, more, set, held) == FireMarking(on, by, more, set, held, skill_triggers)

Unhooked(e) ==
    {i \in DOMAIN finished_casting_skills[e] :
        <<e, finished_casting_skills[e][i]>> \notin already_finished_casting_skill}

NextUnhooked(e) == finished_casting_skills[e][Min(Unhooked(e))]

Swapped(e, s) == s = WeaponSwap /\ bundle[e] = Nothing

\* Equipping a second bundle is an assertion failure (undefined when those are off).
CannotEquip(e, s) ==
    IF equip_bundle[s] # Nothing THEN bundle[e] # Nothing
    ELSE IF drop_bundle[s] # Nothing THEN bundle[e] \notin {"*", drop_bundle[s]}
    ELSE Swapped(e, s) /\ e # Actor

SetAfter(e, s) == IF Swapped(e, s) THEN 3 - current_weapon_set ELSE current_weapon_set

BundleAfter(e, s) ==
    IF equip_bundle[s] # Nothing THEN equip_bundle[s]
    ELSE IF drop_bundle[s] # Nothing \/ DropsBundle(e, s) THEN Nothing
    ELSE bundle[e]

EquipSilently(e, s) ==  \* mutant: a Weapon Swap drops a bundle unseen
    /\ bundle' = [bundle EXCEPT ![e] = BundleAfter(e, s)]
    /\ equipped_bundle' = [equipped_bundle EXCEPT ![e] =
            IF equip_bundle[s] # Nothing THEN equip_bundle[s] ELSE @]
    /\ dropped_bundle' = [dropped_bundle EXCEPT ![e] =
            IF drop_bundle[s] # Nothing THEN bundle[e] ELSE @]
    /\ current_weapon_set' = SetAfter(e, s)
    /\ UNCHANGED audited_bundle

\* The actor is taken to have a weapon in both sets; a child actor has none.
Equip(e, s) ==
    /\ bundle' = [bundle EXCEPT ![e] = BundleAfter(e, s)]
    /\ equipped_bundle' = [equipped_bundle EXCEPT ![e] =
            IF equip_bundle[s] # Nothing THEN equip_bundle[s] ELSE @]
    /\ dropped_bundle' = [dropped_bundle EXCEPT ![e] =
            IF bundle[e] # Nothing /\ BundleAfter(e, s) = Nothing THEN bundle[e] ELSE @]
    /\ current_weapon_set' = SetAfter(e, s)
    /\ UNCHANGED audited_bundle

HookThrows(e) ==
    /\ In("finished") /\ e \in todo /\ Unhooked(e) # {}
    /\ CannotEquip(e, NextUnhooked(e))
    /\ failed' = TRUE
    /\ UNCHANGED <<loop, children, rotations, animations, finished, casting, on_cooldown, hooks,
                   equipment>>

\* Bundles and weapons change before the conditions of the triggers are looked at.
HookFinishedCast(e) ==
    LET s == NextUnhooked(e) IN
    /\ In("finished") /\ e \in todo /\ Unhooked(e) # {}
    /\ ~CannotEquip(e, s)
    /\ already_finished_casting_skill' = already_finished_casting_skill \cup {<<e, s>>}
    /\ progressed' = TRUE
    /\ Equip(e, s)
    /\ Fire("finished", s, IF child_skill_keys[s] = <<>> THEN <<>> ELSE <<child_skill_keys[s]>>,
            SetAfter(e, s), IF e = Actor THEN BundleAfter(e, s) ELSE bundle[Actor])
    /\ UNCHANGED <<phase, todo, rotation, current_idx, elapsed, no_more_rotation,
                   already_performed_rotation, animations, finished_casting_skills, casting,
                   on_cooldown, incoming_strikes, failed>>

LeaveFinishedCasts(e) ==
    /\ In("finished") /\ Visit(e) /\ Unhooked(e) = {}
    /\ UNCHANGED <<phase, progressed, children, rotations, animations, finished, casting,
                   on_cooldown, hooks, equipment, failed>>

\* The inner loop of tick goes round again if anything was done.
EndRound ==
    /\ In("finished") /\ todo = {}
    /\ progressed' = FALSE
    /\ IF progressed
       THEN phase' = "rotations" /\ todo' = (alive \cup {Actor}) \ no_more_rotation
       ELSE phase' = "ticks" /\ todo' = {}
    /\ UNCHANGED <<children, rotations, animations, finished, casting, on_cooldown,
                   hooks, equipment, failed>>

-----------------------------------------------------------------------------
(* The rest of the tick *)

\* perform_skill_ticks and perform_skills: a cast strikes in its first tick.
Strikes(c) == c.skill \in strikes /\ c.left = active_ticks[c.skill]

PerformSkills ==
    /\ In("ticks") /\ phase' = "strikes"
    /\ incoming_strikes' = UNION {{e} \X {i \in DOMAIN casting[e] : Strikes(casting[e][i])} :
                                     e \in Entities}
    /\ casting' = [e \in Entities |->
            [i \in DOMAIN casting[e] |-> [casting[e][i] EXCEPT !.left = @ - 1]]]
    /\ UNCHANGED <<todo, progressed, children, rotations, animations, finished, on_cooldown,
                   already_triggered, equipment, failed>>

\* on_strike_hooks: every strike runs the side effects on its own.
HookStrike(strike) ==
    /\ In("strikes") /\ strike \in incoming_strikes
    /\ incoming_strikes' = incoming_strikes \ {strike}
    /\ UNCHANGED equipment
    /\ Fire("strike", casting[strike[1]][strike[2]].skill, <<>>, current_weapon_set,
            bundle[Actor])
    /\ UNCHANGED <<loop, rotation, current_idx, elapsed, no_more_rotation, already_performed_rotation,
                   animations, finished, casting, on_cooldown, failed>>

OutOfRotationCasting == alive \cap no_more_rotation  \* mutant: running casts are overlooked

\* destroy_actors_with_no_rotation, before cleanup_skill_ticks_tracker: a cast that ends in
\* this tick keeps its actor for another one.
OutOfRotation == {e \in alive \cap no_more_rotation : casting[e] = <<>>}

StillActive(e) ==
    LET kept[n \in 0..Len(casting[e])] ==
            IF n = 0 THEN <<>>
            ELSE IF casting[e][n].left > 0 THEN Append(kept[n - 1], casting[e][n])
            ELSE kept[n - 1]
    IN  kept[Len(casting[e])]

\* audit_bundles lists what was equipped in the tick before what was dropped.
Replayed(e) ==
    LET equipped == IF equipped_bundle[e] = Nothing THEN audited_bundle[e] ELSE equipped_bundle[e]
    IN  IF dropped_bundle[e] = equipped THEN Nothing ELSE equipped

\* From progress_cooldowns on nothing reads the charges; the cooldown_component stays until
\* cleanup_expired_components.
EndTick ==
    LET gone == OutOfRotation
        remaining == alive \ gone IN
    /\ In("strikes") /\ incoming_strikes = {}
    /\ alive' = remaining
    /\ skills_of' = [c \in Children |-> IF c \in gone THEN {} ELSE skills_of[c]]
    /\ animation' = [e \in Entities |->
            IF e \in animation_expired \cup gone THEN Nobody ELSE animation[e]]
    /\ casting' = [e \in Entities |-> StillActive(e)]
    /\ queued_rotation' = [e \in Entities |-> IF e \in gone THEN <<>> ELSE queued_rotation[e]]
    /\ no_more_rotation' = no_more_rotation \ gone
    /\ on_cooldown' = [s \in Skills |-> IF on_cooldown[s] = 0 THEN 0 ELSE on_cooldown[s] - 1]
    /\ finished_casting_skills' = [e \in Entities |-> <<>>]
    /\ audited_bundle' = [e \in Entities |-> IF e \in gone THEN Nothing ELSE Replayed(e)]
    /\ bundle' = [e \in Entities |-> IF e \in gone THEN Nothing ELSE bundle[e]]
    /\ equipped_bundle' = [e \in Entities |-> Nothing]
    /\ dropped_bundle' = [e \in Entities |-> Nothing]
    /\ animation_expired' = {}
    /\ already_performed_rotation' = {} /\ already_performed_animation' = {}
    /\ already_finished_casting_skill' = {} /\ already_triggered' = {}
    /\ elapsed' = Min({elapsed + 1, MaxCastTime})
    /\ phase' = "rotations"
    /\ todo' = (remaining \cup {Actor}) \ no_more_rotation'
    /\ UNCHANGED <<progressed, rotation, current_idx, incoming_strikes, current_weapon_set, failed>>

Next ==
    \/ \E e \in Entities :
          \/ SkipRotation(e) \/ EndRotation(e) \/ WaitRotation(e) \/ StartCast(e)
          \/ RotationThrows(e)
          \/ ProgressAnimation(e)
          \/ HookThrows(e) \/ HookFinishedCast(e) \/ LeaveFinishedCasts(e)
    \/ EndRotationPass \/ EndAnimationPass \/ EndRound
    \/ PerformSkills
    \/ \E strike \in incoming_strikes : HookStrike(strike)
    \/ EndTick

Spec == Init /\ [][Next]_vars

(***************************************************************************)
(* One thread runs the loop: it takes a step whenever there is one.        *)
(***************************************************************************)
FairSpec == Spec /\ WF_vars(Next)

-----------------------------------------------------------------------------
(* Properties *)

Phases == {"rotations", "animations", "finished", "ticks", "strikes"}

CastOf == [skill : Skills, left : Int]

\* Every component belongs to an actor in the registry and holds values of its C++ type; no
\* cooldown is longer than its skill's.
TypeOK ==
    /\ phase \in Phases /\ progressed \in BOOLEAN /\ failed \in BOOLEAN
    /\ alive \subseteq Children
    /\ \A e \in Children \ alive :
          /\ queued_rotation[e] = <<>> /\ animation[e] = Nobody /\ casting[e] = <<>>
          /\ e \notin todo \cup no_more_rotation
    /\ current_idx \in 0..Len(rotation) /\ elapsed \in 0..MaxCastTime
    /\ \A e \in Entities :
          /\ queued_rotation[e] \in Seq(Skills) /\ finished_casting_skills[e] \in Seq(Skills)
          /\ animation[e] = Nobody \/ animation[e] \in CastOf
          /\ casting[e] \in Seq(CastOf)
    /\ todo \cup already_performed_rotation \cup already_performed_animation
          \cup animation_expired \cup no_more_rotation \subseteq Entities
    /\ already_finished_casting_skill \subseteq Entities \X Skills
    /\ \A s \in Skills : on_cooldown[s] \in 0..cooldown[s]
    /\ skills_of \in [Children -> SUBSET Skills]
    /\ already_triggered \subseteq skill_triggers \X Entities
    /\ {bundle, equipped_bundle, dropped_bundle} \subseteq [Entities -> Bundles \cup {Nothing}]
    /\ current_weapon_set \in {1, 2}

\* The inner loop of every tick ends, although the casts that triggers spawn finish, and
\* trigger, within it.  Needs every cycle of triggers to go through one that fires once a
\* tick (is_skill_trigger::already_triggered) or through a cast that takes time, and that
\* no trigger of the cycle is carried by a skill of it: every child actor that casts the skill
\* has a trigger of its own, with a mark of its own.
EveryTickEnds == phase = "rotations" ~> (phase = "strikes" \/ failed)

\* When the inner loop ends, nothing is left of what it does: every cast that ended has run
\* its hooks, also one that a trigger spawned in the last round, every animation there is
\* has advanced once, and no queued cast could have begun.
NothingLeftUndone ==
    phase = "ticks" /\ ~failed =>
        \A e \in alive \cup {Actor} :
            /\ Unhooked(e) = {}
            /\ animation[e] # Nobody => e \in already_performed_animation
            /\ HasQueued(e) /\ CanStart(e) => e \in no_more_rotation

Changes(s) == equip_bundle[s] # Nothing \/ drop_bundle[s] # Nothing \/ s = WeaponSwap
Uses(s) == required_bundle[s] # Nothing \/ weapon_sets[s] # {1, 2}

\* A rotation r read cast by cast: the index of the next cast, and the weapon set and the
\* bundle that those before it leave.
Start == [idx |-> 0, set |-> 1, bundle |-> Nothing]

SkillAt(r, at) ==
    LET key == r[at.idx + 1].skill
        options == conditional_skill_keys[key]
        offered == {i \in DOMAIN options : Holds(options[i], at.set, at.bundle)}
    IN  IF key \in Skills THEN key ELSE options[Min(offered)].skill_key

After(r, at) ==
    LET s == SkillAt(r, at) IN
    IF at.idx = Len(r) THEN [at EXCEPT !.idx = IF repeat THEN 0 ELSE @]
    ELSE [idx |-> at.idx + 1,
          set |-> IF s = WeaponSwap /\ at.bundle = Nothing THEN 3 - at.set ELSE at.set,
          bundle |-> IF equip_bundle[s] # Nothing THEN equip_bundle[s]
                     ELSE IF Changes(s) THEN Nothing ELSE at.bundle]

\* As many steps as there are different ones to come to.
Reading(r) ==
    LET at[n \in 0..(Len(r) + 1) * 2 * (Cardinality(Bundles) + 1)] ==
            IF n = 0 THEN Start ELSE After(r, at[n - 1])
    IN  Range(at)

\* Skills that use or change the weapon set or the bundle are animated, so that none of them
\* begins before the one before it has ended.
Fits(s, at) ==
    /\ IF required_bundle[s] = Nothing THEN at.set \in weapon_sets[s]
       ELSE at.bundle = required_bundle[s]
    /\ equip_bundle[s] # Nothing => at.bundle = Nothing
    /\ drop_bundle[s] # Nothing => at.bundle = drop_bundle[s]
    /\ Uses(s) \/ Changes(s) => cast_duration[s] > 0

\* A group has a skill for whatever the actor holds, and is looked at while a swap animates.
Suits(g) ==
    /\ \A set \in {1, 2}, held \in Bundles \cup {Nothing} :
          \E i \in DOMAIN conditional_skill_keys[g] : Holds(conditional_skill_keys[g][i], set, held)
    /\ \A s \in Members(g) : cast_duration[s] > 0

\* What the casts of a rotation can be, what child actors cast, and what triggers make the
\* actor cast.
Planned(r) ==
    UNION {IF cast.skill \in Skills THEN {cast.skill} ELSE Members(cast.skill) : cast \in Range(r)}
Spawned ==
    {t.skill_key : t \in skill_triggers \cup unchained_skill_triggers}
        \cup UNION {Range(child_skill_keys[s]) : s \in Skills}
Prompted == {t.skill_key : t \in source_actor_skill_triggers}

\* A skill that only one trigger of the actor casts, once a tick and only off cooldown.
Guards(t, s) ==
    /\ t \in skill_triggers /\ t.skill_key = s /\ t.off_cooldown
    /\ t \notin unchained_skill_triggers \cup source_actor_skill_triggers
    /\ \A u \in Triggers : u.skill_key \in Paying(s) => u = t
    /\ \A o \in Skills : t \notin carried[o] /\ Range(child_skill_keys[o]) \cap Paying(s) = {}

\* Each cast of the rotation finds the weapon set and the bundle it needs as the casts before
\* it leave them, and no proc takes its charge.
Orderly(r) ==
    /\ \A cast \in Range(r) : cast.skill \in Groups => Suits(cast.skill)
    /\ Start \in Reading(r)
    /\ \A at \in Reading(r) :
          /\ After(r, at) \in Reading(r)
          /\ at.idx < Len(r) => Fits(SkillAt(r, at), at)
    /\ \A s \in Spawned : cooldown[s] > 0 => Planned(r) \cap Paying(s) = {}
OrderlyRotations == {r \in Rotations : Orderly(r)}

\* Procs leave weapons and bundles alone, skills of a group are alike in what they pay, a proc
\* with a cooldown is instant and guarded, and a Weapon Swap pays for itself.
Tame ==
    /\ \A s \in Spawned \cup Prompted : ~Changes(s)
    /\ \A s \in Prompted : ~Uses(s)
    /\ \A s \in Skills : \A p \in Paying(s) :
          /\ Paying(p) = Paying(s) /\ cooldown[p] = cooldown[s]
          /\ cast_duration[p] = 0 <=> cast_duration[s] = 0
    /\ \A s \in Spawned :
          cooldown[s] > 0 => cast_duration[s] = 0 /\ \E t \in Triggers : Guards(t, s)
    /\ Paying(WeaponSwap) = {WeaponSwap} /\ cooldown[WeaponSwap] > 0

\* An orderly rotation never throws, although its casts may still be animating when the next
\* one is looked at and procs fire in between.  A proc that fires only while its skill is
\* off cooldown never finds, when the child actor it spawned comes to cast, that another one
\* has taken the charge, and a swap that dropped a bundle does not leave the next one short.
CastsFindWhatTheyNeed == Tame /\ rotation \in OrderlyRotations => ~failed

\* A Weapon Swap is paid for, when its animation ends, just if it will change the weapon set
\* and not drop a bundle when its hooks run later in the tick.  In other rotations an
\* instant skill can come between the two and have the set changed for free.
SwapsArePaidFor ==
    Tame /\ rotation \in OrderlyRotations =>
        \A i \in Unhooked(Actor) :
            finished_casting_skills[Actor][i] = WeaponSwap
                => (bundle[Actor] = Nothing <=> on_cooldown[WeaponSwap] = cooldown[WeaponSwap])

\* Whoever replays the bundles equipped and dropped in the audit knows the bundle every actor
\* holds, whichever casts and swaps of a tick changed it.  Needs that no bundle is dropped
\* and equipped again within one tick.
AuditTellsTheBundle == \A e \in alive \cup {Actor} : Replayed(e) = bundle[e]

\* Every cast of a repeated rotation comes round again: neither the source actor casts,
\* which take precedence, nor their cooldowns keep the rotation waiting forever.
RotationGoesRound ==
    \A i \in 1..Max({Len(r) : r \in Rotations}) :
        []<>(current_idx = i \/ failed \/ i > Len(rotation))
=============================================================================
