------------------------------ MODULE Cooldown ------------------------------
(***************************************************************************)
(* Charges and cooldowns of the skills one actor owns, through the phases  *)
(* of a tick (combat_loop.cpp, tick): casts finish, cooldowns progress,    *)
(* skill ticks run, side effects run, expired components are removed.  An  *)
(* entity's component is modelled as the registry keeps it: a set holds    *)
(* the skills that have it.                                                *)
(***************************************************************************)
EXTENDS Integers, FiniteSets, Sequences

CONSTANTS
    Skills, NoSkill,
    max_ammo,           \* component::ammo::max_ammo
    cooldown,           \* skill_t::cooldown: [0 |-> without, 1 |-> with alacrity]
    group,              \* members of the skill's conditional group, in order; <<s>> without one
    also_put,           \* skill_t::skills_to_put_on_cooldown, in order
    tick_puts,          \* skills that some skill tick puts on cooldown
    child_skills,       \* skills that child actors cast for their owner
    instant,            \* skills with cast_duration[0] = 0
    cooldown_modifiers, \* the actor's modifiers, whatever their conditions
    require_afk_skills,
    MaxShift            \* bound: how far a modifier may move a progress out of its range

Index == {0, 1}

ASSUME SkillsFinite == IsFiniteSet(Skills) /\ NoSkill \notin Skills
ASSUME ChargesPositive == max_ammo \in [Skills -> Nat \ {0}]
(***************************************************************************)
(* cooldown[1] divides as soon as the cooldown runs (temporal.cpp:170).    *)
(***************************************************************************)
ASSUME CooldownsBoth ==
    /\ cooldown \in [Skills -> [Index -> Nat]]
    /\ \A s \in Skills : cooldown[s][0] > 0 => cooldown[s][1] > 0
ASSUME GroupsAndPuts ==
    /\ group \in [Skills -> Seq(Skills)] /\ also_put \in [Skills -> Seq(Skills)]
    /\ tick_puts \subseteq Skills /\ child_skills \subseteq Skills /\ instant \subseteq Skills
ASSUME Options == require_afk_skills \in BOOLEAN /\ MaxShift \in Nat
ASSUME ModifiersWellFormed ==
    cooldown_modifiers \subseteq
        [skill_key : Skills, operation : {"ADD", "SUBTRACT", "SET", "RESET"}, value : Int]

VARIABLES
    phase,              \* the part of tick that runs
    current_ammo,
    cooldown_component, \* skills that have the component
    progress,           \* cooldown_component::progress, <<0, 0>> without the component
    cooldown_expired, ammo_gained,
    has_alacrity,
    animation,          \* the skill in the actor's animation_component, or NoSkill
    animation_expired,
    failed              \* an exception left tick: the run is over

charges == <<current_ammo, cooldown_component, progress>>
marks == <<cooldown_expired, ammo_gained>>
cast == <<animation, animation_expired>>
vars == <<phase, charges, marks, has_alacrity, cast, failed>>

NotStarted == [i \in Index |-> 0]

Init ==
    /\ phase = "rotations"
    /\ current_ammo = max_ammo
    /\ cooldown_component = {} /\ progress = [s \in Skills |-> NotStarted]
    /\ cooldown_expired = {} /\ ammo_gained = {}
    /\ has_alacrity = FALSE
    /\ animation = NoSkill /\ animation_expired = FALSE
    /\ failed = FALSE

-----------------------------------------------------------------------------
(* put_skill_on_cooldown and put_skill_on_cooldown_for_actor *)

\* put_skill_on_cooldown leaves skills without a cooldown alone.
HasCooldown(s) == cooldown[s][0] > 0

Occurrences(seq, n, s) == Cardinality({i \in 1..n : seq[i] = s})

(***************************************************************************)
(* Finishing s calls put_skill_on_cooldown for every member of its group   *)
(* in order, and forces it for every skill of also_put[s] after each: the  *)
(* number of calls for t in the first n of these rounds.                   *)
(***************************************************************************)
Calls(s, t, n) ==
    Occurrences(group[s], n, t) + n * Occurrences(also_put[s], Len(also_put[s]), t)

\* The unforced call of some round finds no charge left and throws.
Overdrawn(s) ==
    \E i \in 1..Len(group[s]) : LET t == group[s][i] IN
        HasCooldown(t) /\ current_ammo[t] - Calls(s, t, i - 1) <= 0

TakenBelowZero(ammo, n) == ammo - n  \* mutant: without std::max
Taken(ammo, n) == IF ammo - n > 0 THEN ammo - n ELSE 0

\* mutant: every put restarts the cooldown
TakeRestarts(calls) ==
    LET n(t) == IF HasCooldown(t) THEN calls[t] ELSE 0 IN
    /\ current_ammo' = [t \in Skills |-> Taken(current_ammo[t], n(t))]
    /\ cooldown_component' = cooldown_component \cup {t \in Skills : n(t) > 0}
    /\ progress' = [t \in Skills |-> IF n(t) > 0 THEN NotStarted ELSE progress[t]]

\* calls[t] calls of put_skill_on_cooldown for every t: only the first starts the cooldown.
Take(calls) ==
    LET n(t) == IF HasCooldown(t) THEN calls[t] ELSE 0 IN
    /\ current_ammo' = [t \in Skills |-> Taken(current_ammo[t], n(t))]
    /\ cooldown_component' = cooldown_component \cup {t \in Skills : n(t) > 0}
    /\ progress' = [t \in Skills |->
            IF n(t) > 0 /\ t \notin cooldown_component THEN NotStarted ELSE progress[t]]

PutForActor(s) ==
    \/ Overdrawn(s) /\ failed' = TRUE /\ UNCHANGED charges
    \/ ~Overdrawn(s) /\ Take([t \in Skills |-> Calls(s, t, Len(group[s]))]) /\ UNCHANGED failed

-----------------------------------------------------------------------------
(* The inner loop of tick: perform_rotations and progress_animations *)

In(p) == ~failed /\ phase = p

\* A skill with a cast time starts its animation when it has a charge, and takes it later.
StartCast(s) ==
    /\ In("rotations") /\ s \notin instant
    /\ animation = NoSkill /\ current_ammo[s] > 0
    /\ animation' = s
    /\ UNCHANGED <<phase, charges, marks, has_alacrity, animation_expired, failed>>

InstantCast(s) ==
    /\ In("rotations") /\ s \in instant
    /\ current_ammo[s] > 0
    /\ PutForActor(s)
    /\ UNCHANGED <<phase, marks, has_alacrity, cast>>

\* With require_afk_skills an early cast is an error; without it the rotation waits.
EarlyCast(s) ==
    /\ In("rotations") /\ require_afk_skills
    /\ (s \notin instant => animation = NoSkill) /\ current_ammo[s] <= 0
    /\ failed' = TRUE
    /\ UNCHANGED <<phase, charges, marks, has_alacrity, cast>>

FinishAnimation ==
    /\ In("rotations")
    /\ animation # NoSkill /\ ~animation_expired
    /\ animation_expired' = TRUE
    /\ PutForActor(animation)
    /\ UNCHANGED <<phase, marks, has_alacrity, animation>>

\* A child actor finishes a skill of its own; the owner's skill pays, unasked.
ChildCast(s) ==
    /\ In("rotations") /\ s \in child_skills
    /\ PutForActor(s)
    /\ UNCHANGED <<phase, marks, has_alacrity, cast>>

EndRotations ==
    /\ In("rotations") /\ phase' = "cooldowns"
    /\ UNCHANGED <<charges, marks, has_alacrity, cast, failed>>

-----------------------------------------------------------------------------
(* progress_cooldowns *)

Truncated(a, b) == IF a >= 0 THEN a \div b ELSE -((-a) \div b)

Advanced(s) ==
    [progress[s] EXCEPT ![IF has_alacrity THEN 1 ELSE 0] = @ + 1]

\* mutants: percentages rounded up, and divided before they are scaled
PercentUp(s, p) ==
    -((-p[0] * 100) \div cooldown[s][0]) - ((-p[1] * 100) \div cooldown[s][1])
PercentDividedFirst(s, p) ==
    Truncated(p[0], cooldown[s][0]) * 100 + Truncated(p[1], cooldown[s][1]) * 100

Percent(s, p) ==
    Truncated(p[0] * 100, cooldown[s][0]) + Truncated(p[1] * 100, cooldown[s][1])

Recharged == {s \in cooldown_component : Percent(s, Advanced(s)) >= 100}

\* mutant: the first charge back ends the cooldown
ProgressEndsAtOnce ==
    /\ In("cooldowns") /\ phase' = "skills"
    /\ ammo_gained' = Recharged
    /\ current_ammo' = [s \in Skills |->
            IF s \in Recharged THEN current_ammo[s] + 1 ELSE current_ammo[s]]
    /\ cooldown_expired' = Recharged
    /\ progress' = [s \in Skills |->
            IF s \in cooldown_component THEN Advanced(s) ELSE progress[s]]
    /\ UNCHANGED <<cooldown_component, has_alacrity, cast, failed>>

progress_cooldowns ==
    /\ In("cooldowns") /\ phase' = "skills"
    /\ ammo_gained' = Recharged
    /\ current_ammo' = [s \in Skills |->
            IF s \in Recharged THEN current_ammo[s] + 1 ELSE current_ammo[s]]
    /\ cooldown_expired' = {s \in Recharged : current_ammo[s] + 1 = max_ammo[s]}
    /\ progress' = [s \in Skills |->
            IF s \in Recharged \ cooldown_expired' THEN NotStarted
            ELSE IF s \in cooldown_component THEN Advanced(s) ELSE progress[s]]
    /\ UNCHANGED <<cooldown_component, has_alacrity, cast, failed>>

-----------------------------------------------------------------------------
(* Skill ticks, side effects and the end of the tick *)

SkillTickPut(s) ==
    /\ In("skills") /\ s \in tick_puts
    /\ Take([t \in Skills |-> IF t = s THEN 1 ELSE 0])
    /\ UNCHANGED <<phase, marks, has_alacrity, cast, failed>>

EndSkills ==
    /\ In("skills") /\ phase' = "hooks"
    /\ UNCHANGED <<charges, marks, has_alacrity, cast, failed>>

Modified(s, m) ==
    CASE m.operation = "ADD"      -> [progress[s] EXCEPT ![0] = @ - m.value]
      [] m.operation = "SUBTRACT" -> [progress[s] EXCEPT ![0] = @ + m.value]
      [] m.operation = "SET"      -> [i \in Index |-> IF i = 0 THEN m.value ELSE 0]
      [] m.operation = "RESET"    -> [i \in Index |-> IF i = 0 THEN cooldown[s][0] ELSE 0]

\* Finished casts modify cooldowns in the inner loop, the other hooks after the skill ticks.
apply_cooldown_modifications(m) ==
    LET s == m.skill_key IN
    /\ In("rotations") \/ In("hooks")
    /\ s \in cooldown_component
    /\ Modified(s, m)[0] \in -MaxShift..(cooldown[s][0] + MaxShift)
    /\ progress' = [progress EXCEPT ![s] = Modified(s, m)]
    /\ UNCHANGED <<phase, current_ammo, cooldown_component, marks, has_alacrity, cast, failed>>

\* apply_effects: an application of ALACRITY marks the actor.
GainAlacrity ==
    /\ In("hooks") /\ ~has_alacrity
    /\ has_alacrity' = TRUE
    /\ UNCHANGED <<phase, charges, marks, cast, failed>>

EndHooks ==
    /\ In("hooks") /\ phase' = "cleanup"
    /\ UNCHANGED <<charges, marks, has_alacrity, cast, failed>>

\* The last stack of ALACRITY may expire in the same cleanup.
cleanup_expired_components ==
    /\ In("cleanup") /\ phase' = "rotations"
    /\ cooldown_component' = cooldown_component \ cooldown_expired
    /\ progress' = [s \in Skills |-> IF s \in cooldown_expired THEN NotStarted ELSE progress[s]]
    /\ cooldown_expired' = {} /\ ammo_gained' = {}
    /\ animation' = IF animation_expired THEN NoSkill ELSE animation
    /\ animation_expired' = FALSE
    /\ has_alacrity' \in {has_alacrity, FALSE}
    /\ UNCHANGED <<current_ammo, failed>>

EndOfPhase ==
    EndRotations \/ progress_cooldowns \/ EndSkills \/ EndHooks \/ cleanup_expired_components

Next ==
    \/ \E s \in Skills :
          StartCast(s) \/ InstantCast(s) \/ EarlyCast(s) \/ ChildCast(s) \/ SkillTickPut(s)
    \/ FinishAnimation
    \/ \E m \in cooldown_modifiers : apply_cooldown_modifications(m)
    \/ GainAlacrity
    \/ EndOfPhase

Spec == Init /\ [][Next]_vars

(***************************************************************************)
(* tick is a straight line of loops over the registry: every phase ends.   *)
(***************************************************************************)
FairSpec == Spec /\ WF_vars(EndOfPhase)

-----------------------------------------------------------------------------
(* What the report says of a running cooldown, in doubles *)

Fraction(s, p) == p[0] * cooldown[s][1] + p[1] * cooldown[s][0]
Whole(s) == cooldown[s][0] * cooldown[s][1]

Alacrity == IF has_alacrity THEN 1 ELSE 0

(***************************************************************************)
(* static_cast<int> of a / b computed in doubles.  Quotients and sums may  *)
(* be rounded, which shows only where a / b is an integer other than 0:    *)
(* the double may lie just nearer to 0, and loses one ((1 / 49.0) * 49).   *)
(***************************************************************************)
CastToInt(a, b) ==
    LET x == Truncated(a, b) IN
    IF a = 0 \/ a % b # 0 THEN {x} ELSE {x, IF a > 0 THEN x - 1 ELSE x + 1}

RemainingIgnoresAlacrity(s) ==  \* mutant
    CastToInt(cooldown[s][0] * (Whole(s) - Fraction(s, progress[s])), Whole(s))

\* get_uncastable_skills_by_actor may say any of these; without progress nothing is rounded.
remaining_cooldown(s) ==
    IF progress[s] = NotStarted THEN {cooldown[s][Alacrity]}
    ELSE CastToInt(cooldown[s][Alacrity] * (Whole(s) - Fraction(s, progress[s])), Whole(s))

\* get_skill_statuses may say any of these: without and with alacrity
remaining_cooldowns(s) ==
    [i \in Index |-> {cooldown[s][i] - done :
        done \in CastToInt(Fraction(s, progress[s]) * cooldown[s][i], Whole(s))}]

-----------------------------------------------------------------------------
(* Properties *)

Phases == {"rotations", "cooldowns", "skills", "hooks", "cleanup"}

\* Every component holds values of its C++ type and belongs to a skill of the actor; a
\* charge count stays between none and max_ammo (component/skill/ammo.hpp).
TypeOK ==
    /\ phase \in Phases
    /\ current_ammo \in [Skills -> Nat] /\ \A s \in Skills : current_ammo[s] <= max_ammo[s]
    /\ cooldown_component \subseteq Skills
    /\ progress \in [Skills -> [Index -> Int]]
    /\ cooldown_expired \subseteq Skills /\ ammo_gained \subseteq Skills
    /\ has_alacrity \in BOOLEAN
    /\ animation \in Skills \cup {NoSkill} /\ animation_expired \in BOOLEAN
    /\ failed \in BOOLEAN

Running == cooldown_component \ cooldown_expired

\* A cooldown runs only while a charge is missing; and a missing charge is coming back:
\* its cooldown runs, unless a skill tick put the skill on cooldown (perform_skill_ticks,
\* which runs between the expiry of a cooldown and its removal).
ChargesMatchCooldown ==
    \A s \in Skills :
        /\ s \in Running => current_ammo[s] < max_ammo[s]
        /\ s \notin tick_puts /\ current_ammo[s] < max_ammo[s] => s \in Running

\* can_cast_skill and put_skill_on_cooldown take a skill without charges to be on cooldown:
\* the first says so in its reason, the second reads the component.
OutOfAmmoIsOnCooldown ==
    \A s \in Skills : current_ammo[s] = 0 => s \in cooldown_component

\* Unless an ADD modifier pushed it below zero, a cooldown gives a charge back no earlier
\* than the time with and without alacrity adds up to the whole cooldown, although
\* progress_cooldowns adds two truncated percentages.
NeverEarly ==
    [][\A s \in Skills :
        current_ammo'[s] > current_ammo[s] /\ progress[s][0] >= 0
            => Fraction(s, Advanced(s)) >= Whole(s)]_vars

\* Nor much later: a cooldown that progress_cooldowns leaves running has less than a
\* hundredth of it lost to truncation.
NeverLate ==
    phase = "skills" => \A s \in Running :
        100 * Fraction(s, progress[s]) < 101 * Whole(s)

\* Ticks until progress_cooldowns gives a charge back, if alacrity stays as it is.
TicksLeft(s) ==
    LET back(k) == Percent(s, [progress[s] EXCEPT ![Alacrity] = @ + k]) >= 100
    IN  CHOOSE k \in 1..(cooldown[s][0] + cooldown[s][1]) : back(k) /\ ~\E j \in 1..k - 1 : back(j)

\* The two lists of a report derive the remaining cooldown by a formula of their own each,
\* in doubles. While alacrity stays as it is, the uncastable skills never say more than the
\* ticks the engine still needs and the statuses at most one more (of a duration of 49 they
\* say 49 when 48 are left); both say at most two ticks and the hundredth lost to
\* truncation less.
ReportedCooldowns ==
    phase = "rotations" => \A s \in cooldown_component :
        progress[s][0] >= 0 /\ Fraction(s, progress[s]) < Whole(s) =>
            LET most(r) == r + 2 + cooldown[s][Alacrity] \div 100 IN
            /\ \A r \in remaining_cooldown(s) : TicksLeft(s) \in r..most(r)
            /\ \A r \in remaining_cooldowns(s)[Alacrity] : TicksLeft(s) \in (r - 1)..most(r)

\* Skills whose cooldown some modifier may lengthen, for ever.
HeldBack == {m.skill_key : m \in {n \in cooldown_modifiers : n.operation \in {"ADD", "SET"}}}

\* Whatever is cast meanwhile, a running cooldown gives a charge back (a put never restarts it).
Recharges ==
    \A s \in Skills \ HeldBack : s \in Running ~> (s \in ammo_gained \/ failed)
=============================================================================
