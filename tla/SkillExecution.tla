--------------------------- MODULE SkillExecution ---------------------------
(***************************************************************************)
(* The casts an entity has running (skill.cpp): the strikes, pulses and    *)
(* whirl finishers of a cast come at ticks scaled by how much of the time  *)
(* the entity had quickness, its skill ticks at ticks of their own, and    *)
(* both are cleaned up at the end of a tick by naming the skill, not the   *)
(* cast.  Meanwhile the animation of the cast that holds the entity up     *)
(* counts its own percentage, truncated (temporal.cpp), and goes by the    *)
(* quickness of the owner when the entity is a child actor.                *)
(*                                                                         *)
(* What a strike or a pulse does is left out: only that it comes.          *)
(***************************************************************************)
EXTENDS Integers, FiniteSets, Sequences

CONSTANTS
    Skills,
    Kinds,          \* kinds of actions: "strike", "pulse" and "whirl"
    cast_duration,  \* of a skill: [0 |-> without, 1 |-> with quickness], 0 for an instant cast
    on_tick_list,   \* of a kind and a skill: [0 |-> base ticks, 1 |-> ticks with quickness]
    skill_ticks,    \* on_tick of each skill_tick_t, in order
    skills_to_cancel,
    MaxCasts,       \* bound: casts of the entity at a time
    NoCast          \* no animation

Index == {0, 1}
Ascending(list) == \A i, j \in DOMAIN list : i < j => list[i] <= list[j]

ASSUME Configuration ==
    /\ cast_duration \in [Skills -> [Index -> Nat]]
    /\ \A s \in Skills : cast_duration[s][0] = 0 <=> cast_duration[s][1] = 0
    /\ on_tick_list \in [Kinds -> [Skills -> [Index -> Seq(Nat)]]]
    /\ \A k \in Kinds, s \in Skills : LET lists == on_tick_list[k][s] IN
          Len(lists[0]) = Len(lists[1]) /\ \A q \in Index : Ascending(lists[q])
    /\ skill_ticks \in [Skills -> Seq(Nat)] /\ \A s \in Skills : Ascending(skill_ticks[s])
    /\ skills_to_cancel \in [Skills -> SUBSET Skills]
    /\ MaxCasts \in Nat /\ NoCast \notin Skills

VARIABLES
    phase,
    has_owner,        \* the entity is a child actor: it has an owner_component
    has_quickness,    \* of get_owner(entity), which is the entity itself without an owner
    animation, animation_progress, animation_expired,
    actions,          \* skills_actions_component: [skill, action_progress, next]
    tracked,          \* skills_ticks_tracker_component: [skill, progress, next]
    finished_actions, \* finished_skills_actions_component: how often each skill is listed
    finished_ticks,   \* destroy_skills_ticks_tracker_component, likewise
    ended_actions, ended_ticks  \* history: the casts that were listed, by position

cast == <<animation, animation_progress, animation_expired>>
finished == <<finished_actions, finished_ticks, ended_actions, ended_ticks>>
quickness == <<has_owner, has_quickness>>
vars == <<phase, quickness, cast, actions, tracked, finished>>

NotStarted == [q \in Index |-> 0]
NoneListed == [s \in Skills |-> 0]

Init ==
    /\ phase = "rotations" /\ has_owner \in BOOLEAN /\ has_quickness = FALSE
    /\ animation = NoCast /\ animation_progress = NotStarted /\ animation_expired = FALSE
    /\ actions = <<>> /\ tracked = <<>>
    /\ finished_actions = NoneListed /\ finished_ticks = NoneListed
    /\ ended_actions = {} /\ ended_ticks = {}

-----------------------------------------------------------------------------
(* Lists of casts *)

\* The elements of seq at the positions in kept, in order.
At(seq, kept) ==
    LET position(n) == CHOOSE i \in kept : Cardinality({j \in kept : j < i}) = n - 1
    IN [n \in 1..Cardinality(kept) |-> seq[position(n)]]

Rank(seq, i) == Cardinality({j \in 1..i : seq[j].skill = seq[i].skill})

\* Mutant: the last casts of the listed skills go.
ErasedFromTheBack(seq, listed) ==
    At(seq, {i \in DOMAIN seq :
        Rank(seq, i) <= Cardinality({j \in DOMAIN seq : seq[j].skill = seq[i].skill})
                          - listed[seq[i].skill]})

\* Every time a skill is listed, the first cast of it that is left goes.
Erased(seq, listed) == At(seq, {i \in DOMAIN seq : Rank(seq, i) > listed[seq[i].skill]})

\* What a cast may leave of the casts it cancels: the first one of a skill goes; the loop then
\* walks on over a list that shrank under it and may skip another one, unless it is the last.
Cancelled(seq, s) ==
    LET matches == {i \in DOMAIN seq : seq[i].skill \in skills_to_cancel[s]}
        skippable == {i \in matches \ {Len(seq)} : Rank(seq, i) > 1}
    IN {At(seq, (DOMAIN seq \ matches) \cup skipped) : skipped \in SUBSET skippable}

-----------------------------------------------------------------------------
(* The inner loop of tick: casts begin, then the animation advances *)

Instant(s) == cast_duration[s][0] = 0

Begin(s) ==
    /\ phase = "rotations" /\ Len(actions) < MaxCasts /\ Len(tracked) < MaxCasts
    /\ \E left \in Cancelled(actions, s) :
          actions' = Append(left, [skill |-> s, action_progress |-> NotStarted,
                                   next |-> [k \in Kinds |-> 0]])
    /\ \E left \in Cancelled(tracked, s) :
          tracked' = Append(left, [skill |-> s, progress |-> 0, next |-> 0])
    /\ UNCHANGED <<phase, quickness, finished>>

InstantCast(s) ==
    /\ Instant(s) /\ Begin(s)
    /\ UNCHANGED cast

AnimatedCast(s) ==
    /\ ~Instant(s) /\ animation = NoCast /\ Begin(s)
    /\ animation' = s /\ animation_progress' = NotStarted
    /\ UNCHANGED animation_expired

Advanced(progress, quick) == [progress EXCEPT ![IF quick THEN 1 ELSE 0] = @ + 1]

\* Mutant: the percentages are rounded to the next integer.
AnimationPercentRounded(s, p) ==
    (p[0] * 100 + cast_duration[s][0] \div 2) \div cast_duration[s][0]
        + (p[1] * 100 + cast_duration[s][1] \div 2) \div cast_duration[s][1]

AnimationPercent(s, p) ==
    (p[0] * 100) \div cast_duration[s][0] + (p[1] * 100) \div cast_duration[s][1]

\* The animation of the entity, if there is one, advances once a tick, by the owner's quickness.
progress_animations ==
    /\ phase = "rotations" /\ phase' = "progress"
    /\ animation_progress' =
          IF animation = NoCast THEN animation_progress
          ELSE Advanced(animation_progress, has_quickness)
    /\ animation_expired' =
          (animation # NoCast /\ AnimationPercent(animation, animation_progress') >= 100)
    /\ UNCHANGED <<quickness, animation, actions, tracked, finished>>

-----------------------------------------------------------------------------
(* progress_casting_skill_ticks, progress_casting_skills and perform_skill_ticks *)

\* apply_effects leaves child actors out: the marker is never on one.
OwnQuickness == has_quickness /\ ~has_owner

\* The casts advance by the quickness of the entity itself.
progress_casting_skills ==
    /\ phase = "progress" /\ phase' = "ticks"
    /\ actions' = [i \in DOMAIN actions |->
            [actions[i] EXCEPT !.action_progress = Advanced(@, OwnQuickness)]]
    /\ tracked' = [i \in DOMAIN tracked |-> [tracked[i] EXCEPT !.progress = @ + 1]]
    /\ UNCHANGED <<quickness, cast, finished>>

\* Where the while loop that walks list from next stops at tick t.
Reached(list, next, t) ==
    CHOOSE n \in next..Len(list) :
        /\ \A m \in (next + 1)..n : list[m] <= t
        /\ n < Len(list) => list[n + 1] > t

\* How often each skill is listed when the casts at the positions in ended are.
Listed(seq, ended) == [s \in Skills |-> Cardinality({i \in ended : seq[i].skill = s})]

perform_skill_ticks ==
    LET next(i) == Reached(skill_ticks[tracked[i].skill], tracked[i].next, tracked[i].progress)
        ended == {i \in DOMAIN tracked : next(i) = Len(skill_ticks[tracked[i].skill])}
    IN  /\ phase = "ticks" /\ phase' = "actions"
        /\ tracked' = [i \in DOMAIN tracked |-> [tracked[i] EXCEPT !.next = next(i)]]
        /\ ended_ticks' = ended /\ finished_ticks' = Listed(tracked, ended)
        /\ UNCHANGED <<quickness, cast, actions, finished_actions, ended_actions>>

-----------------------------------------------------------------------------
(* perform_skills *)

Larger(a, b) == IF a > b THEN a ELSE b
Back(list) == IF list = <<>> THEN 0 ELSE list[Len(list)]

\* Mutant: only the cast time counts.
DurationOfCast(k, s, q) == cast_duration[s][q]

\* pulse_no_quickness_duration and its like
Duration(k, s, q) == Larger(Back(on_tick_list[k][s][q]), cast_duration[s][q])

(***************************************************************************)
(* The progress of a cast is compared with exactly 100 %, and a duration   *)
(* of zero counts as done.  The code adds two quotients of doubles: a sum  *)
(* that is exactly 100 may come out below it, unless both are integers.    *)
(***************************************************************************)
Progress(k, a) ==
    a.action_progress[0] * Duration(k, a.skill, 1) + a.action_progress[1] * Duration(k, a.skill, 0)
Whole(k, s) == Duration(k, s, 0) * Duration(k, s, 1)

Through(k, a) == Progress(k, a) >= Whole(k, a.skill)

Inexact(k, a) ==
    /\ Whole(k, a.skill) > 0 /\ Progress(k, a) = Whole(k, a.skill)
    /\ (100 * a.action_progress[0]) % Duration(k, a.skill, 0) # 0

\* The base tick the cast has come to: with quickness, ticks count for more.
EffectiveTick(k, a) ==
    LET base == Duration(k, a.skill, 0)
        quick == Duration(k, a.skill, 1)
    IN  IF base = 0 THEN 0
        ELSE IF quick = 0 THEN a.action_progress[0] + base
        ELSE Progress(k, a) \div quick

\* The product of doubles behind round_down may fall short of an integer.
InexactTick(k, a) ==
    /\ Whole(k, a.skill) > 0
    /\ EffectiveTick(k, a) > 0 /\ Progress(k, a) % Duration(k, a.skill, 1) = 0

\* The doubles depend on the skill and its progress alone.
Sample(k, a) == <<k, a.skill, a.action_progress>>
Samples(Test(_, _)) ==
    UNION {{Sample(k, actions[i]) : i \in {j \in DOMAIN actions : Test(k, actions[j])}} : k \in Kinds}

\* Below are the samples whose percentage comes out below 100, short those whose tick does.
PerformSkills(below, short) ==
    LET done(k, i) == Through(k, actions[i]) /\ Sample(k, actions[i]) \notin below
        tick(k, i) ==
            IF Sample(k, actions[i]) \in short /\ ~done(k, i)
            THEN EffectiveTick(k, actions[i]) - 1 ELSE EffectiveTick(k, actions[i])
        next(i) == [k \in Kinds |->
            Reached(on_tick_list[k][actions[i].skill][0], actions[i].next[k], tick(k, i))]
        ended == {i \in DOMAIN actions : \A k \in Kinds : done(k, i)}
    IN  /\ phase = "actions" /\ phase' = "cleanup"
        /\ actions' = [i \in DOMAIN actions |-> [actions[i] EXCEPT !.next = next(i)]]
        /\ ended_actions' = ended /\ finished_actions' = Listed(actions, ended)
        /\ UNCHANGED <<quickness, cast, tracked, finished_ticks, ended_ticks>>

-----------------------------------------------------------------------------
(* The end of the tick *)

\* Mutant: finished_skills_actions_component stays on the entity.
ClearTicksOnly == finished_ticks' = NoneListed /\ UNCHANGED finished_actions

ClearLists == finished_actions' = NoneListed /\ finished_ticks' = NoneListed

\* cleanup_expired_components, cleanup_skill_ticks_tracker and cleanup_skill_actions.  The
\* effects of the tick decide whether the next one has quickness.
cleanup ==
    /\ phase = "cleanup" /\ phase' = "rotations"
    /\ actions' = Erased(actions, finished_actions)
    /\ tracked' = Erased(tracked, finished_ticks)
    /\ animation' = IF animation_expired THEN NoCast ELSE animation
    /\ animation_progress' = IF animation_expired THEN NotStarted ELSE animation_progress
    /\ animation_expired' = FALSE
    /\ ClearLists
    /\ ended_actions' = {} /\ ended_ticks' = {}
    /\ has_quickness' \in BOOLEAN /\ UNCHANGED has_owner

Next ==
    \/ \E s \in Skills : InstantCast(s) \/ AnimatedCast(s)
    \/ progress_animations
    \/ progress_casting_skills
    \/ perform_skill_ticks
    \/ \E below \in SUBSET Samples(Inexact), short \in SUBSET Samples(InexactTick) :
          PerformSkills(below, short)
    \/ cleanup

Spec == Init /\ [][Next]_vars

-----------------------------------------------------------------------------
(* Properties *)

Phases == {"rotations", "progress", "ticks", "actions", "cleanup"}

\* Every running cast keeps its positions within its lists, and the entities listed as
\* finished are skills it is casting.
TypeOK ==
    /\ phase \in Phases /\ has_owner \in BOOLEAN /\ has_quickness \in BOOLEAN
    /\ animation \in Skills \cup {NoCast} /\ animation_expired \in BOOLEAN
    /\ animation_progress \in [Index -> Nat]
    /\ Len(actions) <= MaxCasts /\ Len(tracked) <= MaxCasts
    /\ \A i \in DOMAIN actions :
          /\ actions[i].skill \in Skills /\ actions[i].action_progress \in [Index -> Nat]
          /\ \A k \in Kinds : actions[i].next[k] \in 0..Len(on_tick_list[k][actions[i].skill][0])
    /\ \A i \in DOMAIN tracked :
          /\ tracked[i].skill \in Skills /\ tracked[i].progress \in Nat
          /\ tracked[i].next \in 0..Len(skill_ticks[tracked[i].skill])
    /\ finished_actions = Listed(actions, ended_actions)
    /\ finished_ticks = Listed(tracked, ended_ticks)

\* perform_skills ends a cast by its percentages and not by its lists: whatever quickness came
\* and went and however the doubles round, a cast that ends has no strike or pulse left.
EveryHitDealt ==
    \A i \in ended_actions, k \in Kinds :
        actions[i].next[k] = Len(on_tick_list[k][actions[i].skill][0])

\* cleanup_skill_actions and cleanup_skill_ticks_tracker know only the skill that finished: of
\* several casts of one skill they erase the ones that finished, and leave the others.
FinishedCastsLeave ==
    [][phase = "cleanup" =>
        /\ actions' = At(actions, DOMAIN actions \ ended_actions)
        /\ tracked' = At(tracked, DOMAIN tracked \ ended_ticks)]_vars

Within(s) == \A k \in Kinds, q \in Index : Back(on_tick_list[k][s][q]) <= cast_duration[s][q]

\* The animation has counted no quickness that the casts of the entity did not.
SameQuickness == has_owner => animation_progress[1] = 0

\* A cast whose lists lie within its cast time has dealt all its hits in the tick its animation
\* ends, when the next cast may begin: the truncated percentages of the animation are never
\* ahead of the ones of the actions.  Unless a child actor cast it while its owner had
\* quickness: that shortens its animation (progress_animations) and not its hits
\* (progress_casting_skills), which then land after the next cast began.
HitsLandWithinTheCast ==
    phase = "cleanup" /\ animation_expired /\ Within(animation) /\ SameQuickness =>
        \A i \in DOMAIN actions, k \in Kinds :
            actions[i].skill = animation =>
                actions[i].next[k] = Len(on_tick_list[k][animation][0])

\* on_tick_list: "First item is base tick list and second item is with quickness"
\* (configuration/build.schema.json:477).  A cast that had quickness all the time deals its
\* hits on the ticks of the second list.
QuicknessTicks ==
    phase = "cleanup" =>
        \A i \in DOMAIN actions, k \in Kinds : LET a == actions[i] IN
            a.action_progress[0] = 0 /\ a.action_progress[1] > 0 =>
                a.next[k] = Cardinality({m \in DOMAIN on_tick_list[k][a.skill][1] :
                    on_tick_list[k][a.skill][1][m] <= a.action_progress[1]})
=============================================================================
