------------------------------ MODULE Pipeline ------------------------------
(***************************************************************************)
(* How what the actors cast in a tick reaches its targets: the hooks of    *)
(* the tick, the dispatch and the application of strikes, their hooks, the *)
(* dispatch and the application of effects, damage and downstate, and the  *)
(* termination of the run (combat_loop.cpp, tick and continue_combat_loop).*)
(* Casting itself is one step, perform: when a cast begins is Rotation's   *)
(* business, when it strikes, pulses and ends is SkillExecution's, as is   *)
(* the cast that another cancels; when an effect expires or pays is that   *)
(* of Effects and what is on cooldown that of Cooldown.                    *)
(*                                                                         *)
(* Views of actors visit them in view_order, the order of the pool of      *)
(* teams, which child actors do not disturb; other views visit what they   *)
(* visit in any order.  Ids of effects and child actors are reused.        *)
(***************************************************************************)
EXTENDS Integers, FiniteSets, Sequences, SequencesExt

CONSTANTS
    Skills, Kinds, Counters, \* Kinds: effects and unique effects
    view_order, team,        \* the encounter's actors
    max_health, rotation,    \* of each actor; the rotation is a sequence of skills
    num_strikes, num_pulses, \* of a cast of the skill
    num_targets,             \* of each strike
    damage, can_critical_strike,
    on_strike_effect_applications, on_pulse_effect_applications,
    unhooked,                \* the "Lifesteal Proc"
    max_stored_stacks,       \* of a kind; MaxEffects for one without a limit
    extended,                \* kinds that stack in duration
    damaging,                \* conditions
    lasting,                 \* kinds that no run outlasts
    initial_value,           \* of the counters
    counter_modifiers,       \* of each actor: [counter, operation, operands, condition, from]
    effect_removals,         \* [kind, num_stacks, condition, from]
    skill_triggers, unchained_skill_triggers,  \* [skill_key, condition, from]
    encounters,              \* sets of termination conditions: [type, actor, bound]
    MaxEffects, MaxChildren, \* bounds: effects and child actors at a time
    Nobody                   \* no actor: no target, or any actor

Actors == Range(view_order)
Children == 1..MaxChildren
Entities == Actors \cup Children
Triggers(a) == skill_triggers[a] \cup unchained_skill_triggers[a]

(***************************************************************************)
(* A condition applies at one stage of the tick, or at any ("any"), to     *)
(* skills or effects in by ({} for all).  Optional fields are sets of at   *)
(* most one value.  from is the unique effect that carries a modifier,     *)
(* removal or trigger, {} if the actor does; what skills carry is left out.*)
(***************************************************************************)
Always == [on |-> "any", by |-> {}, critical |-> FALSE, on_source |-> {}, on_target |-> {},
           stacks |-> 1, by_source |-> {}, off_cooldown |-> {}, thresholds |-> {},
           nots |-> {}, ors |-> {}, ands |-> {}]

Used(a) ==
    Range(counter_modifiers[a]) \cup Range(effect_removals[a]) \cup Triggers(a)
Targetless(c) ==
    \A d \in {c} \cup c.nots \cup c.ors \cup c.ands : d.on_target = {} /\ d.by_source = {}

ASSUME Encounter ==
    /\ view_order \in Seq(Actors) /\ Actors \cap Children = {}
    /\ MaxEffects \in Nat /\ MaxChildren \in Nat /\ IsFiniteSet(Skills)
    /\ team \in [Actors -> Nat] /\ max_health \in [Actors -> Nat \ {0}]
    /\ rotation \in [Actors -> Seq(Skills)] /\ \E a \in Actors : rotation[a] # <<>>
    /\ {num_strikes, num_pulses, num_targets, damage} \subseteq [Skills -> Nat]
    /\ can_critical_strike \subseteq Skills /\ unhooked \subseteq Skills
    /\ extended \cup damaging \cup lasting \subseteq Kinds
    /\ max_stored_stacks \in [Kinds -> 1..MaxEffects] /\ initial_value \in [Counters -> Int]
    /\ \A e \in encounters : \A c \in e :
          c.type \in {"TIME", "DAMAGE", "ACTIVE_SKILLS"} /\ c.bound > 0

EffectApplications ==
    UNION {Range(on_strike_effect_applications[s]) \cup Range(on_pulse_effect_applications[s]) :
              s \in Skills}

ASSUME Applicable ==
    /\ {on_strike_effect_applications, on_pulse_effect_applications}
          \subseteq [Skills -> Seq(EffectApplications)]
    /\ \A x \in EffectApplications :
          /\ x.kind \in Kinds /\ x.direction \in {"SELF", "TEAM", "OUTGOING"}
          /\ {x.num_targets, x.num_stacks} \subseteq Nat

\* A condition on the target throws where there is none, and an effect with several stacks
\* carries its triggers several times.
ASSUME SideEffects ==
    \A a \in Actors :
        /\ counter_modifiers[a] \in Seq(Range(counter_modifiers[a]))
        /\ \A m \in Range(counter_modifiers[a]) :
              /\ m.counter \in Counters /\ m.operation \in {"ADD", "SUBTRACT", "SET", "RESET"}
              /\ m.operands \in Seq(Counters \cup Int)
        /\ effect_removals[a] \in Seq(Range(effect_removals[a]))
        /\ \A r \in Range(effect_removals[a]) : r.kind \in Kinds /\ r.num_stacks \in Nat
        /\ IsFiniteSet(Triggers(a)) /\ \A t \in Triggers(a) : t.skill_key \in Skills
        /\ \A x \in Used(a) :
              /\ x.condition.on \in {"any", "gained", "begun"} => Targetless(x.condition)
              /\ \A k \in x.from : k \in Kinds /\ max_stored_stacks[k] = 1

\* What a threshold or an operand names is told apart from what is not a counter.
ASSUME Named == \A c \in Counters : c \notin {"source", "target"} /\ c \notin Int

VARIABLES
    phase, tick,
    termination,         \* the termination conditions of this encounter
    owner,               \* of the child actors
    queue,               \* casts that have not begun
    no_more_rotation,
    casting,             \* running casts: the skill, and the strikes and pulses to come
    finishing,           \* entities with a finished cast the tick has yet to clean up
    outgoing_strikes, outgoing_effects,  \* sequences of [source, skill], [source, application]
    hooks,               \* hooks that are due: [stage, source, target, by, critical]
    incoming_strikes, incoming_effects,  \* [source, target, skill], [source, target, application]
    effects,             \* [kind, on, source]
    duration_expired, destroy_effect,
    off_cooldown,
    counters, already_triggered,
    health, is_downstate, incoming_damage,
    buffered_condition_damage, \* of expired conditions, until the next interval
    audited,             \* the damage in the audit, of each actor
    tally                \* history: hits, most hits in a tick, finished casts, children spawned,
                         \* stacks removed

rotations == <<owner, queue, no_more_rotation, casting, finishing>>
queues == <<outgoing_strikes, outgoing_effects, incoming_strikes, incoming_effects, hooks>>
stacks == <<effects, duration_expired, destroy_effect>>
sides == <<counters, already_triggered>>
stats == <<health, is_downstate, incoming_damage, buffered_condition_damage, audited>>
vars == <<phase, tick, termination, rotations, queues, stacks, off_cooldown, sides, stats, tally>>

Init ==
    /\ phase = "casts" /\ tick = 0 /\ termination \in encounters
    /\ owner = <<>> /\ no_more_rotation = {} /\ finishing = {}
    /\ queue = [e \in Entities |-> IF e \in Actors THEN rotation[e] ELSE <<>>]
    /\ casting = <<>>
    /\ outgoing_strikes = <<>> /\ outgoing_effects = <<>> /\ hooks = <<>>
    /\ incoming_strikes = <<>> /\ incoming_effects = <<>>
    /\ effects = <<>> /\ duration_expired = {} /\ destroy_effect = {}
    /\ off_cooldown = Skills
    /\ counters = initial_value /\ already_triggered = {}
    /\ health = max_health /\ is_downstate = {}
    /\ incoming_damage = [a \in Actors |-> 0] /\ buffered_condition_damage = [a \in Actors |-> 0]
    /\ audited = [a \in Actors |-> 0]
    /\ tally = [hits |-> [a \in Actors |-> 0], most |-> [a \in Actors |-> 0], finished |-> 0,
                spawned |-> [s \in Skills |-> 0], removed |-> [k \in Kinds |-> 0]]

Alive == DOMAIN owner
get_owner(e) == IF e \in Alive THEN owner[e] ELSE e
Stacks(a, k) == {e \in DOMAIN effects : effects[e].on = a /\ effects[e].kind = k}
LowestOf(S, n) == {x \in S : Cardinality({y \in S : y < x}) < n}
UpTo(s, n) == SubSeq(s, 1, IF n < Len(s) THEN n ELSE Len(s))
\* The elements of s at the places in I.
At(s, I) == FlattenSeq([i \in DOMAIN s |-> IF i \in I THEN <<s[i]>> ELSE <<>>])

-----------------------------------------------------------------------------
(* Conditions *)

Within(threshold, number) ==
    \/ threshold.type = "at least" /\ number >= threshold.value
    \/ threshold.type = "above" /\ number > threshold.value
    \/ threshold.type = "at most" /\ number <= threshold.value
    \/ threshold.type = "below" /\ number < threshold.value
    \/ threshold.type = "equal" /\ number = threshold.value

\* The subject of a threshold: a counter, or the health of "source" or "target".
Subject(of, source, target, cs) ==
    IF of = "source" THEN health[source]
    ELSE IF of = "target" THEN health[target]
    ELSE cs[of]

\* Weapons and bundles are left out, random numbers are Rotation's.
Plainly(c, source, target, cs) ==
    /\ \A k \in c.on_source : Stacks(source, k) # {}
    /\ \A k \in c.on_target : Cardinality(Stacks(target, k)) >= c.stacks
    /\ \A k \in c.by_source : \E e \in Stacks(target, k) : effects[e].source = source
    /\ c.off_cooldown \subseteq off_cooldown
    /\ \A t \in c.thresholds :
          (t.of = "target" /\ target = Nobody) \/ Within(t, Subject(t.of, source, target, cs))

\* Composite conditions, of conditions that are not: some of the nots fails.
stage_independent_conditions_satisfied(c, source, target, cs) ==
    /\ Plainly(c, source, target, cs)
    /\ c.nots = {} \/ \E d \in c.nots : ~Plainly(d, source, target, cs)
    /\ c.ors = {} \/ \E d \in c.ors : Plainly(d, source, target, cs)
    /\ \A d \in c.ands : Plainly(d, source, target, cs)

independent_conditions_satisfied(c, source, target) ==
    c.on = "any" /\ stage_independent_conditions_satisfied(c, source, target, counters)

\* The hook's stage is the condition's: "any" for the hook of every tick.
OfStage(c, hook) ==
    /\ c.on = hook.stage
    /\ c.on # "any" => c.by = {} \/ hook.by \in c.by
    /\ c.on = "strike" /\ c.critical => hook.critical

-----------------------------------------------------------------------------
(* apply_side_effects, of one hook *)

Operand(x, cs) == IF x \in Counters THEN cs[x] ELSE x

Operate(operation, value, modifier) ==
    CASE operation = "ADD" -> value + modifier
      [] operation = "SUBTRACT" -> value - modifier
      [] operation = "SET" -> modifier

\* The operands: the value of a counter, then a number.
apply_counter_modifications(cs, m) ==
    LET value[n \in 0..Len(m.operands)] ==
            IF n = 0 THEN cs[m.counter]
            ELSE Operate(m.operation, value[n - 1], Operand(m.operands[n], cs))
    IN  [cs EXCEPT ![m.counter] = IF m.operation = "RESET" THEN initial_value[m.counter]
                                  ELSE value[Len(m.operands)]]

InForce(x, a) == \A k \in x.from : Stacks(a, k) # {}

Due(x, hook, cs) ==
    /\ InForce(x, hook.source)
    /\ OfStage(x.condition, hook)
    /\ stage_independent_conditions_satisfied(x.condition, hook.source, hook.target, cs)

\* Each modifier sees what those before it did.
Counted(hook) ==
    LET ms == counter_modifiers[hook.source]
        counted[n \in 0..Len(ms)] ==
            IF n = 0 THEN counters
            ELSE LET cs == counted[n - 1]
                 IN IF Due(ms[n], hook, cs) THEN apply_counter_modifications(cs, ms[n]) ELSE cs
    IN  counted[Len(ms)]

\* The first num_stacks of them, whether or not they are marked already.
LiveStacks(hook, r) == LowestOf(Stacks(hook.source, r.kind) \ destroy_effect, r.num_stacks)  \* mutant
RemovedStacks(hook, r) == LowestOf(Stacks(hook.source, r.kind), r.num_stacks)

TriggeredAgain(hook, cs) == {t \in Triggers(hook.source) : Due(t, hook, cs)}  \* mutant
\* Triggers see the counters as modified; those in skill_triggers fire once a tick.
Triggered(hook, cs) ==
    {t \in Triggers(hook.source) : Due(t, hook, cs)
        /\ (t \in skill_triggers[hook.source] => <<hook.source, t>> \notin already_triggered)}

\* enqueue_child_skill: a child actor of the actor that is to cast the skill.
Spawn(a, fired) ==
    LET ids == LowestOf(Children \ Alive, Cardinality(fired))
        trigger == CHOOSE f \in [ids -> fired] : \A t \in fired : \E i \in ids : f[i] = t
    IN  /\ Cardinality(ids) = Cardinality(fired)
        /\ owner' = [e \in Alive \cup ids |-> IF e \in ids THEN a ELSE owner[e]]
        /\ queue' = [e \in Entities |-> IF e \in ids THEN <<trigger[e].skill_key>> ELSE queue[e]]

Spawned(fired) ==
    [s \in Skills |-> tally.spawned[s] + Cardinality({t \in fired : t.skill_key = s})]

apply_side_effects(hook) ==
    LET cs == Counted(hook)
        fired == Triggered(hook, cs)
    IN  /\ counters' = cs
        /\ destroy_effect' = destroy_effect \cup
               UNION {RemovedStacks(hook, r) : r \in
                         {r \in Range(effect_removals[hook.source]) : Due(r, hook, cs)}}
        /\ already_triggered' = already_triggered \cup
               {<<hook.source, t>> : t \in fired \cap skill_triggers[hook.source]}
        /\ Spawn(hook.source, fired)
        /\ tally' = [tally EXCEPT !.spawned = Spawned(fired),
                                  !.hits[hook.source] =
                                      @ + IF hook.stage = "strike" THEN 1 ELSE 0]
        /\ UNCHANGED <<no_more_rotation, casting, finishing>>

-----------------------------------------------------------------------------
(* The first half of a tick *)

TickHooks ==
    [i \in DOMAIN view_order |->
        [stage |-> "any", source |-> view_order[i], target |-> Nobody, by |-> Nobody,
         critical |-> FALSE]]

BegunHooks(order) ==
    [i \in DOMAIN order |->
        [stage |-> "begun", source |-> get_owner(order[i]), target |-> Nobody,
         by |-> Head(queue[order[i]]), critical |-> FALSE]]

\* Charges that some side effect waits for; a skill gains one while it is on cooldown.
Awaited ==
    {g \in Actors \X Skills :
        \E x \in Used(g[1]) : x.condition.on = "gained" /\ g[2] \in x.condition.by}

GainedHooks(order) ==
    [i \in DOMAIN order |-> [stage |-> "gained", source |-> order[i][1], target |-> Nobody,
                             by |-> order[i][2], critical |-> FALSE]]

\* Hooks of actors without side effects do nothing.
Relevant(hs) == At(hs, {i \in DOMAIN hs : Used(hs[i].source) # {}})

Pulses(e, s) ==
    [i \in DOMAIN on_pulse_effect_applications[s] |->
        [source |-> e, application |-> on_pulse_effect_applications[s][i]]]

\* Skills whose cooldown some condition asks for.
Watched == UNION {x.condition.off_cooldown : x \in UNION {Used(a) : a \in Actors}}

\* A cast is named by its caster and by how many casts of the caster waited when it began.
\* An entity begins one of them in a tick at most: a visit ends at once where it has begun
\* something in the tick, unless the cast has been put ahead of the plan.
Running(begun) ==
    LET new == {<<e, Len(queue[e])>> : e \in begun} IN
    [c \in DOMAIN casting \cup new |->
        IF c \notin new THEN casting[c]
        ELSE LET s == Head(queue[c[1]])
             IN  [skill |-> s, strikes |-> num_strikes[s], pulses |-> num_pulses[s]]]

\* What may be left at the end of a tick of the numbers to come.
Fewer(number) ==
    {left \in [DOMAIN number -> 0..Max({0} \cup Range(number))] :
        \A c \in DOMAIN number : left[c] \in 0..number[c]}

\* The casts of an entity act one after the other, the earliest first.
InTurn(order) ==
    \A i, j \in DOMAIN order :
        i < j /\ order[i][1] = order[j][1] =>
            order[i][2] > order[j][2] /\ \A k \in i..j : order[k][1] = order[i][1]

Again(n, list) == FlattenSeq([i \in 1..n |-> list])

\* Casts begin, strike and pulse as often as they have left to, and may end once nothing is
\* left; whoever has no cast left to begin has no more rotation.  Effects expire, cooldowns
\* come and go.
perform ==
    /\ phase = "casts" /\ phase' = "hooks"
    /\ \E back \in SUBSET Watched : off_cooldown' = (Skills \ Watched) \cup back
    /\ \E begun \in SUBSET {e \in Entities : queue[e] # <<>>} :
          /\ queue' = [e \in Entities |-> IF e \in begun THEN Tail(queue[e]) ELSE queue[e]]
          /\ LET casts == Running(begun) IN
             \E strikes_left \in Fewer([c \in DOMAIN casts |-> casts[c].strikes]),
                pulses_left \in Fewer([c \in DOMAIN casts |-> casts[c].pulses]) :
                LET strikes_now(c) == casts[c].strikes - strikes_left[c]
                    pulses_now(c) == casts[c].pulses - pulses_left[c]
                    acting == {c \in DOMAIN casts : strikes_now(c) > 0 \/ pulses_now(c) > 0}
                IN  \E finished \in SUBSET {c \in DOMAIN casts :
                                               strikes_left[c] = 0 /\ pulses_left[c] = 0} :
                    \E order \in {o \in SetToSeqs(acting) : InTurn(o)} :
                       /\ casting' = [c \in DOMAIN casts \ finished |->
                                        [casts[c] EXCEPT !.strikes = strikes_left[c],
                                                         !.pulses = pulses_left[c]]]
                       /\ finishing' = {c[1] : c \in finished}
                       /\ tally' = [tally EXCEPT !.finished = @ + Cardinality(finished)]
                       /\ outgoing_strikes' = FlattenSeq([i \in DOMAIN order |->
                             LET c == order[i]
                             IN  Again(strikes_now(c), <<[source |-> c[1],
                                                          skill |-> casts[c].skill]>>)])
                       /\ outgoing_effects' = FlattenSeq([i \in DOMAIN order |->
                             LET c == order[i]
                             IN  Again(pulses_now(c), Pulses(c[1], casts[c].skill))])
          /\ \E gained \in SUBSET {g \in Awaited : g[2] \notin off_cooldown'} :
                \E first \in SetToSeqs(gained), second \in SetToSeqs(begun) :
                   hooks' = Relevant(GainedHooks(first) \o BegunHooks(second) \o TickHooks)
    /\ no_more_rotation' = no_more_rotation \cup
          {e \in Alive \cup {a \in Actors : rotation[a] # <<>>} : queue[e] = <<>>}
    /\ duration_expired' \in SUBSET {e \in DOMAIN effects : effects[e].kind \notin lasting}
    /\ UNCHANGED <<tick, termination, owner, incoming_strikes, incoming_effects, effects,
                   destroy_effect, sides, stats>>

\* on_ammo_gained_hooks, on_begun_casting_skills_hooks, on_every_tick_hooks
run_hook ==
    /\ phase = "hooks" /\ hooks # <<>>
    /\ hooks' = Tail(hooks)
    /\ apply_side_effects(Head(hooks))
    /\ UNCHANGED <<phase, tick, termination, outgoing_strikes, outgoing_effects, incoming_strikes,
                   incoming_effects, effects, duration_expired, off_cooldown, stats>>

-----------------------------------------------------------------------------
(* Strikes *)

Enemies(e) ==
    At(view_order, {i \in DOMAIN view_order : team[view_order[i]] # team[get_owner(e)]})
Others(e) ==
    At(view_order, {i \in DOMAIN view_order : /\ view_order[i] # get_owner(e)
                                             /\ team[view_order[i]] = team[get_owner(e)]})

Aimed(e, s) == UpTo(Enemies(e), num_targets[s])

\* The list of its strikes per target, targets in any order.
ByTarget(list, order) ==
    FlattenSeq([i \in DOMAIN order |-> At(list, {j \in DOMAIN list : list[j].target = order[i]})])
Targets(list) == {list[i].target : i \in DOMAIN list}

Dispatched ==
    FlattenSeq([i \in DOMAIN outgoing_strikes |->
        LET strike == outgoing_strikes[i]
            aimed == Aimed(strike.source, strike.skill)
        IN  [j \in DOMAIN aimed |-> [source |-> get_owner(strike.source), target |-> aimed[j],
                                     skill |-> strike.skill]]])

StrikeHooks(hits, criticals) ==
    LET all == [i \in DOMAIN hits |-> [stage |-> "strike", source |-> hits[i].source,
                                       target |-> hits[i].target, by |-> hits[i].skill,
                                       critical |-> i \in criticals]]
    IN  At(all, {i \in DOMAIN hits : hits[i].skill \notin unhooked})

\* A critical strike does twice the damage.
Dealt(hits, criticals, a) ==
    LET sum[n \in 0..Len(hits)] ==
            IF n = 0 THEN 0
            ELSE IF hits[n].target # a THEN sum[n - 1]
            ELSE sum[n - 1] + damage[hits[n].skill] * (IF n \in criticals THEN 2 ELSE 1)
    IN  sum[Len(hits)]

HitsOf(a, list) == Cardinality({i \in DOMAIN list : list[i].source = a})
Larger(m, n) == IF m > n THEN m ELSE n

\* dispatch_strikes and apply_strikes
strikes ==
    /\ phase = "hooks" /\ hooks = <<>> /\ phase' = "strikes"
    /\ \E order \in SetToSeqs(Targets(Dispatched)) :
          LET hits == ByTarget(Dispatched, order) IN
          \E criticals \in SUBSET {i \in DOMAIN hits : hits[i].skill \in can_critical_strike} :
             /\ incoming_strikes' = hits
             /\ hooks' = StrikeHooks(hits, criticals)
             /\ incoming_damage' = [a \in Actors |-> Dealt(hits, criticals, a)]
             /\ tally' = [tally EXCEPT !.most = [a \in Actors |-> Larger(@[a], HitsOf(a, hooks'))]]
    /\ UNCHANGED <<tick, termination, rotations, outgoing_strikes, outgoing_effects,
                   incoming_effects, stacks, off_cooldown, sides, health, is_downstate,
                   buffered_condition_damage, audited>>

Applications(hook) ==
    LET s == hook.by IN
    [i \in DOMAIN on_strike_effect_applications[s] |->
        [source |-> hook.source, application |-> on_strike_effect_applications[s][i]]]

\* The strike's own effects go out once for each target it hit.
on_strike_hook ==
    /\ phase = "strikes" /\ hooks # <<>>
    /\ hooks' = Tail(hooks)
    /\ apply_side_effects(Head(hooks))
    /\ outgoing_effects' = outgoing_effects \o Applications(Head(hooks))
    /\ UNCHANGED <<phase, tick, termination, outgoing_strikes, incoming_strikes, incoming_effects,
                   effects, duration_expired, off_cooldown, stats>>

-----------------------------------------------------------------------------
(* Effects *)

Fit(application, source, s) ==
    At(s, {i \in DOMAIN s :
              independent_conditions_satisfied(application.condition, source, s[i])})

AmongTheFirst(e, application) ==  \* mutant: actors of the source's team count too
    LET first == Fit(application, get_owner(e), UpTo(view_order, application.num_targets))
    IN  At(first, {i \in DOMAIN first : team[first[i]] # team[get_owner(e)]})
Opponents(e, application) ==
    UpTo(Fit(application, get_owner(e), Enemies(e)), application.num_targets)

\* The source of a TEAM application gets it on no condition.
Recipients(e, application) ==
    LET source == get_owner(e) IN
    CASE application.direction = "SELF" -> Fit(application, source, <<source>>)
      [] application.direction = "TEAM" ->
            <<source>> \o UpTo(Fit(application, source, Others(e)), application.num_targets - 1)
      [] application.direction = "OUTGOING" -> Opponents(e, application)

\* Where the applications of a list of outgoing effects go.
Sent(list) ==
    FlattenSeq([i \in DOMAIN list |->
        LET to == Recipients(list[i].source, list[i].application) IN
        [j \in DOMAIN to |-> [source |-> get_owner(list[i].source), target |-> to[j],
                              application |-> list[i].application]]])

\* Sources send in any order.
dispatch_effects ==
    /\ phase = "strikes" /\ hooks = <<>> /\ phase' = "effects"
    /\ \E by \in SetToSeqs({out.source : out \in Range(outgoing_effects)}) :
          LET list == Sent(FlattenSeq([i \in DOMAIN by |->
                          At(outgoing_effects, {j \in DOMAIN outgoing_effects :
                                                  outgoing_effects[j].source = by[i]})]))
          IN  \E order \in SetToSeqs(Targets(list)) : incoming_effects' = ByTarget(list, order)
    /\ UNCHANGED <<tick, termination, rotations, outgoing_strikes, outgoing_effects,
                   incoming_strikes, hooks, stacks, off_cooldown, sides, stats, tally>>

AddedRegardless(a, k, n) == n  \* mutant
Added(a, k, n) ==
    LET there == Cardinality(Stacks(a, k))
        limit == IF k \in extended THEN 1 ELSE max_stored_stacks[k]
    IN  IF n < limit - there THEN n ELSE limit - there

ApplicationHook(in) ==
    [stage |-> "applied", source |-> in.source, target |-> in.target, by |-> in.application.kind,
     critical |-> FALSE]

\* add_effect_to_actor or add_unique_effect_to_actor, of which Effects has the durations.
\* Effects that are not unique have hooks; they see the new stacks.
apply_effect ==
    /\ phase = "effects" /\ incoming_effects # <<>>
    /\ LET in == Head(incoming_effects)
           k == in.application.kind
           n == Added(in.target, k, in.application.num_stacks)
           new == LowestOf((1..MaxEffects) \ DOMAIN effects, n)
       IN  /\ Cardinality(new) = n
           /\ effects' = [e \in DOMAIN effects \cup new |->
                             IF e \in new THEN [kind |-> k, on |-> in.target, source |-> in.source]
                             ELSE effects[e]]
           /\ duration_expired' = IF k \in extended THEN duration_expired \ Stacks(in.target, k)
                                  ELSE duration_expired
           /\ hooks' = Relevant(IF in.application.unique THEN <<>> ELSE <<ApplicationHook(in)>>)
    /\ phase' = IF hooks' = <<>> THEN "effects" ELSE "applied"
    /\ incoming_effects' = Tail(incoming_effects)
    /\ UNCHANGED <<tick, termination, rotations, outgoing_strikes, outgoing_effects,
                   incoming_strikes, destroy_effect, off_cooldown, sides, stats, tally>>

on_effect_application ==
    /\ phase = "applied" /\ phase' = "effects"
    /\ hooks' = Tail(hooks)
    /\ apply_side_effects(Head(hooks))
    /\ UNCHANGED <<tick, termination, outgoing_strikes, outgoing_effects, incoming_strikes,
                   incoming_effects, effects, duration_expired, off_cooldown, stats>>

-----------------------------------------------------------------------------
(* The end of a tick *)

Conditions == {e \in DOMAIN effects : effects[e].kind \in damaging}

\* Expired conditions buffer their last payment; when an interval is over the others pay too
\* and the buffer is dealt.  Then update_combat_stats.
update_combat_stats ==
    /\ phase = "effects" /\ incoming_effects = <<>> /\ phase' = "stats"
    /\ \E interval \in BOOLEAN :
          LET paying == IF interval THEN Conditions ELSE Conditions \cap duration_expired
              buffer == [a \in Actors |-> buffered_condition_damage[a]
                                            + Cardinality({e \in paying : effects[e].on = a})]
          IN  /\ buffered_condition_damage' = IF interval THEN [a \in Actors |-> 0] ELSE buffer
              /\ incoming_damage' = IF ~interval THEN incoming_damage
                                     ELSE [a \in Actors |-> incoming_damage[a] + buffer[a]]
    /\ health' = [a \in Actors |-> IF a \in is_downstate THEN health[a]
                                   ELSE health[a] - incoming_damage'[a]]
    /\ is_downstate' = is_downstate \cup {a \in Actors : health'[a] <= 0}
    /\ UNCHANGED <<tick, termination, rotations, queues, stacks, off_cooldown, sides, audited, tally>>

WithoutActiveSkills(e) == TRUE  \* mutant
\* Neither skills_ticks_tracker nor skills_actions, nor their finished counterparts.
NoActiveSkills(e) == e \notin finishing /\ \A c \in DOMAIN casting : c[1] # e

audit_damage == [a \in Actors |-> audited[a] + incoming_damage[a]]

\* cleanup_expired_components, destroy_actors_with_no_rotation, audit_damage,
\* cleanup_skill_*, destroy_marked_entities with what they own, clear_temporary_components
end_tick ==
    LET gone == destroy_effect \cup duration_expired
        destroyed == {e \in Alive \cap no_more_rotation : NoActiveSkills(e)}
    IN  /\ phase = "stats" /\ phase' = "ended"
        /\ audited' = audit_damage
        /\ effects' = [e \in DOMAIN effects \ gone |-> effects[e]]
        /\ owner' = [e \in Alive \ destroyed |-> owner[e]]
        /\ no_more_rotation' = no_more_rotation \ destroyed
        /\ queue' = [e \in Entities |-> IF e \in destroyed THEN <<>> ELSE queue[e]]
        /\ finishing' = {} /\ already_triggered' = {}
        /\ duration_expired' = {} /\ destroy_effect' = {}
        /\ outgoing_strikes' = <<>> /\ outgoing_effects' = <<>>
        /\ incoming_strikes' = <<>> /\ incoming_effects' = <<>>
        /\ incoming_damage' = [a \in Actors |-> 0]
        /\ tally' = [tally EXCEPT !.removed = [k \in Kinds |->
                        @[k] + Cardinality({e \in destroy_effect : effects[e].kind = k})]]
        /\ UNCHANGED <<tick, termination, casting, hooks, off_cooldown, counters, health,
                       is_downstate, buffered_condition_damage>>

-----------------------------------------------------------------------------
(* continue_combat_loop *)

\* Actors with a rotation that the condition names; child actors have names of their own.
Meant(c) ==
    {e \in Alive \cup {a \in Actors : rotation[a] # <<>>} : c.actor \in {Nobody, e}}

Met(c) ==
    \/ c.type = "TIME" /\ tick >= c.bound
    \/ c.type = "DAMAGE" /\ max_health[c.actor] - health[c.actor] >= c.bound
    \/ c.type = "ACTIVE_SKILLS" /\ \A e \in Meant(c) : e \in no_more_rotation /\ NoActiveSkills(e)

GoesOnRegardless == \A c \in termination : ~Met(c)  \* mutant: downstate does not end the run
GoesOn == is_downstate = {} /\ \A c \in termination : ~Met(c)

continue_combat_loop ==
    /\ phase = "ended"
    /\ phase' = IF GoesOn THEN "casts" ELSE "over"
    /\ tick' = IF GoesOn THEN tick + 1 ELSE tick
    /\ UNCHANGED <<termination, rotations, queues, stacks, off_cooldown, sides, stats, tally>>

Next ==
    \/ perform \/ run_hook \/ strikes \/ on_strike_hook
    \/ dispatch_effects \/ apply_effect \/ on_effect_application
    \/ update_combat_stats \/ end_tick \/ continue_combat_loop

Spec == Init /\ [][Next]_vars

-----------------------------------------------------------------------------
(* Properties *)

\* Every queue holds what belongs in it, only what exists is marked, and no id is used
\* beyond the bounds.
TypeOK ==
    /\ phase \in {"casts", "hooks", "strikes", "effects", "applied", "stats", "ended", "over"}
    /\ tick \in Nat /\ termination \in encounters
    /\ Alive \subseteq Children /\ owner \in [Alive -> Actors]
    /\ queue \in [Entities -> Seq(Skills)]
    /\ casting \in [DOMAIN casting -> [skill : Skills, strikes : Nat, pulses : Nat]]
    /\ no_more_rotation \cup finishing \subseteq Actors \cup Alive
    /\ {c[1] : c \in DOMAIN casting} \subseteq Actors \cup Alive
    /\ \A e \in Children \ Alive : queue[e] = <<>>
    /\ DOMAIN effects \subseteq 1..MaxEffects
    /\ effects \in [DOMAIN effects -> [kind : Kinds, on : Actors, source : Actors]]
    /\ \A a \in Actors, k \in Kinds : Cardinality(Stacks(a, k)) <= max_stored_stacks[k]
    /\ duration_expired \cup destroy_effect \subseteq DOMAIN effects
    /\ counters \in [Counters -> Int] /\ health \in [Actors -> Int]
    /\ is_downstate = {a \in Actors : health[a] <= 0}
    /\ incoming_damage \in [Actors -> Nat] /\ buffered_condition_damage \in [Actors -> Nat]
    /\ hooks # <<>> => phase \in {"hooks", "strikes", "applied"}

\* An actor's health is what the audited damage has left of it: an actor that is down takes
\* none, and the run ends before it is dealt any more.
HealthAccountedFor ==
    phase = "ended" => \A a \in Actors : max_health[a] - health[a] = audited[a]

\* A strike's effect application on enemies goes out on its own and looks for targets of its
\* own: when it may have as many as the strike, everyone hit carries the effect by the time
\* damage is counted, whatever else was dispatched.  An application of no stack leaves none.
HitsAreMarked ==
    phase = "stats" =>
        \A hit \in Range(incoming_strikes) :
            \A x \in Range(on_strike_effect_applications[hit.skill]) :
                x.direction = "OUTGOING" /\ x.condition = Always /\ x.num_stacks > 0
                    /\ x.num_targets >= num_targets[hit.skill] /\ hit.skill \notin unhooked
                => Stacks(hit.target, x.kind) # {}

\* The way builds count hits: a strike adds one, and at n, n are taken off, not in the tick
\* of the strike but by the hook of the next tick.  Nothing else touches the counter.
AtLeast(c, n) == [Always EXCEPT !.thresholds = {[type |-> "at least", of |-> c, value |-> n]}]
OnStrike(condition) == [condition EXCEPT !.on = "strike"]
Adds(c) == [counter |-> c, operation |-> "ADD", operands |-> <<1>>,
            condition |-> OnStrike(Always), from |-> {}]
Takes(c, n) == [counter |-> c, operation |-> "SUBTRACT", operands |-> <<n>>,
                condition |-> AtLeast(c, n), from |-> {}]
Once(m, ms) == \E i \in DOMAIN ms : {j \in DOMAIN ms : ms[j] = m} = {i}
CountsHits(a, c, n) ==
    /\ n > 0 /\ initial_value[c] = 0
    /\ Once(Adds(c), counter_modifiers[a]) /\ Once(Takes(c, n), counter_modifiers[a])
    /\ \A b \in Actors : \A m \in Range(counter_modifiers[b]) :
          m.counter = c => b = a /\ m \in {Adds(c), Takes(c, n)}

\* The skill has this trigger of a and no other.
OnlyTrigger(a, t) ==
    /\ t \in skill_triggers[a] /\ t \notin unchained_skill_triggers[a]
    /\ \A b \in Actors : \A u \in Triggers(b) : u.skill_key = t.skill_key => b = a /\ u = t

\* A trigger that waits for the counter to reach n fires for every n-th hit, neither more
\* often nor less, whichever ticks the hits fall in, while no tick has more than n of them.
EveryNthHit ==
    \A a \in Actors, c \in Counters, t \in UNION {skill_triggers[b] : b \in Actors} :
        \A n \in Nat \cap {x.value : x \in t.condition.thresholds} :
            /\ CountsHits(a, c, n) /\ OnlyTrigger(a, t)
            /\ t.condition = OnStrike(AtLeast(c, n)) /\ t.from = {} /\ tally.most[a] <= n
            => tally.spawned[t.skill_key] = tally.hits[a] \div n

\* A removal of one stack and a trigger on the same condition keep in step: each proc uses
\* up one stack, however many strikes of a tick ask for it.  Not so when applied effects ask:
\* a stack applied between two of them can come first the second time.
UsesStacks(a, t, r) ==
    /\ r.condition = t.condition /\ r.condition.on # "applied"
    /\ r.condition.on_source = {r.kind} /\ r.num_stacks = 1 /\ r.from = {} /\ t.from = {}
    /\ OnlyTrigger(a, t)
    /\ \A b \in Actors : \A q \in Range(effect_removals[b]) : q.kind = r.kind => b = a /\ q = r
OneStackPerProc ==
    phase = "ended" =>
        \A a \in Actors : \A t \in skill_triggers[a], r \in Range(effect_removals[a]) :
            UsesStacks(a, t, r) => tally.spawned[t.skill_key] = tally.removed[r.kind]

\* How many there are of all together: of each x, counts[x].
Total(counts) == Cardinality(UNION {{x} \X (1..counts[x]) : x \in DOMAIN counts})

\* A run that ends because no skill is active has carried out every cast: those of the
\* rotations and of every child actor that anything spawned, the last tick's included.
CastsAreCarriedOut ==
    phase = "over" =>
        \A c \in termination :
            c.type = "ACTIVE_SKILLS" /\ c.actor = Nobody /\ Met(c) =>
                tally.finished = Total([a \in Actors |-> Len(rotation[a])]) + Total(tally.spawned)
=============================================================================
