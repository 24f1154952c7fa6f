# A verification model of gw2combat

gw2combat simulates Guild Wars 2 combat: given an *encounter* (actors with builds and
rotations, and a termination condition) it plays the fight out, one tick per millisecond, and
answers with a report. It runs once from the command line, or as a TCP or HTTP server that
keeps *registry snapshots* of rotations it has already played in a process-wide cache.

This directory holds TLA+ modules that model its parts, TLC configurations that check them
on small instances, and theorems about them that TLAPS checks for every value of the
constants. Paths below are relative to the repository's own `src/` unless they begin with
`resources/`; `PROJECT.json` lists for every definition the lines it models.

    tlc -config CooldownCharges.cfg MCCooldown.tla       # one run
    tlapm CooldownProofs.tla                             # one module of proofs

## 1. Inventory

| Part | State | Operations | Modelled in |
|---|---|---|---|
| Snapshot cache (`mru_cache.hpp`) | capacity, list of keys in order of use, map from key to value and list iterator | `get` promotes, `put` replaces or evicts, `resize` drops the oldest | `MruCache`, promised by `BoundedLru` |
| Combat loop (`combat_loop.cpp:276-389`) | per request: registry, checkpoint, key, prefix | look up ever shorter prefixes, resume or start fresh, tick until the termination condition, report, put | `CombatLoop` |
| Rotation, animations, triggers, child actors, bundles and weapon sets (`system/rotation.cpp`, `system/temporal.cpp:23-149`, `utils/side_effect_utils.hpp`, `utils/actor_utils.cpp`) | rotation index, queued casts, animation, finished casts, once-a-tick flags, weapon set and bundle, live child actors | begin and finish casts, choose from a conditional group, equip, drop and swap, fire triggers, spawn child actors, retire them | `Rotation` |
| Skill execution (`system/skill.cpp`) | running casts with the strikes, pulses, finishers and skill ticks they have reached | advance, deal what is due, list what finished, erase it | `SkillExecution` |
| Charges and cooldowns (`utils/skill_utils.cpp`, `system/temporal.cpp:151-187`, `utils/actor_utils.hpp:89-121`) | charges, cooldown progress with and without alacrity, expiry marks | put a skill (its group, others) on cooldown, recharge, modify, clean up | `Cooldown` |
| Effects (`utils/actor_utils.cpp:204-430`, `system/effects.cpp`) | effect entities with durations, marks for expiry and destruction, `has_quickness`/`has_alacrity` | apply and stack, remove, progress, pay condition damage, clean up | `Effects` |
| Strike and effect pipeline (`system/dispatch_strikes_and_effects.cpp`, `system/apply_strikes_and_effects.cpp`, `system/hooks.cpp`) | queues of outgoing and incoming strikes and effects | dispatch to targets, apply, run hooks | `Pipeline`; stacking over time in `Effects` |
| Conditions, thresholds, counters (`utils/condition_utils.cpp`, `utils/counter_utils.hpp`) | counters, the random generator | evaluate a condition in its stage, modify a counter | `Pipeline`; random numbers in `Rotation` |
| Lifecycle and ownership (`combat_loop.cpp:79-104`) | owner of each entity, `destroy_entity` | destroy marked entities and what they own | `Pipeline`, `Rotation`, `Effects` |
| Termination (`combat_loop.cpp:185-274`) | none of its own | decide whether to tick again | TIME, DAMAGE, ACTIVE_SKILLS and downstate in `Pipeline`; ROTATION, TIME, DAMAGE in `CombatLoop` |
| Audit and report (`system/audit.cpp`) | list of events | append events, build the report | offset, error and random draws in `CombatLoop`; bundles in `Rotation`, damage in `Pipeline`, remaining cooldowns in `Cooldown` |
| Attributes (`system/attributes.cpp`) | the attributes of each actor towards each other, for one tick | compute them once, from the stacks and traits there are; forget them | `Attributes` |
| Set-up (`system/encounter.cpp`, `system/actor.cpp`) | the initial registry | build it | as each module's `Init` |
| HTTP server (`server_http.cpp`) | threads, connections with their requests and timers, the pending accept, the first exception | accept, read, answer, keep or close a connection; start, stop and join threads | `ServerHttp`; simulations as the threads of `CombatLoop` |
| TCP server, command line (`server_tcp.cpp`, `main*.cpp`) | one connection | read, call `combat_loop`, reply | as the one thread of `CombatLoop` |
| Configuration, data types, JSON; vendored libraries | data | conversions | no |

**How the parts interact.** The servers call `combat_loop`; the HTTP server does so from
several threads, which share nothing but the snapshot cache and the `io_context` they take
handlers from. Inside a run everything is
single-threaded: `tick` (`combat_loop.cpp:113-175`) calls the systems in a fixed order and
they communicate through components of a shared registry. A component left by one system is
read by a later one of the same tick, and marks (`animation_expired`, `cooldown_expired`,
`duration_expired`, `destroy_entity`) delay removals to its end. Entt visits entities in no
order the program determines.

    rotations <-> animations, finished casts   (inner loop, until neither does anything)
    progress: skill ticks, actions, cooldowns, durations
    perform: skill ticks, actions
    hooks, strikes, effects, condition damage
    cleanup, audit, destruction, clearing of the marks

**What is hard.** (a) The cache protocol: three calls on the cache per request, other
threads between them, and a snapshot that must be the same whoever makes it. (b) A tick is
many small steps whose order matters: a mark set early and honoured late meets whatever
happened in between. (c) Integer percentages and sums of doubles decide when things happen
while alacrity and quickness come and go. (d) Casts that trigger casts within one tick. (e)
Lists addressed by something less than an element's identity. (f) Handlers of a connection that
continue on any thread, while timers run out, peers leave and the server is told to stop. The
hazards in
`PROJECT.json` name each at its line.

**What makes each part correct.**
* cache: list and map agree, the capacity holds, it is a bounded LRU map;
* combat loop: a reply never depends on what is cached or on other threads, failed runs leave
  no trace, every request is answered;
* HTTP server: answers come in the order of the requests, no request is forgotten, and
  whatever ends one thread ends all and is reported;
* attributes: a tick has one set of them, whoever asks first and in whatever order they are
  summed up;
* rotation: a tick ends with nothing undone, casts and guarded procs find the charge, weapon
  set and bundle they need, swaps are paid for, the audit tells the bundle in hand, a repeated
  rotation goes round;
* skill execution: no hit is lost, the right cast ends, and an actor's hits come within the
  cast time;
* cooldowns: a missing charge is being recharged and nothing else is, and a charge comes back
  neither early nor late and about when the report says;
* effects: stacking keeps one entity and its marker, conditions pay for exactly their time,
  reapplying never shortens;
* pipeline: damage dealt is damage taken and audited, whoever is hit carries what the hit
  applies, procs fire as often as their counter or their charges say, and a run that ends
  for want of active skills has carried out every cast.

## 2. Modules

| Module | Models | State and actions against the code |
|---|---|---|
| `BoundedLru` | what the cache promises | one sequence of entries, most recent first; get, put, resize |
| `MruCache` | `mru_cache_t` | `mru_list` and `cache` as in the code; an iterator is the node's identity; one action per member function |
| `CombatLoop` | `combat_loop` with `MruCache` inside | a `pc` per thread; each call on the cache is a step, the code between two calls is part of one. A registry is what a continuation can tell apart: tick, rotation, animation, events with the random number each drew |
| `Rotation` | the inner loop of `tick` and what follows for casts | `phase` and `todo` are the pass that runs and the entities it has still to visit, in any order; one action per branch of `perform_rotations` and `progress_animations`, and one for each place that throws; `rotation` is chosen in `Init`; `audited_bundle` is what a reader of the audit believes |
| `SkillExecution` | `system/skill.cpp` and the progress of casts | lists of running casts of an actor or child actor (`has_owner`); one action per system; `has_quickness` is the marker of the actor or the owner, which animations go by, `OwnQuickness` that of the entity, which casts go by; doubles that may round down are a choice |
| `Cooldown` | `put_skill_on_cooldown`, `progress_cooldowns`, modifiers | components as sets of skills that have them; the phases of a tick; what the report says of a cooldown is a set, as its doubles may be cut on either side of an integer |
| `Effects` | `add_effect_to_actor`, durations, payments | effect entities of one actor; `unpaid` is a history variable |
| `Attributes` | `calculate_relative_attributes`, extends `Effects` | `relative_attributes` of the actor towards one other, or that there are none yet; `dispatch` is the place in `tick` that asks first, `Visits` the orders of entt's pools; percentages and integers for doubles |
| `Pipeline` | hooks, dispatch and application of strikes and effects, side effects with their conditions, damage, termination | `phase` is the place in `tick`, `hooks` the hooks that are due; one action per system or hook; what the earlier half of a tick does is the one action `perform`; `tally` is history |
| `ServerHttp` | `server_http.cpp` | a thread serves a session or is idle; one action per handler of a session and of the acceptor, per step of `start_server_http`, and per thing a peer, a timer or the system does to them; Boost (queue of handlers, sockets, timer) is what those actions need of it |
| `MC...` | instances | the constants the configurations assign |
| `MruCacheProofs`, `CombatLoopProofs`, `CooldownProofs`, `RotationProofs`, `EffectsProofs`, `SkillExecutionProofs`, `PipelineProofs`, `ServerHttpProofs` | theorems | section 5 |

Each module has its own view of a tick. They meet in the components they share: `Cooldown`
takes any cast that `Rotation` allows, `Rotation` keeps only as much of a running cast as
decides when a child actor retires and `SkillExecution` has the rest, and `Effects` decides
the `has_quickness` and `has_alacrity` that the others take as coming and going at will.
Each module thus allows more behaviour of its surroundings than the code has. `Pipeline` starts
where the others leave off: in `perform` each entity may begin the next of its casts, any of
the casts that run, several of an entity included, may strike and pulse as often as they have
left to and may end when nothing is left; any effect that a run can outlast may expire and any
cooldown that a condition asks about may run or not. An entity begins one cast a tick at most:
a second visit of the inner loop returns (`system/rotation.cpp:37`) unless a cast has been
queued ahead of the rotation, which triggers on a source actor do; these are in `Rotation`.

Definitions marked *mutant* are plausible mistakes in the code. They take no part in the
specifications; each is put in place of the definition next to it to see that some property
notices.

## 3. Runs

| Run | Instance | Shows |
|---|---|---|
| `mru_cache` | 4 keys, 2 values, capacities 0 to 3 by resize | `ListIndexesCache`; `ImplementsLru`: refines `BoundedLru` |
| `combat_loop` | one thread, 2 entries, with rotations, continuations, a failing one, uncached, empty, repeated, stopped early; or two threads and no eviction | `Reproducible` and `CanonicalEntries` after every history and under every interleaving; `Answered` |
| `combat_loop_eviction_race` | two threads, 1 entry | **violates** `Reproducible` |
| `combat_loop_report_draws` | one thread, reports that draw a random number | **violates** `Reproducible` |
| `rotation_triggers` | five rotations of attacks, kits and swaps, with triggers of all three kinds, one of them carried by a skill, and a child skill | `NothingLeftUndone`, `CastsFindWhatTheyNeed`, `SwapsArePaidFor`, `AuditTellsTheBundle`, `EveryTickEnds`, `RotationGoesRound` |
| `skill_execution` | three skills, 3 casts at a time, of an actor or a child actor | `EveryHitDealt`, `HitsLandWithinTheCast`, `FinishedCastsLeave` |
| `skill_execution_quickness` | one skill with the lists of Puncture Shot | **violates** `QuicknessTicks` |
| `cooldown_charges` | 3 skills, two of them in a group, cooldowns of 13/11 and 3/2 ticks, every source of puts, every modifier, alacrity coming and going | `ChargesMatchCooldown`, `NeverEarly`, `NeverLate`, `ReportedCooldowns`, `Recharges` |
| `cooldown_stranded` | a skill tick that puts a skill on cooldown | **violates** `OutOfAmmoIsOnCooldown` |
| `effects_stacking` | one kind for each way of stacking, 3 entities, payments every second tick; three attributes with modifiers and conversions of stacks and of a trait | `OneAtATime`, `MarkedWhileItLasts`, `PaidInFull`, `NeverShortened`, `OneCalculationPerTick` |
| `pipeline` | a hero, an ally, two golems of 6 and 4 health; a tome, a slash that strikes two targets twice, three kinds of procs; ended by TIME, ACTIVE_SKILLS, DAMAGE or downstate | `HealthAccountedFor`, `HitsAreMarked`, `EveryNthHit`, `OneStackPerProc`, `CastsAreCarriedOut` |
| `server_http` | 2 threads, one connection with up to 2 pipelined simulations and one with a health check or what does not parse; every fault at any time | `AnsweredInOrder`, `EveryRequestServed`, `ShutsDown` |

Four runs end in a counterexample to something the repository says of itself:

1. **Eviction race** (`combat_loop.cpp:343`). A thread resumes an entry and then asks the cache
   whether its key is there. If another thread evicted it in between, the thread saves a
   checkpoint after its first tick, one later than the canonical one, and puts it under
   the same key. An instant cast appended to the rotation then starts a tick later than it
   would without the cache.
2. **Report draws** (`combat_loop.cpp:386`). When a run ends before a checkpoint, the registry is
   put *after* the report evaluated conditions on it, and a random condition advances the
   generator: the repeated request answers differently.
3. **Stranded skill** (`system/temporal.cpp:227`). A skill tick that puts a skill on cooldown in
   the tick its cooldown expired takes a charge and keeps the component it finds, which the
   cleanup then removes. The charge never comes back.
4. **Quickness ticks** (`system/skill.cpp:332`). Only the base list of `strike_on_tick_list` is
   walked, at a scaled tick. The schema calls the second list the ticks with quickness; for
   several builds in `resources/` the two disagree by up to 180 ms.

## 4. Bounds, abstraction and fairness

*Time.* A tick is a millisecond and durations in builds are hundreds of them. What the code
compares are orders, remainders and truncated quotients, so durations of 2 to 13 ticks give
every case: 13, 11, 3 and 6 do not divide 100, so the truncation of cooldowns bites, and 6/3
gives a sum of percentages that doubles cannot represent. Payments come every 2 ticks in
place of 1000, so a condition can expire in the tick of a payment, next to it and between.

*Numbers of things.* Three casts of one entity are the fewest in which a cancelled cast can be
skipped; three effect entities let a stack expire, another be destroyed and a third be created
in one tick, and exceed what is considered of a kind; two threads and one cache entry suffice
for the eviction between two calls; four keys exceed every capacity. In `server_http` two
threads and two connections let simulations hold every thread while the other connection
waits; the second request of a connection is read ahead of the first one's reply.
`MaxChildren` (9) is above what the triggers of `rotation_triggers` spawn in a tick.
`MaxEffects` (5) is above the effects the instance of `pipeline` has at a time; its
`MaxChildren` (4) leaves out behaviours with five child actors alive at once, while four already
include procs of all three kinds. Its charges and marks last longer than a run (`lasting`), its
burning may expire in any tick. A slash has two strikes on two targets, so a tick has none, two or
four hits of it and those of justice, against a counter that is due at three: two ticks reach it
in the middle of the second, and a tick with four is more than `EveryNthHit` speaks of. The
strikes may come in one tick or in two, before or after a child actor's. `MaxCasts`, `MaxEntities`,
`MaxChildren`, `MaxShift` (how far modifiers push a cooldown out of its range) and `MaxTicks`
are the bounds; the last one is checked by the assumption `RunsFit`.

*Assumptions on the configuration*, each a named `ASSUME`, which TLC evaluates and the proofs
cite. What a build or an encounter may say is restricted by few of them: lists of ticks ascend
and come in pairs of one length; a cooldown or cast time is zero with and without its boon or in
neither case; `also_put`, groups and child skills name skills of the actor; only what stacks in
duration has a marker; a repeated rotation has casts, and some actor has a rotation; in
`Pipeline` a condition that looks at a target is not asked where there is none, and a side
effect's unique effect has one stack. The others are types (a trigger names a skill, a removal a
kind, a request its method) and finiteness (an actor has finitely many skills and triggers); of
the model's own values, child actors are not actors of the encounter and an idle thread is not a
session.

*Order of views.* Most views visit in no order a program should rely on, and the modules let
them. The exception is `view_order` in `Pipeline`: it is the order of the pool of teams, and
decides who is among the first `num_targets`. The encounter's actors are the first in that
pool and never leave it, while child actors come and go behind them, so it stays what set-up
made it.

*Scope of some properties.* `ChargesMatchCooldown` excludes skills put on cooldown by skill
ticks (finding 3). `MarkedWhileItLasts` requires that no removal names a boon, which holds of
every build in `resources/`: a removal would leave the marker behind. `PaidInFull` is about
conditions that run their course: a removed one loses what is unpaid, and a replaced one is
paid for its whole duration. `NeverShortened` holds below the caps: at `max_stored_stacks` a
new stack is dropped, and extending an effect already above its cap shortens it.
`HitsLandWithinTheCast` is for skills whose lists lie within their cast time, and for a
child actor only for casts during which its owner had no quickness: the code advances an
animation by the owner's quickness (`system/temporal.cpp:36`) and the casts by the entity's own
(`system/temporal.cpp:209`), which a child actor never has, so with a cast time of 1020/680 the
animation can end at 680 and the last hit come at 1020. `ReportedCooldowns` allows the list of skill
statuses one tick too many: it subtracts a product of doubles cut to an integer, and with a
duration of 49 and a progress of 1 it says 49 where 48 ticks are left. `CastsAreCarriedOut` is
about casts that no other cancels.
`CastsFindWhatTheyNeed` and `SwapsArePaidFor` are for rotations that are `Orderly`: each cast
finds the weapon set and bundle it needs as those before it leave them, by a reading of the
rotation alone, skills that use or change them have a cast time, and no proc takes the charge
of a planned cast. `Tame` is what they need of the skills and triggers: procs change neither
set nor bundle, skills of a group are alike in what they pay, a proc with a cooldown is instant
and has one trigger that looks at its cooldown, and a Weapon Swap is in no group. `MCRotation`
assumes `Tame` of its instance and that two of its rotations are orderly.
`AuditTellsTheBundle` needs that no bundle is dropped
and equipped again within one tick: the audit lists equipments first. `EveryTickEnds` needs
that each cycle of triggers goes through one that fires once a tick or through a cast that
takes time, and that no skill of the cycle carries its trigger, as every child actor gets a
copy with a mark of its own (`utils/actor_utils.cpp:108`). `OneCalculationPerTick` needs
modifiers that commute: an attribute that some add to and others multiply depends on the order
of the pool, and no build in `resources/` has one. `EveryRequestServed` excuses what the code
excuses: connections it has not accepted when it stops or after a failed accept
(`server_http.cpp:257`, which ends accepting for good), the 30 seconds of the session, a peer
that is gone, and requests after one that closed the connection. `Recharges` leaves out skills
whose cooldown some modifier may lengthen (`HeldBack`) and runs that fail.

In `Pipeline`, conditions nest one level deep and what skills carry of side effects is left
out; `not` is read as the code reads it, some listed condition fails. `EveryNthHit` speaks of
counters modified as builds in `resources/` do (`build-qfb.json`, "Virtue of Justice
Counter"): one is added by each strike, n are taken off when n are there, and no other modifier,
of any actor, touches the counter. It holds while a tick has at most n hits, because a trigger
fires once a tick. `OneStackPerProc` speaks of a
removal and a trigger on one condition ("Ashes of the Just"), of a kind that nothing else
removes and a skill that nothing else triggers (`UsesStacks`). It leaves out the hooks of applied
effects: a stack applied between two of them can come first at the second, and the
removal then marks another one, while the trigger has fired. `HitsAreMarked` is about
applications of at least one stack on no condition; it looks before the
cleanup of the tick, as an old mark that expired in the very tick keeps a new one from being
stored.

*Fairness.* `CombatLoop`: weak fairness of each thread's own steps, as threads run until they
return; none for the arrival of requests. `Rotation`: weak fairness of the next step, because
one thread runs the loop. `Cooldown`: weak fairness of the actions that end a phase, because
`tick` is a straight line of loops over finite sets. `ServerHttp`: weak fairness of the server
and the network together (`System`), because an idle thread takes some handler that is due,
simulations end (`Answered`) and writes arrive or fail; none of peers, timers, signals and
faults, and none of a particular handler. No strong fairness is assumed, and no fairness of a
particular cast, trigger or application.

*Deadlock* is checked where the code cannot stop. `Cooldown` and `Rotation` stop when an
exception ends the run, `Pipeline` when its termination condition does, and `ServerHttp` when
`start_server_http` is over, so their runs allow it.

## 5. Proofs

Each module of theorems proves an inductive invariant: what the properties say, and what they
rest on. TLC checked the invariants on the instances of section 3 before they were proved. The
proofs assume the named `ASSUME`s and nothing else, so what they show holds for every value of
the constants: any number of actors, skills, casts, threads and ticks.

**`MruCacheProofs`**: `TypeCorrect`, `ListAlwaysIndexesCache`, `AlwaysWithinCapacity` (which no
run repeats, as `ImplementsLru` implies it), `CacheImplementsLru`.
The invariant bounds the list in place of the map: the code erases the map's entry for the
list's last key without looking, so the bound on the map needs the agreement of map and list,
and the agreement needs that the list has no key twice. Lemmas say what moving a key to the
front, erasing one and keeping a prefix do to such a list; with them each member function is
a step of `BoundedLru` under the mapping of `ImplementsLru`.

**`CombatLoopProofs`**: `TypeCorrect`, without hypotheses; `RepliesAreReproducible` and
`SnapshotsAreCanonical`, if `ReportDraws` is zero and either one thread serves or no key is ever
evicted. Findings 1 and 2 are what happens without either. Runs are a recursive function of the
number of turns, and the argument is a simulation: the run of a prefix and that of the whole
rotation are at each turn the same but for the casts to come, until the prefix's reaches its
checkpoint. So a thread that
resumed an entry `Follows` the run from tick zero, and puts the checkpoint of that run. The one
place where the cache matters to it is the question whether its own key is there: if not, the
run may not have reached its checkpoint yet. Without eviction the answer is still that of the lookup.

**`CooldownProofs`**:
* `TypeCorrect` (a charge count never leaves `0..max_ammo`) and `ChargesAlwaysMatchCooldown`.
  Neither is inductive alone: `progress_cooldowns` stays within the maximum because a running
  cooldown means a missing charge, and a cast keeps the two in step because it meets no
  cooldown that is about to be removed. The invariant adds `MarksOfThisTick`: marks belong to
  components and are gone when a tick begins;
* `CooldownsNeverEndEarly`, an action property, from the lemma that two truncated percentages
  which reach 100 stand for a whole, with an invariant on the ranges
  of the progress: only modifiers make it negative, and only the part without alacrity;
* `CooldownsNeverEndLate`: truncated percentages below 100 stand for less than a whole and a
  hundredth;
* `ReportsTellTheTicks`: the ticks left are the least number that closes the gap. The two lists
  of the report cut quotients of doubles to integers, and where a quotient is an integer it may
  or may not lose one (`CastToInt`): that and the percentages lose no more than the property
  allows.

**`RotationProofs`**:
* `TypeCorrect`. Its invariant has `GoneOK`, that nothing is left of a destroyed child actor:
  a new one that takes its place begins with an empty queue;
* `LoopLeavesNothing`, from `Round`: while a round of the inner loop has done nothing, each
  rotation it has visited still has no cast that could begin. A round that ends without progress
  has thus looked at every rotation in the state it leaves behind. This is where casts that
  only become possible within the round, by a trigger or the end of an animation, have to show up
  as progress;
* `AuditTellsUnlessRetaken`, for behaviours in which no actor takes up a bundle in the tick in
  which it dropped it (`NeverRetaken`), and `AuditTellsOfAnimatedBundles`, which proves that
  hypothesis when the skills that change a bundle are animated: at most one animation of an actor
  ends in a tick (`OneEnds`), and what was dropped in a tick was dropped by its cast (`Droppers`);
* `OrderlyRotationsNeverThrow` and `SwapsPayForTheSet`, under `Tame` and for orderly rotations.
  Neither is inductive: when a cast is looked at, the one before it may still be animating, its
  charge unpaid and its set or bundle unchanged. The invariant (`Good`) says where in the reading
  of the rotation the actor will be once it has ended (`InOrder`, of `Here`); that until its hooks
  have run nothing else changes set or bundle (`OneChanger`); that it still has the charge it was
  begun with (`Charged`), as what else is cast comes from procs that take it from no planned cast
  (`Origins`, `Even`); that a guarded proc waits alone in its queue, off cooldown, while its
  trigger has fired for the tick or its child actor is about to cast (`ProcsWait`); and when a
  swap is on its full cooldown (`SwapsPay`). That the reading is closed under the next cast is
  part of `Orderly`: it is a bounded recursion, whose values are beyond the prover, and TLC
  evaluates it.

**`EffectsProofs`**: one invariant for `TypeCorrect`, `StacksOneAtATime`, `MarkersFollowEffects`
and `ConditionsPayInFull`. It has for the last that `unpaid` is what is left of the duration
since the last payment, which fails if the progress of a tick and the count of the payment ever
disagree; and that a stack's time is up in the tick in which it is marked.
`ApplicationsNeverShorten` is an action property under `WithinLimits`: no application exceeds
`max_duration`, and storage does not run out for unique effects that replace each other.
`AttributesImplementEffects` shows that `Attributes` is a refinement of `Effects`, so that all of
this holds of it; `OneCalculation` is the half of `OneCalculationPerTick` that needs no sums: once
a tick, while no stack of the tick is there yet.

**`SkillExecutionProofs`**: `TypeCorrect`, `EndedCastsHaveDealtEveryHit`, `NoHitOutlastsItsCast`
and `CleanupLeavesTheOthers`, an action property: the cleanup knows only skills and erases for
each the first cast in the list, which is the one that ended because of two casts of a skill the
earlier is never behind (`OlderFirst`, `FirstOnesEnd`), whatever doubles round to and whatever
is cancelled out of the middle. The hits come in time because what the animation has reached the cast has
reached too, unless it counted quickness of an owner (`AnimationBehind`, under `SameQuickness`),
and what its progress has reached is walked (`Walked`).

**`PipelineProofs`**:
* `TypeCorrect`. A child actor's strikes and effects are queued in one stage of a tick and read
  in another, so the invariant says that sources stay alive until the queues are cleared; that
  marked stacks exist; that an "applied" hook is run before the next effect; that no kind has more
  stacks than it may store; and that those down are those whose health is used up;
* `HealthIsAccountedFor`: at every place of a tick the health lost is what is audited and what
  is counted but not yet audited, and nobody is down while the tick runs;
* `ProcsUseOneStack`, from `InStep`: from one hook of casts or strikes to the next, the stack
  that counts is marked if and only if the trigger has fired this tick, and as many procs were
  spawned as stacks are removed or marked. A removal that marked another stack than the
  condition saw, or a trigger's mark that outlived the stack's, would break it;
* `StrikesMarkTheirTargets`, from `OnItsWay`: what a strike applies to whom it hit waits, in turn,
  in a hook of that strike, among the outgoing applications, among the incoming ones for that
  target, and is a stack in the end. The step between the last two is where the code looks for
  targets a second time; `OpponentsHit` shows that these include those of the strike, `AtAll`
  and `UpToMore` that neither condition nor limit leaves one out. The last step needs room for a
  stack or one that is there, and an application of at least one stack;
* `ProcsAtEveryNthHit`, from `Counting`: the hits less n for every proc (`Rest`) are fewer than
  n, and the counter has them, or n more from the strike that made the proc until the next hook
  of the tick. What is delicate is the time in between: the counter is at n or above while more
  strikes of the tick come, and only the trigger's mark holds back a second proc (the mutant
  drops it); and each of the hooks that come before the one of the tick must leave the counter
  alone. The counter's way through the modifiers is an induction along `CountedThrough`.
* `EveryCastIsCarriedOut`, from `Balance`: the casts that are over, running and waiting add up to
  those planned and spawned, in each place of a tick and in the middle of a batch of hooks; from
  `RunDry`: an actor that is out of rotation has none waiting; and from `Fresh`, that no cast
  begins under the name of one that runs. A child actor is thus destroyed when nothing of it is
  left to count. The sums are sizes of sets of numbered casts (`Total`), which a step changes by
  those that begin, those that end or those of the actors it spawns.

The recursive functions of `Pipeline`, `Rotation` and `CombatLoop` exist and keep a type by
`RecursionExists` and `RecursionStays`, or by `InductionUpTo`: induction over the length of a
list, from the library's theorem that a nonempty set of naturals has a least element.

**`ServerHttpProofs`**: `TypeCorrect`, `AnswersInOrder` and `ExitIsFinal`, the half of `ShutsDown`
that is not liveness. The invariant says where each session's requests are: read but not
answered is at most one, while it is handled or its answer is written, and no other thread runs a
handler of it.

*Only model-checked*: of `Attributes` that the order of a pool does not matter, which is about
what folds compute. *Out of the prover's reach*:
liveness under fairness (`Answered`, `EveryTickEnds`, `RotationGoesRound`, `Recharges`,
`EveryRequestServed`, `ShutsDown`), and what recursive definitions, folds of the community modules
included, compute for every input.

## 6. Not modelled

The amounts of damage and the secondary attributes are floating-point formulas of attributes
that `Attributes` has as integers. Set-up builds each module's `Init`. Parsing of builds and
encounters, JSON, logging, the command line and the socket handling of the TCP server (one
connection at a time) are input and output. `src/include/` holds entt, asio, nlohmann/json,
spdlog, fmt and argparse, third-party code that makes up nearly all lines of the repository; of
it the modules have only what the code relies on (views in any order, the handlers of an
`io_context`). Copying a registry (`utils/registry_utils.cpp`) is a copy by value in
`CombatLoop`: that its list of component types is complete is a matter of the build.

Two uses of C++ with undefined behaviour, erasing from a vector in a loop over it
(`system/rotation.cpp:155`) and an `audit_offset` beyond the events (`system/audit.cpp:571`),
are the first a choice in `SkillExecution` and the second outside the requests of
`CombatLoop`.

## 7. Plan

Order of work, most important behaviour first. Done: `MruCache`, `CombatLoop`, `Cooldown`,
`Rotation` with weapon sets, bundles, swaps, conditional groups and carried triggers,
`Effects`, `Attributes`, `SkillExecution`, `Pipeline` with conditions, counters, ownership and
termination, `ServerHttp`, and the proofs of section 5, which cover every invariant and action
property of section 3 but the ones listed there.

Next modules
1. Side effects carried by skills and effects, which follow the skill into each child actor
   (`utils/actor_utils.cpp:93-132`): extends `Pipeline`. Property: a counter that one skill
   carries is modified once a hook however many child actors hold a copy.
2. Extensions: quickness in `Rotation`, skill ticks that cancel in `SkillExecution`,
   ACTIVE_SKILLS in `CombatLoop`, attributes of several actors towards each other.

Properties of these join the runs of the modules they extend; shallower ones give way, so that
the number of runs and properties stays about what it is.

Next theorems
1. With carried side effects: that a hook modifies a counter once, from an invariant like
   `ProcsWait` that ties each copy of a modifier to the actor that carries it.
2. With quickness in `Rotation`: `OrderlyRotationsNeverThrow` again, whose invariant asks of a
   cast time only that it is not zero.
