SPECIFICATION Spec
CONSTANTS
    hero = hero
    ally = ally
    golem = golem
    other = other
    tome = tome
    slash = slash
    justice = justice
    burn = burn
    charge = charge
    mark = mark
    burning = burning
    flare = flare
    hit_count = hit_count
    open = open
    Nobody = Nobody
    Skills = {tome, slash, justice, burn, flare}
    Kinds = {charge, mark, burning}
    Counters = {hit_count, open}
    view_order <- ViewOrder
    team <- Teams
    max_health <- Health
    rotation <- Rotations
    num_strikes <- NumStrikes
    num_pulses <- NumPulses
    num_targets <- NumTargets
    damage <- Damage
    can_critical_strike = {justice}
    on_strike_effect_applications <- OnStrikeApplications
    on_pulse_effect_applications <- OnPulseApplications
    unhooked = {}
    max_stored_stacks <- Stored
    extended = {}
    damaging = {burning}
    lasting = {charge, mark}
    initial_value <- Zero
    counter_modifiers <- Modifiers
    effect_removals <- Removals
    skill_triggers <- Chained
    unchained_skill_triggers <- Unchained
    encounters <- Encounters
    MaxEffects = 5
    MaxChildren = 4
INVARIANTS TypeOK HealthAccountedFor HitsAreMarked EveryNthHit OneStackPerProc CastsAreCarriedOut
CHECK_DEADLOCK FALSE
