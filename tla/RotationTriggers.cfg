SPECIFICATION FairSpec
CONSTANTS
    slash = slash
    dash = dash
    proc = proc
    counter = counter
    flip = flip
    parry = parry
    chop = chop
    attack = attack
    kit = kit
    shot = shot
    swap = swap
    stow = stow
    pack = pack
    Nothing = Nothing
    Nobody = Nobody
    Skills = {slash, dash, proc, counter, flip, parry, chop, kit, shot, swap, stow, pack}
    WeaponSwap = swap
    Groups = {attack}
    conditional_skill_keys <- GroupOf
    Bundles = {"kit"}
    equip_bundle <- EquipBundle
    drop_bundle <- DropBundle
    required_bundle <- RequiredBundle
    weapon_sets <- WeaponSets
    Rotations <- MCRotations
    repeat = TRUE
    cast_duration <- CastDurations
    active_ticks <- ActiveTicks
    cooldown <- Cooldowns
    strikes = {slash, proc}
    child_skill_keys <- ChildSkills
    skill_triggers <- Chained
    unchained_skill_triggers <- Unchained
    source_actor_skill_triggers <- SourceActor
    carried <- Carried
    MaxChildren = 9
INVARIANTS TypeOK NothingLeftUndone CastsFindWhatTheyNeed SwapsArePaidFor AuditTellsTheBundle
PROPERTIES EveryTickEnds RotationGoesRound
CHECK_DEADLOCK FALSE
