SPECIFICATION FairSpec
CONSTANTS
    shot = shot
    flip = flip
    swap = swap
    NoSkill = NoSkill
    Skills = {shot, flip, swap}
    max_ammo <- ShotCharges
    cooldown <- LongCooldowns
    group <- Grouped
    also_put <- SwapPutsShot
    tick_puts = {flip}
    child_skills = {flip}
    instant = {flip, swap}
    cooldown_modifiers <- FlipModifiers
    require_afk_skills = TRUE
    MaxShift = 1
INVARIANTS TypeOK ChargesMatchCooldown NeverLate ReportedCooldowns
PROPERTIES NeverEarly Recharges
CHECK_DEADLOCK FALSE
