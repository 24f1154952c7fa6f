SPECIFICATION Spec
CONSTANTS
    shot = shot
    flip = flip
    swap = swap
    NoSkill = NoSkill
    Skills = {shot, flip, swap}
    max_ammo <- ShotCharges
    cooldown <- ShortCooldowns
    group <- Alone
    also_put <- NoPuts
    tick_puts = {flip}
    child_skills = {}
    instant = {flip, swap}
    cooldown_modifiers <- NoModifiers
    require_afk_skills = FALSE
    MaxShift = 1
INVARIANTS OutOfAmmoIsOnCooldown
CHECK_DEADLOCK FALSE
