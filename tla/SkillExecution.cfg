SPECIFICATION Spec
CONSTANTS
    volley = volley
    field = field
    halt = halt
    shot = shot
    NoCast = NoCast
    Kinds = {"strike", "pulse", "whirl"}
    Skills = {volley, field, halt}
    MaxCasts = 3
    cast_duration <- CastDurations
    on_tick_list <- Lists
    skill_ticks <- SkillTicks
    skills_to_cancel <- Cancels
INVARIANTS TypeOK EveryHitDealt HitsLandWithinTheCast
PROPERTIES FinishedCastsLeave
