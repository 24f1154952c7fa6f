SPECIFICATION Spec
CONSTANTS
    volley = volley
    field = field
    halt = halt
    shot = shot
    NoCast = NoCast
    Kinds = {"strike", "pulse", "whirl"}
    Skills = {shot}
    MaxCasts = 1
    cast_duration <- ShotDuration
    on_tick_list <- ShotLists
    skill_ticks <- ShotTicks
    skills_to_cancel <- NoCancels
INVARIANTS QuicknessTicks
