SPECIFICATION AttributesSpec
CONSTANTS
    BURNING = BURNING
    QUICKNESS = QUICKNESS
    BINDING_BLADE = BINDING_BLADE
    combo = combo
    trait = trait
    Always = Always
    Effects = {BURNING, QUICKNESS, BINDING_BLADE}
    UniqueEffects = {combo}
    stacking_type <- StackingTypes
    max_duration <- MaxDurations
    max_stored_stacks <- MaxStored
    refreshes_other_stacks = {combo}
    damaging = {BURNING, BINDING_BLADE}
    marking = {QUICKNESS}
    removable = {BURNING, combo}
    Durations = {1, 3}
    interval = 2
    MaxEntities = 3
    Attribute = {"power", "ferocity", "condition_damage"}
    static_attributes <- Static
    traits = {trait}
    attribute_modifiers <- Modifiers
    attribute_conversions <- Conversions
    max_considered_stacks <- MaxConsidered
INVARIANTS TypeOK OneAtATime MarkedWhileItLasts
PROPERTIES PaidInFull NeverShortened OneCalculationPerTick
