---------------------------- MODULE CooldownProofs ----------------------------
(***************************************************************************)
(* Cooldown keeps its types and ChargesMatchCooldown for every set of      *)
(* skills, charges, cooldowns, groups, forced puts and modifiers; its      *)
(* truncated percentages end no cooldown early or more than a hundredth    *)
(* late, and the reports tell what is left of it.                          *)
(***************************************************************************)
EXTENDS Cooldown, FiniteSetTheorems, WellFoundedInduction, TLAPS

(***************************************************************************)
(* What makes ChargesMatchCooldown inductive: an expired mark belongs to a *)
(* component and does not survive the tick, so a cast never meets one.     *)
(***************************************************************************)
MarksOfThisTick ==
    /\ cooldown_expired \subseteq cooldown_component
    /\ phase \in {"rotations", "cooldowns"} => cooldown_expired = {}

Inv == TypeOK /\ ChargesMatchCooldown /\ MarksOfThisTick

-----------------------------------------------------------------------------
(* put_skill_on_cooldown *)

LEMMA OccurrencesNat ==
    ASSUME NEW seq, NEW n \in Nat, NEW s
    PROVE  Occurrences(seq, n, s) \in Nat
<1>1. IsFiniteSet(1..n)
    BY FS_Interval
<1>2. IsFiniteSet({i \in 1..n : seq[i] = s})
    BY <1>1, FS_Subset
<1> QED
    BY <1>2, FS_CardinalityType DEF Occurrences

LEMMA CallsNat ==
    ASSUME NEW s \in Skills, NEW t
    PROVE  Calls(s, t, Len(group[s])) \in Nat
<1>1. Len(group[s]) \in Nat /\ Len(also_put[s]) \in Nat
    BY GroupsAndPuts
<1>2. /\ Occurrences(group[s], Len(group[s]), t) \in Nat
      /\ Occurrences(also_put[s], Len(also_put[s]), t) \in Nat
    BY <1>1, OccurrencesNat
<1>3. ASSUME NEW a \in Nat, NEW b \in Nat, NEW c \in Nat PROVE a + b * c \in Nat
    OBVIOUS
<1> QED
    BY <1>1, <1>2, <1>3 DEF Calls

(***************************************************************************)
(* Taking charges keeps the types, and keeps a skill coupled when it is    *)
(* not called or its cooldown is not about to be removed.                  *)
(***************************************************************************)
LEMMA TakeKeeps ==
    ASSUME TypeOK, ChargesMatchCooldown,
           NEW calls \in [Skills -> Nat], Take(calls),
           UNCHANGED cooldown_expired,
           \A s \in cooldown_expired : s \in tick_puts \/ calls[s] = 0
    PROVE  /\ current_ammo' \in [Skills -> Nat]
           /\ \A s \in Skills : current_ammo'[s] <= max_ammo[s]
           /\ cooldown_component \subseteq cooldown_component'
           /\ cooldown_component' \subseteq Skills
           /\ progress' \in [Skills -> [Index -> Int]]
           /\ ChargesMatchCooldown'
<1> DEFINE n(t) == IF HasCooldown(t) THEN calls[t] ELSE 0
<1>1. \A t \in Skills : n(t) \in Nat
    OBVIOUS
<1>2. /\ current_ammo' = [t \in Skills |-> Taken(current_ammo[t], n(t))]
      /\ cooldown_component' = cooldown_component \cup {t \in Skills : n(t) > 0}
      /\ progress' = [t \in Skills |->
             IF n(t) > 0 /\ t \notin cooldown_component THEN NotStarted ELSE progress[t]]
    BY DEF Take
<1>3. \A s \in cooldown_expired : s \in tick_puts \/ n(s) = 0
    OBVIOUS
<1> HIDE DEF n
<1>4. \A t \in Skills :
          /\ current_ammo[t] \in Nat /\ current_ammo[t] <= max_ammo[t]
          /\ max_ammo[t] \in Nat /\ max_ammo[t] > 0
    BY ChargesPositive DEF TypeOK
<1>5. \A t \in Skills :
          /\ current_ammo'[t] \in Nat
          /\ current_ammo'[t] <= current_ammo[t]
          /\ n(t) = 0 => current_ammo'[t] = current_ammo[t]
          /\ n(t) > 0 => current_ammo'[t] < max_ammo[t]
    BY <1>1, <1>2, <1>4 DEF Taken
<1>6. current_ammo' \in [Skills -> Nat]
    BY <1>2, <1>5
<1>7. \A s \in Skills : current_ammo'[s] <= max_ammo[s]
    BY <1>4, <1>5
<1>8. cooldown_component' \subseteq Skills /\ cooldown_component \subseteq cooldown_component'
    BY <1>2 DEF TypeOK
<1>9. progress' \in [Skills -> [Index -> Int]]
    BY <1>2 DEF TypeOK, NotStarted
<1>10. ASSUME NEW s \in Skills, s \in Running'
       PROVE  current_ammo'[s] < max_ammo[s]
    <2>1. CASE n(s) > 0
        BY <2>1, <1>5
    <2>2. CASE n(s) = 0
        <3>1. s \in Running
            BY <2>2, <1>2, <1>10 DEF Running
        <3>2. current_ammo[s] < max_ammo[s]
            BY <3>1 DEF ChargesMatchCooldown
        <3> QED
            BY <3>2, <2>2, <1>5
    <2> QED
        BY <2>1, <2>2, <1>1
<1>11. ASSUME NEW s \in Skills, s \notin tick_puts, current_ammo'[s] < max_ammo[s]
       PROVE  s \in Running'
    <2>1. CASE current_ammo[s] < max_ammo[s]
        BY <2>1, <1>11, <1>8 DEF ChargesMatchCooldown, Running
    <2>2. CASE current_ammo[s] = max_ammo[s]
        <3>1. n(s) > 0
            BY <2>2, <1>1, <1>5, <1>11
        <3>2. s \notin cooldown_expired
            BY <3>1, <1>3, <1>11
        <3> QED
            BY <3>1, <3>2, <1>2 DEF Running
    <2> QED
        BY <2>1, <2>2, <1>4
<1> QED
    BY <1>6, <1>7, <1>8, <1>9, <1>10, <1>11 DEF ChargesMatchCooldown

LEMMA PutForActorKeeps ==
    ASSUME Inv, NEW s \in Skills, PutForActor(s), phase = "rotations",
           UNCHANGED <<phase, cooldown_expired>>
    PROVE  /\ current_ammo' \in [Skills -> Nat]
           /\ \A t \in Skills : current_ammo'[t] <= max_ammo[t]
           /\ cooldown_component' \subseteq Skills
           /\ progress' \in [Skills -> [Index -> Int]]
           /\ failed' \in BOOLEAN
           /\ ChargesMatchCooldown'
           /\ MarksOfThisTick'
<1>1. cooldown_expired = {}
    BY DEF Inv, MarksOfThisTick
<1>2. MarksOfThisTick'
    BY <1>1 DEF MarksOfThisTick
<1>3. CASE UNCHANGED charges /\ failed' = TRUE
    BY <1>2, <1>3 DEF Inv, TypeOK, ChargesMatchCooldown, Running, charges
<1>4. CASE Take([t \in Skills |-> Calls(s, t, Len(group[s]))]) /\ UNCHANGED failed
    <2> DEFINE calls == [t \in Skills |-> Calls(s, t, Len(group[s]))]
    <2>1. calls \in [Skills -> Nat]
        BY CallsNat
    <2>2. Take(calls)
        BY <1>4
    <2> HIDE DEF calls
    <2>3. TypeOK /\ ChargesMatchCooldown
        BY DEF Inv
    <2>4. failed' \in BOOLEAN
        BY <1>4 DEF Inv, TypeOK
    <2> QED
        BY <1>1, <1>2, <2>1, <2>2, <2>3, <2>4, TakeKeeps
<1> QED
    BY <1>3, <1>4 DEF PutForActor

-----------------------------------------------------------------------------
(* One lemma per operation *)

LEMMA InitInv == ASSUME Init PROVE Inv
<1>1. \A s \in Skills : max_ammo[s] \in Nat
    BY ChargesPositive
<1>2. TypeOK
    <2>1. current_ammo \in [Skills -> Nat] /\ \A s \in Skills : current_ammo[s] <= max_ammo[s]
        BY <1>1, ChargesPositive DEF Init
    <2>2. progress \in [Skills -> [Index -> Int]]
        BY DEF Init, NotStarted
    <2> QED
        BY <2>1, <2>2 DEF Init, TypeOK, Phases
<1> QED
    BY <1>1, <1>2 DEF Init, Inv, ChargesMatchCooldown, Running, MarksOfThisTick

LEMMA CastInv ==
    ASSUME Inv, NEW s \in Skills,
           StartCast(s) \/ InstantCast(s) \/ EarlyCast(s) \/ ChildCast(s)
    PROVE  Inv'
<1>1. CASE StartCast(s)
    BY <1>1 DEF StartCast, In, charges, marks, Inv, TypeOK, ChargesMatchCooldown, Running,
        MarksOfThisTick
<1>2. CASE EarlyCast(s)
    BY <1>2 DEF EarlyCast, In, charges, marks, cast, Inv, TypeOK, ChargesMatchCooldown,
        Running, MarksOfThisTick
<1>3. CASE InstantCast(s) \/ ChildCast(s)
    <2>1. /\ phase = "rotations" /\ PutForActor(s)
          /\ UNCHANGED <<phase, marks, has_alacrity, cast>>
        BY <1>3 DEF InstantCast, ChildCast, In
    <2>2. UNCHANGED <<phase, cooldown_expired>>
        BY <2>1 DEF marks
    <2>3. TypeOK' /\ ChargesMatchCooldown' /\ MarksOfThisTick'
        BY <2>1, <2>2, PutForActorKeeps DEF marks, cast, Inv, TypeOK
    <2> QED
        BY <2>3 DEF Inv
<1> QED
    BY <1>1, <1>2, <1>3

LEMMA FinishAnimationInv == ASSUME Inv, FinishAnimation PROVE Inv'
<1>1. /\ phase = "rotations" /\ animation \in Skills /\ PutForActor(animation)
      /\ animation_expired' = TRUE
      /\ UNCHANGED <<phase, marks, has_alacrity, animation>>
    BY DEF FinishAnimation, In, Inv, TypeOK
<1>2. UNCHANGED <<phase, cooldown_expired>>
    BY <1>1 DEF marks
<1>3. TypeOK' /\ ChargesMatchCooldown' /\ MarksOfThisTick'
    BY <1>1, <1>2, PutForActorKeeps DEF marks, Inv, TypeOK
<1> QED
    BY <1>3 DEF Inv

LEMMA SkillTickPutInv == ASSUME Inv, NEW s \in Skills, SkillTickPut(s) PROVE Inv'
<1> DEFINE calls == [t \in Skills |-> IF t = s THEN 1 ELSE 0]
<1>1. /\ phase = "skills" /\ s \in tick_puts /\ Take(calls)
      /\ UNCHANGED <<phase, marks, has_alacrity, cast, failed>>
    BY DEF SkillTickPut, In
<1>2. calls \in [Skills -> Nat]
    OBVIOUS
<1>3. \A t \in Skills : t \in tick_puts \/ calls[t] = 0
    BY <1>1
<1> HIDE DEF calls
<1>4. TypeOK /\ ChargesMatchCooldown /\ cooldown_expired \subseteq Skills
    BY DEF Inv, TypeOK
<1>5. UNCHANGED cooldown_expired
    BY <1>1 DEF marks
<1>6. /\ current_ammo' \in [Skills -> Nat]
      /\ \A t \in Skills : current_ammo'[t] <= max_ammo[t]
      /\ cooldown_component \subseteq cooldown_component'
      /\ cooldown_component' \subseteq Skills
      /\ progress' \in [Skills -> [Index -> Int]]
      /\ ChargesMatchCooldown'
    BY <1>1, <1>2, <1>3, <1>4, <1>5, TakeKeeps
<1>7. TypeOK'
    BY <1>1, <1>6 DEF marks, cast, Inv, TypeOK
<1>8. MarksOfThisTick'
    BY <1>1, <1>5, <1>6 DEF Inv, MarksOfThisTick
<1> QED
    BY <1>6, <1>7, <1>8 DEF Inv

(***************************************************************************)
(* A charge comes back only to a skill whose cooldown runs, which misses   *)
(* one; and the cooldown expires exactly when none is missing any more.    *)
(***************************************************************************)
LEMMA ProgressInv == ASSUME Inv, progress_cooldowns PROVE Inv'
<1>1. /\ cooldown_expired = {} /\ Running = cooldown_component /\ Running' = cooldown_component \ cooldown_expired'
    BY DEF progress_cooldowns, In, Inv, MarksOfThisTick, Running
<1>2. Recharged \subseteq cooldown_component /\ cooldown_component \subseteq Skills
    BY DEF Recharged, Inv, TypeOK
<1>3. \A s \in Skills :
          /\ current_ammo[s] \in Nat /\ max_ammo[s] \in Nat
          /\ current_ammo[s] <= max_ammo[s]
          /\ s \in Recharged => current_ammo[s] < max_ammo[s]
    BY <1>1, <1>2, ChargesPositive DEF Inv, TypeOK, ChargesMatchCooldown
<1>4. /\ current_ammo' = [s \in Skills |->
             IF s \in Recharged THEN current_ammo[s] + 1 ELSE current_ammo[s]]
      /\ cooldown_expired' = {s \in Recharged : current_ammo[s] + 1 = max_ammo[s]}
      /\ ammo_gained' = Recharged
      /\ phase' = "skills"
      /\ UNCHANGED <<cooldown_component, has_alacrity, cast, failed>>
    BY DEF progress_cooldowns
<1>5. \A s \in Skills : Advanced(s) \in [Index -> Int]
    BY DEF Advanced, Inv, TypeOK, Index
<1>6. progress' \in [Skills -> [Index -> Int]]
    BY <1>5 DEF progress_cooldowns, NotStarted, Inv, TypeOK
<1>7. current_ammo' \in [Skills -> Nat] /\ \A s \in Skills : current_ammo'[s] <= max_ammo[s]
    BY <1>3, <1>4
<1>8. TypeOK'
    BY <1>2, <1>4, <1>6, <1>7 DEF Inv, TypeOK, Phases, cast
<1>9. ASSUME NEW s \in Skills
      PROVE  /\ s \in Running' => current_ammo'[s] < max_ammo[s]
             /\ s \notin tick_puts /\ current_ammo'[s] < max_ammo[s] => s \in Running'
    <2>1. s \in cooldown_component => current_ammo[s] < max_ammo[s]
        BY <1>1 DEF Inv, ChargesMatchCooldown
    <2>2. s \notin tick_puts /\ current_ammo[s] < max_ammo[s] => s \in cooldown_component
        BY <1>1 DEF Inv, ChargesMatchCooldown
    <2> QED
        BY <2>1, <2>2, <1>1, <1>2, <1>3, <1>4
<1>10. ChargesMatchCooldown'
    BY <1>9 DEF ChargesMatchCooldown
<1>11. MarksOfThisTick'
    BY <1>2, <1>4 DEF MarksOfThisTick
<1> QED
    BY <1>8, <1>10, <1>11 DEF Inv

LEMMA ModifyInv ==
    ASSUME Inv, NEW m \in cooldown_modifiers, apply_cooldown_modifications(m)
    PROVE  Inv'
<1> DEFINE s == m.skill_key
<1>1. /\ s \in Skills /\ m.value \in Int /\ m.operation \in {"ADD", "SUBTRACT", "SET", "RESET"}
    BY ModifiersWellFormed
<1>2. progress[s] \in [Index -> Int] /\ cooldown[s][0] \in Int
    BY <1>1, CooldownsBoth DEF Inv, TypeOK, Index
<1>3. Modified(s, m) \in [Index -> Int]
    <2>1. CASE m.operation = "ADD" \/ m.operation = "SUBTRACT"
        BY <2>1, <1>1, <1>2 DEF Modified, Index
    <2>2. CASE m.operation = "SET" \/ m.operation = "RESET"
        BY <2>2, <1>1, <1>2 DEF Modified, Index
    <2> QED
        BY <2>1, <2>2, <1>1
<1>4. progress' \in [Skills -> [Index -> Int]]
    BY <1>3 DEF apply_cooldown_modifications, Inv, TypeOK
<1>5. UNCHANGED <<phase, current_ammo, cooldown_component, marks, has_alacrity, cast, failed>>
    BY DEF apply_cooldown_modifications
<1> QED
    BY <1>4, <1>5 DEF marks, cast, Inv, TypeOK, ChargesMatchCooldown, Running, MarksOfThisTick

LEMMA CleanupInv == ASSUME Inv, cleanup_expired_components PROVE Inv'
<1>1. /\ phase' = "rotations" /\ cooldown_expired' = {} /\ ammo_gained' = {}
      /\ cooldown_component' = cooldown_component \ cooldown_expired
      /\ animation' \in {animation, NoSkill} /\ animation_expired' = FALSE
      /\ has_alacrity' \in {has_alacrity, FALSE}
      /\ UNCHANGED <<current_ammo, failed>>
    BY DEF cleanup_expired_components
<1>2. progress' \in [Skills -> [Index -> Int]]
    BY DEF cleanup_expired_components, NotStarted, Inv, TypeOK
<1>3. TypeOK'
    BY <1>1, <1>2 DEF Inv, TypeOK, Phases
<1>4. Running' = Running
    BY <1>1 DEF Running
<1>5. ChargesMatchCooldown'
    BY <1>1, <1>4 DEF Inv, ChargesMatchCooldown
<1> QED
    BY <1>1, <1>3, <1>5 DEF Inv, MarksOfThisTick

LEMMA OtherInv ==
    ASSUME Inv, EndRotations \/ EndSkills \/ GainAlacrity \/ EndHooks \/ UNCHANGED vars
    PROVE  Inv'
<1>1. /\ UNCHANGED <<charges, marks, cast, failed>>
      /\ has_alacrity' \in BOOLEAN
      /\ \/ phase' = phase
         \/ phase = "rotations" /\ phase' = "cooldowns"
         \/ phase' \in {"hooks", "cleanup"}
    BY DEF EndRotations, EndSkills, GainAlacrity, EndHooks, In, vars, Inv, TypeOK
<1> QED
    BY <1>1 DEF charges, marks, cast, Inv, TypeOK, Phases, ChargesMatchCooldown, Running,
        MarksOfThisTick

-----------------------------------------------------------------------------
(* The theorems *)

\* The inductive invariant of every behaviour.
THEOREM InvHolds == Spec => []Inv
<1>1. Init => Inv
    BY InitInv
<1>2. Inv /\ [Next]_vars => Inv'
    <2> SUFFICES ASSUME Inv, [Next]_vars PROVE Inv'
        OBVIOUS
    <2>1. ASSUME NEW s \in Skills, StartCast(s) \/ InstantCast(s) \/ EarlyCast(s) \/ ChildCast(s)
          PROVE  Inv'
        BY <2>1, CastInv
    <2>2. ASSUME NEW s \in Skills, SkillTickPut(s) PROVE Inv'
        BY <2>2, SkillTickPutInv
    <2>3. CASE FinishAnimation
        BY <2>3, FinishAnimationInv
    <2>4. ASSUME NEW m \in cooldown_modifiers, apply_cooldown_modifications(m) PROVE Inv'
        BY <2>4, ModifyInv
    <2>5. CASE progress_cooldowns
        BY <2>5, ProgressInv
    <2>6. CASE cleanup_expired_components
        BY <2>6, CleanupInv
    <2>7. CASE EndRotations \/ EndSkills \/ GainAlacrity \/ EndHooks \/ UNCHANGED vars
        BY <2>7, OtherInv
    <2> QED
        BY <2>1, <2>2, <2>3, <2>4, <2>5, <2>6, <2>7 DEF Next, EndOfPhase
<1> QED
    BY <1>1, <1>2, PTL DEF Spec

\* No skill ever has a negative number of charges, more than max_ammo of them, or a
\* component of another actor's skill.
THEOREM TypeCorrect == Spec => []TypeOK
<1>1. Inv => TypeOK
    BY DEF Inv
<1> QED
    BY <1>1, InvHolds, PTL

\* A cooldown runs exactly while a charge is missing, except that a skill tick may leave a
\* charge missing without a cooldown.
THEOREM ChargesAlwaysMatchCooldown == Spec => []ChargesMatchCooldown
<1>1. Inv => ChargesMatchCooldown
    BY DEF Inv
<1> QED
    BY <1>1, InvHolds, PTL

-----------------------------------------------------------------------------
(* Truncated percentages never end a cooldown early *)

LEMMA DivTimes ==
    ASSUME NEW a \in Int, NEW d \in Nat, d > 0
    PROVE  a \div d \in Int /\ (a \div d) * d <= a
OBVIOUS

LEMMA TimesMonotone ==
    ASSUME NEW x \in Int, NEW y \in Int, NEW c \in Nat, x <= y
    PROVE  x * c <= y * c
<1>1. (y - x) * c >= 0
    OBVIOUS
<1> QED
    BY <1>1

\* a and b percent, at most p0 / d0 and p1 / d1: a hundred of them make a whole.
LEMMA HundredPercentIsWhole ==
    ASSUME NEW p0 \in Nat, NEW p1 \in Nat, NEW d0 \in Nat, NEW d1 \in Nat,
           NEW a \in Int, NEW b \in Int,
           a * d0 <= p0 * 100, b * d1 <= p1 * 100, a + b >= 100
    PROVE  p0 * d1 + p1 * d0 >= d0 * d1
<1>1. a * d0 * d1 <= p0 * 100 * d1
    BY TimesMonotone
<1>2. b * d1 * d0 <= p1 * 100 * d0
    BY TimesMonotone
<1>3. d0 * d1 \in Nat
    OBVIOUS
<1>4. 100 * (d0 * d1) <= (a + b) * (d0 * d1)
    BY <1>3, TimesMonotone
<1>5. (a + b) * (d0 * d1) = a * d0 * d1 + b * d1 * d0
    OBVIOUS
<1>6. 100 * (d0 * d1) <= 100 * (p0 * d1 + p1 * d0)
    BY <1>1, <1>2, <1>4, <1>5
<1> QED
    BY <1>3, <1>6

\* Only the progress without alacrity is ever moved below zero.
AlacrityProgressNatural == \A s \in Skills : progress[s][1] >= 0

CoolingHasDuration == \A s \in cooldown_component : cooldown[s][0] > 0

Ranges == AlacrityProgressNatural /\ CoolingHasDuration

LEMMA TakeRanges ==
    ASSUME Ranges, TypeOK, NEW calls \in [Skills -> Nat], Take(calls)
    PROVE  Ranges'
<1>1. \A s \in Skills : progress'[s] \in {progress[s], NotStarted}
    BY DEF Take
<1>2. NotStarted[1] = 0
    BY DEF NotStarted, Index
<1>3. AlacrityProgressNatural'
    BY <1>1, <1>2 DEF Ranges, AlacrityProgressNatural
<1>4. ASSUME NEW s \in cooldown_component' PROVE cooldown[s][0] > 0
    <2>1. s \in cooldown_component \/ HasCooldown(s)
        BY <1>4 DEF Take
    <2> QED
        BY <2>1 DEF HasCooldown, Ranges, CoolingHasDuration
<1> QED
    BY <1>3, <1>4 DEF Ranges, CoolingHasDuration

LEMMA PutForActorRanges ==
    ASSUME Ranges, TypeOK, NEW s \in Skills, PutForActor(s)
    PROVE  Ranges'
<1>1. CASE UNCHANGED charges
    BY <1>1 DEF charges, Ranges, AlacrityProgressNatural, CoolingHasDuration
<1>2. CASE Take([t \in Skills |-> Calls(s, t, Len(group[s]))])
    <2>1. [t \in Skills |-> Calls(s, t, Len(group[s]))] \in [Skills -> Nat]
        BY CallsNat
    <2> QED
        BY <2>1, <1>2, TakeRanges
<1> QED
    BY <1>1, <1>2 DEF PutForActor

LEMMA RangesStep ==
    ASSUME Inv, Ranges, [Next]_vars
    PROVE  Ranges'
<1> USE DEF Ranges
<1>1. TypeOK
    BY DEF Inv
<1>2. ASSUME NEW s \in Skills, InstantCast(s) \/ ChildCast(s)
      PROVE  Ranges'
    BY <1>1, <1>2, PutForActorRanges DEF InstantCast, ChildCast
<1>3. CASE FinishAnimation
    BY <1>1, <1>3, PutForActorRanges DEF FinishAnimation, TypeOK
<1>4. ASSUME NEW s \in Skills, SkillTickPut(s) PROVE Ranges'
    <2>1. [t \in Skills |-> IF t = s THEN 1 ELSE 0] \in [Skills -> Nat]
        OBVIOUS
    <2> QED
        BY <2>1, <1>1, <1>4, TakeRanges DEF SkillTickPut
<1>5. CASE progress_cooldowns
    <2>1. \A s \in Skills : Advanced(s)[1] >= progress[s][1]
        BY <1>1 DEF Advanced, TypeOK, Index
    <2>2. \A s \in Skills : progress'[s] \in {progress[s], Advanced(s), NotStarted}
        BY <1>5 DEF progress_cooldowns
    <2>3. \A s \in Skills : progress'[s][1] >= 0
        BY <2>1, <2>2, <1>1 DEF NotStarted, Index, TypeOK, AlacrityProgressNatural, Advanced
    <2> QED
        BY <2>3, <1>5 DEF progress_cooldowns, AlacrityProgressNatural, CoolingHasDuration
<1>6. ASSUME NEW m \in cooldown_modifiers, apply_cooldown_modifications(m)
      PROVE  Ranges'
    <2> DEFINE s == m.skill_key
    <2>1. s \in Skills /\ m.operation \in {"ADD", "SUBTRACT", "SET", "RESET"}
        BY ModifiersWellFormed
    <2>2. Modified(s, m)[1] \in {progress[s][1], 0}
        <3>1. progress[s] \in [Index -> Int]
            BY <2>1, <1>1 DEF TypeOK
        <3>2. CASE m.operation = "ADD" \/ m.operation = "SUBTRACT"
            BY <3>1, <3>2 DEF Modified, Index
        <3>3. CASE m.operation = "SET" \/ m.operation = "RESET"
            BY <3>3 DEF Modified, Index
        <3> QED
            BY <2>1, <3>2, <3>3
    <2>3. progress' = [progress EXCEPT ![s] = Modified(s, m)] /\ UNCHANGED cooldown_component
        BY <1>6 DEF apply_cooldown_modifications
    <2>4. \A t \in Skills : progress'[t][1] \in {progress[t][1], 0}
        BY <2>1, <2>2, <2>3, <1>1 DEF TypeOK
    <2> QED
        BY <2>3, <2>4 DEF AlacrityProgressNatural, CoolingHasDuration
<1>7. CASE cleanup_expired_components
    <2>1. \A s \in Skills : progress'[s] \in {progress[s], NotStarted}
        BY <1>7 DEF cleanup_expired_components
    <2>2. NotStarted[1] = 0
        BY DEF NotStarted, Index
    <2> QED
        BY <2>1, <2>2, <1>7 DEF cleanup_expired_components, AlacrityProgressNatural,
            CoolingHasDuration
<1>8. CASE UNCHANGED charges
    BY <1>8 DEF charges, AlacrityProgressNatural, CoolingHasDuration
<1>9. ASSUME NEW s \in Skills, StartCast(s) \/ EarlyCast(s) PROVE UNCHANGED charges
    BY <1>9 DEF StartCast, EarlyCast
<1>10. EndRotations \/ EndSkills \/ GainAlacrity \/ EndHooks \/ UNCHANGED vars
       => UNCHANGED charges
    BY DEF EndRotations, EndSkills, GainAlacrity, EndHooks, vars
<1> HIDE DEF Ranges
<1> QED
    BY <1>2, <1>3, <1>4, <1>5, <1>6, <1>7, <1>8, <1>9, <1>10 DEF Next, EndOfPhase

\* What Percent gives for both progresses, read back as a bound on each.
LEMMA PercentBound ==
    ASSUME NEW p \in Nat, NEW d \in Nat, d > 0
    PROVE  /\ (p * 100) \div d \in Int
           /\ ((p * 100) \div d) * d <= p * 100
<1>1. p * 100 \in Int
    OBVIOUS
<1> QED
    BY <1>1, DivTimes

LEMMA PercentsMakeAWhole ==
    ASSUME NEW p0 \in Nat, NEW p1 \in Nat, NEW d0 \in Nat, NEW d1 \in Nat, d0 > 0, d1 > 0,
           ((p0 * 100) \div d0) + ((p1 * 100) \div d1) >= 100
    PROVE  p0 * d1 + p1 * d0 >= d0 * d1
<1> DEFINE a == (p0 * 100) \div d0
           b == (p1 * 100) \div d1
<1>1. a \in Int /\ a * d0 <= p0 * 100
    BY PercentBound
<1>2. b \in Int /\ b * d1 <= p1 * 100
    BY PercentBound
<1>3. a + b >= 100
    OBVIOUS
<1> HIDE DEF a, b
<1> QED
    BY <1>1, <1>2, <1>3, HundredPercentIsWhole

LEMMA RechargedIsWhole ==
    ASSUME Inv, Ranges, NEW s \in Recharged, progress[s][0] >= 0
    PROVE  Fraction(s, Advanced(s)) >= Whole(s)
<1> DEFINE p0 == Advanced(s)[0]
           p1 == Advanced(s)[1]
           d0 == cooldown[s][0]
           d1 == cooldown[s][1]
<1>1. s \in Skills /\ s \in cooldown_component
    BY DEF Recharged, Inv, TypeOK
<1>2. progress[s] \in [Index -> Int] /\ progress[s][1] >= 0
    BY <1>1 DEF Inv, TypeOK, Ranges, AlacrityProgressNatural
<1>3. p0 \in Nat /\ p1 \in Nat
    BY <1>2 DEF Advanced, Index
<1>4. d0 \in Nat /\ d1 \in Nat /\ d0 > 0 /\ d1 > 0
    BY <1>1, CooldownsBoth DEF Index, Ranges, CoolingHasDuration
<1>5. p0 * 100 >= 0 /\ p1 * 100 >= 0
    BY <1>3
<1>6. ((p0 * 100) \div d0) + ((p1 * 100) \div d1) >= 100
    BY <1>5 DEF Recharged, Percent, Truncated
<1> HIDE DEF p0, p1, d0, d1
<1>7. p0 * d1 + p1 * d0 >= d0 * d1
    BY <1>3, <1>4, <1>6, PercentsMakeAWhole
<1> QED
    BY <1>7 DEF Fraction, Whole, p0, p1, d0, d1

\* Only progress_cooldowns gives charges back, to recharged skills.
LEMMA OnlyProgressGives ==
    ASSUME Inv, [Next]_vars, NEW s \in Skills, current_ammo'[s] > current_ammo[s]
    PROVE  s \in Recharged
<1>1. current_ammo[s] \in Nat
    BY DEF Inv, TypeOK
<1>2. ASSUME NEW calls \in [Skills -> Nat], Take(calls) PROVE FALSE
    <2> DEFINE n == IF HasCooldown(s) THEN calls[s] ELSE 0
    <2>1. n \in Nat /\ current_ammo'[s] = Taken(current_ammo[s], n)
        BY <1>2 DEF Take
    <2> HIDE DEF n
    <2> QED
        BY <1>1, <2>1 DEF Taken
<1>3. ASSUME NEW t \in Skills, PutForActor(t) PROVE FALSE
    <2>1. [u \in Skills |-> Calls(t, u, Len(group[t]))] \in [Skills -> Nat]
        BY <1>3, CallsNat
    <2>2. CASE UNCHANGED charges
        BY <2>2, <1>1 DEF charges
    <2> QED
        BY <2>1, <2>2, <1>2, <1>3 DEF PutForActor
<1>4. ASSUME NEW t \in Skills, SkillTickPut(t) PROVE FALSE
    <2>1. [u \in Skills |-> IF u = t THEN 1 ELSE 0] \in [Skills -> Nat]
        OBVIOUS
    <2> QED
        BY <2>1, <1>2, <1>4 DEF SkillTickPut
<1>5. CASE progress_cooldowns
    BY <1>1, <1>5 DEF progress_cooldowns
<1>6. ~UNCHANGED current_ammo
    BY <1>1
<1>7. ASSUME NEW t \in Skills, StartCast(t) \/ InstantCast(t) \/ EarlyCast(t) \/ ChildCast(t)
      PROVE  FALSE
    BY <1>3, <1>6, <1>7 DEF StartCast, InstantCast, EarlyCast, ChildCast, charges
<1>8. CASE FinishAnimation
    BY <1>3, <1>8 DEF FinishAnimation, Inv, TypeOK
<1>9. ASSUME NEW m \in cooldown_modifiers, apply_cooldown_modifications(m) PROVE FALSE
    BY <1>6, <1>9 DEF apply_cooldown_modifications
<1>10. CASE EndRotations \/ EndSkills \/ GainAlacrity \/ EndHooks
            \/ cleanup_expired_components \/ UNCHANGED vars
    BY <1>6, <1>10 DEF EndRotations, EndSkills, GainAlacrity, EndHooks,
        cleanup_expired_components, vars, charges
<1> QED
    BY <1>4, <1>5, <1>7, <1>8, <1>9, <1>10 DEF Next, EndOfPhase

\* Whatever the cooldown and however alacrity comes and goes, the two truncated percentages
\* of progress_cooldowns reach a hundred no earlier than the exact fractions reach one.
THEOREM CooldownsNeverEndEarly == Spec => NeverEarly
<1>1. Init => Ranges
    BY DEF Init, Ranges, AlacrityProgressNatural, CoolingHasDuration, NotStarted, Index
<1>2. Inv /\ Ranges /\ [Next]_vars => Ranges'
    BY RangesStep
<1>3. Inv /\ Ranges /\ [Next]_vars
      => [\A s \in Skills :
             current_ammo'[s] > current_ammo[s] /\ progress[s][0] >= 0
                 => Fraction(s, Advanced(s)) >= Whole(s)]_vars
    BY OnlyProgressGives, RechargedIsWhole
<1> QED
    BY <1>1, <1>2, <1>3, InvHolds, PTL DEF Spec, NeverEarly

-----------------------------------------------------------------------------
(* Nor do they end it much later *)

LEMMA TimesStrict ==
    ASSUME NEW x \in Int, NEW y \in Int, NEW c \in Nat, c > 0, x < y
    PROVE  x * c < y * c
<1>1. (y - x) * c > 0
    OBVIOUS
<1> QED
    BY <1>1

\* Truncation, also of a negative number, loses less than a whole.
LEMMA TruncatedBound ==
    ASSUME NEW a \in Int, NEW d \in Nat, d > 0
    PROVE  Truncated(a, d) \in Int /\ a < (Truncated(a, d) + 1) * d
<1>1. CASE a >= 0
    <2>1. a \div d \in Int /\ a < (a \div d) * d + d
        OBVIOUS
    <2>2. ((a \div d) + 1) * d = (a \div d) * d + d
        BY <2>1
    <2> QED
        BY <1>1, <2>1, <2>2 DEF Truncated
<1>2. CASE a < 0
    <2> DEFINE q == (-a) \div d
    <2>1. q \in Int /\ q * d <= -a
        BY DivTimes
    <2> HIDE DEF q
    <2>2. (-q + 1) * d = -(q * d) + d
        BY <2>1
    <2>3. a < (-q + 1) * d
        BY <2>1, <2>2
    <2>4. Truncated(a, d) = -q
        BY <1>2 DEF Truncated, q
    <2> QED
        BY <2>1, <2>3, <2>4
<1> QED
    BY <1>1, <1>2

\* Less than a hundred percent, truncated, are less than a hundred and one exactly.
LEMMA PercentsBelowAHundred ==
    ASSUME NEW p0 \in Int, NEW p1 \in Int, NEW d0 \in Nat, NEW d1 \in Nat, d0 > 0, d1 > 0,
           Truncated(p0 * 100, d0) + Truncated(p1 * 100, d1) < 100
    PROVE  100 * (p0 * d1 + p1 * d0) < 101 * (d0 * d1)
<1> DEFINE a == Truncated(p0 * 100, d0)
           b == Truncated(p1 * 100, d1)
           W == d0 * d1
<1>1. p0 * 100 \in Int /\ p1 * 100 \in Int
    OBVIOUS
<1>2. /\ a \in Int /\ p0 * 100 < (a + 1) * d0
      /\ b \in Int /\ p1 * 100 < (b + 1) * d1
    BY <1>1, TruncatedBound
<1>3. a + b <= 99
    BY <1>2
<1> HIDE DEF a, b
<1>4. (a + 1) * d0 \in Int /\ (b + 1) * d1 \in Int
    BY <1>2
<1>5. /\ (p0 * 100) * d1 < ((a + 1) * d0) * d1
      /\ (p1 * 100) * d0 < ((b + 1) * d1) * d0
    BY <1>1, <1>2, <1>4, TimesStrict
<1>6. /\ ((a + 1) * d0) * d1 = (a + 1) * W /\ ((b + 1) * d1) * d0 = (b + 1) * W
      /\ W \in Nat
    BY <1>2
<1>7. 100 * (p0 * d1 + p1 * d0) = (p0 * 100) * d1 + (p1 * 100) * d0
    OBVIOUS
<1>8. (a + 1) * W + (b + 1) * W = (a + b + 2) * W /\ (a + b + 2) * W <= 101 * W
    <2>1. W \in Nat /\ a + b + 2 \in Int /\ a + b + 2 <= 101
        BY <1>2, <1>3, <1>6
    <2> HIDE DEF W
    <2>2. (a + b + 2) * W <= 101 * W
        BY <2>1, TimesMonotone
    <2> QED
        BY <1>2, <2>1, <2>2
<1>9. p0 * d1 \in Int /\ p1 * d0 \in Int
    OBVIOUS
<1>10. (p0 * 100) * d1 + (p1 * 100) * d0 < (a + 1) * W + (b + 1) * W
    BY <1>1, <1>2, <1>5, <1>6
<1> QED
    BY <1>2, <1>6, <1>7, <1>8, <1>9, <1>10

LEMMA PercentInt ==
    ASSUME NEW s \in Skills, cooldown[s][0] > 0, NEW p \in [Index -> Int]
    PROVE  Percent(s, p) \in Int
<1>1. /\ cooldown[s][0] \in Nat /\ cooldown[s][1] \in Nat /\ cooldown[s][1] > 0
      /\ p[0] * 100 \in Int /\ p[1] * 100 \in Int
    BY CooldownsBoth DEF Index
<1>2. Truncated(p[0] * 100, cooldown[s][0]) \in Int
    BY <1>1, TruncatedBound
<1>3. Truncated(p[1] * 100, cooldown[s][1]) \in Int
    BY <1>1, TruncatedBound
<1> QED
    BY <1>2, <1>3 DEF Percent

LEMMA NotRechargedIsShort ==
    ASSUME NEW s \in Skills, cooldown[s][0] > 0, NEW p \in [Index -> Int], Percent(s, p) < 100
    PROVE  100 * Fraction(s, p) < 101 * Whole(s)
<1>1. /\ cooldown[s][0] \in Nat /\ cooldown[s][1] \in Nat /\ cooldown[s][1] > 0
      /\ p[0] \in Int /\ p[1] \in Int
    BY CooldownsBoth DEF Index
<1> QED
    BY <1>1, PercentsBelowAHundred DEF Percent, Fraction, Whole

LEMMA NothingIsShort ==
    ASSUME NEW s \in Skills, cooldown[s][0] > 0
    PROVE  100 * Fraction(s, NotStarted) < 101 * Whole(s)
<1>1. cooldown[s][0] \in Nat /\ cooldown[s][1] \in Nat /\ cooldown[s][1] > 0
    BY CooldownsBoth DEF Index
<1>2. Fraction(s, NotStarted) = 0
    BY <1>1 DEF Fraction, NotStarted, Index
<1>3. Whole(s) \in Nat /\ Whole(s) > 0
    BY <1>1 DEF Whole
<1> QED
    BY <1>2, <1>3

LEMMA NeverLateStep ==
    ASSUME Inv, Ranges, NeverLate, [Next]_vars
    PROVE  NeverLate'
<1>1. TypeOK /\ Ranges'
    BY RangesStep DEF Inv
<1>2. CASE progress_cooldowns
    <2> SUFFICES ASSUME NEW s \in Running'
                 PROVE  100 * Fraction(s, progress'[s]) < 101 * Whole(s)
        BY DEF NeverLate, Fraction, Whole
    <2>1. s \in Skills /\ s \in cooldown_component /\ cooldown[s][0] > 0
        BY <1>1, <1>2 DEF progress_cooldowns, Running, TypeOK, Ranges, CoolingHasDuration
    <2>2. s \notin cooldown_expired'
        BY DEF Running
    <2>3. Advanced(s) \in [Index -> Int]
        BY <1>1, <2>1 DEF Advanced, TypeOK, Index
    <2>4. CASE s \in Recharged
        <3>1. progress'[s] = NotStarted
            BY <1>2, <2>1, <2>2, <2>4 DEF progress_cooldowns
        <3> QED
            BY <2>1, <3>1, NothingIsShort
    <2>5. CASE s \notin Recharged
        <3>1. progress'[s] = Advanced(s)
            BY <1>2, <2>1, <2>5 DEF progress_cooldowns
        <3>2. Percent(s, Advanced(s)) \in Int /\ ~(Percent(s, Advanced(s)) >= 100)
            BY <2>1, <2>3, <2>5, PercentInt DEF Recharged
        <3>3. Percent(s, Advanced(s)) < 100
            BY <3>2
        <3> QED
            BY <2>1, <2>3, <3>1, <3>3, NotRechargedIsShort
    <2> QED
        BY <2>4, <2>5
<1>3. ASSUME NEW t \in Skills, SkillTickPut(t) PROVE NeverLate'
    <2> SUFFICES ASSUME NEW s \in Running'
                 PROVE  100 * Fraction(s, progress'[s]) < 101 * Whole(s)
        BY DEF NeverLate, Fraction, Whole
    <2>1. phase = "skills" /\ UNCHANGED cooldown_expired
        BY <1>3 DEF SkillTickPut, In, marks
    <2>2. s \in Skills /\ s \in cooldown_component' /\ cooldown[s][0] > 0
        <3>1. cooldown_component' \subseteq Skills
            BY <1>1, <1>3 DEF SkillTickPut, Take, TypeOK
        <3> QED
            BY <1>1, <3>1 DEF Running, Ranges, CoolingHasDuration
    <2>3. CASE s \in cooldown_component
        <3>1. progress'[s] = progress[s]
            BY <1>3, <2>2, <2>3 DEF SkillTickPut, Take
        <3> QED
            BY <2>1, <2>3, <3>1 DEF NeverLate, Running
    <2>4. CASE s \notin cooldown_component
        <3>1. progress'[s] = NotStarted
            BY <1>3, <2>2, <2>4 DEF SkillTickPut, Take
        <3> QED
            BY <2>2, <3>1, NothingIsShort
    <2> QED
        BY <2>3, <2>4
<1>4. CASE UNCHANGED vars
    BY <1>4 DEF vars, charges, marks, NeverLate, Running, Fraction, Whole
<1>5. ASSUME NEW s \in Skills, StartCast(s) \/ InstantCast(s) \/ EarlyCast(s) \/ ChildCast(s)
      PROVE  phase' # "skills"
    BY <1>5 DEF StartCast, InstantCast, EarlyCast, ChildCast, In
<1>6. FinishAnimation \/ GainAlacrity => phase' # "skills"
    BY DEF FinishAnimation, GainAlacrity, In
<1>7. ASSUME NEW m \in cooldown_modifiers, apply_cooldown_modifications(m)
      PROVE  phase' # "skills"
    BY <1>7 DEF apply_cooldown_modifications, In
<1>8. EndRotations \/ EndSkills \/ EndHooks \/ cleanup_expired_components => phase' # "skills"
    BY DEF EndRotations, EndSkills, EndHooks, cleanup_expired_components
<1>9. phase' # "skills" => NeverLate'
    BY DEF NeverLate
<1> QED
    BY <1>2, <1>3, <1>4, <1>5, <1>6, <1>7, <1>8, <1>9 DEF Next, EndOfPhase

LEMMA InitRanges == Init => Ranges
BY DEF Init, Ranges, AlacrityProgressNatural, CoolingHasDuration, NotStarted, Index

\* A cooldown that progress_cooldowns leaves running lacks at most what truncating two
\* percentages can hide, for every pair of cooldowns, modifiers included.
THEOREM CooldownsNeverEndLate == Spec => []NeverLate
<1>1. Init => NeverLate
    BY DEF Init, NeverLate
<1>2. Inv /\ Ranges /\ [Next]_vars => Ranges'
    BY RangesStep
<1>3. Inv /\ Ranges /\ NeverLate /\ [Next]_vars => NeverLate'
    BY NeverLateStep
<1> QED
    BY InitRanges, <1>1, <1>2, <1>3, InvHolds, PTL DEF Spec

-----------------------------------------------------------------------------
(* What a report says of the ticks that are left *)

\* A charge comes back k ticks from now, not earlier, when X / W ticks are left; X / W is at
\* least l and at most r + 1.
LEMMA RoundedTicks ==
    ASSUME NEW d \in Nat, NEW W \in Nat, W > 0, NEW X \in Int, NEW k \in Int,
           NEW l \in Int, NEW r \in Int, l * W <= X, X <= (r + 1) * W,
           k * W >= X, 100 * ((k - 1) * W) < 100 * X + d * W
    PROVE  k >= l /\ k <= r + 2 + d \div 100
<1>1. k * W <= (l - 1) * W => FALSE
    <2>1. (l - 1) * W = l * W - W /\ l * W \in Int /\ k * W \in Int
        OBVIOUS
    <2> QED
        BY <2>1
<1>2. k >= l
    <2>1. ASSUME k <= l - 1 PROVE FALSE
        <3>1. k * W <= (l - 1) * W
            BY <2>1, TimesMonotone
        <3> QED
            BY <1>1, <3>1
    <2> QED
        BY <2>1
<1>3. 100 * (k - 1) < 100 * (r + 1) + d
    <2>1. ASSUME 100 * (r + 1) + d <= 100 * (k - 1) PROVE FALSE
        <3>1. (100 * (r + 1) + d) * W <= (100 * (k - 1)) * W
            BY <2>1, TimesMonotone
        <3>2. /\ (100 * (r + 1) + d) * W = 100 * ((r + 1) * W) + d * W
              /\ (100 * (k - 1)) * W = 100 * ((k - 1) * W)
            OBVIOUS
        <3>3. (r + 1) * W \in Int /\ d * W \in Int /\ (k - 1) * W \in Int
            OBVIOUS
        <3> QED
            BY <3>1, <3>2, <3>3
    <2> QED
        BY <2>1
<1>4. d \div 100 \in Int /\ d < 100 * (d \div 100) + 100
    OBVIOUS
<1> QED
    BY <1>2, <1>3, <1>4

\* A cast of a / W that is not negative is its integer part, or one less than an exact one.
LEMMA CastOfNatural ==
    ASSUME NEW a \in Nat, NEW W \in Nat, W > 0, NEW r \in CastToInt(a, W)
    PROVE  r \in Int /\ r * W <= a /\ a <= (r + 1) * W
<1>1. PICK x \in Nat : x = Truncated(a, W) /\ x * W <= a /\ a < x * W + W /\ a = x * W + (a % W)
    <2>1. a \div W \in Nat /\ a % W \in 0..W - 1 /\ a = (a \div W) * W + (a % W)
        OBVIOUS
    <2>2. (a \div W) * W \in Int
        BY <2>1
    <2> QED
        BY <2>1, <2>2 DEF Truncated
<1>2. x * W \in Int /\ (x + 1) * W = x * W + W /\ (x - 1) * W = x * W - W
    OBVIOUS
<1>3. r = x \/ (r = x - 1 /\ a % W = 0)
    BY <1>1 DEF CastToInt
<1>4. CASE r = x
    BY <1>1, <1>2, <1>4
<1>5. CASE r = x - 1 /\ a % W = 0
    <2>1. a = x * W /\ (r + 1) * W = x * W /\ r * W = x * W - W
        BY <1>1, <1>2, <1>5
    <2> QED
        BY <1>2, <1>5, <2>1
<1> QED
    BY <1>3, <1>4, <1>5

\* What is done in casts to a number t: as much is left as d - t, or one less.
LEMMA RoundedRest ==
    ASSUME NEW d \in Nat, NEW W \in Nat, W > 0, NEW f \in Nat, f < W,
           NEW t \in CastToInt(f * d, W)
    PROVE  t \in Int /\ (d - t - 1) * W <= d * (W - f) /\ d * (W - f) <= (d - t + 1) * W
<1>1. f * d \in Nat /\ d * W \in Nat /\ d * (W - f) = d * W - f * d
    OBVIOUS
<1>2. t \in Int /\ t * W <= f * d /\ f * d <= (t + 1) * W
    BY <1>1, CastOfNatural
<1>3. /\ t * W \in Int /\ (t + 1) * W = t * W + W
      /\ (d - t - 1) * W = d * W - t * W - W /\ (d - t + 1) * W = d * W - t * W + W
    BY <1>2
<1> QED
    BY <1>1, <1>2, <1>3

\* f of a whole d * e is done, a tick does e of it.
LEMMA RemainingTicks ==
    ASSUME NEW d \in Nat, NEW e \in Nat, NEW f \in Nat, NEW k \in Nat,
           NEW l \in Int, NEW r \in Int,
           d > 0, e > 0, f < d * e, k >= 1, f + k * e >= d * e,
           k = 1 \/ 100 * (f + (k - 1) * e) < 101 * (d * e),
           l * (d * e) <= d * (d * e - f), d * (d * e - f) <= (r + 1) * (d * e)
    PROVE  k >= l /\ k <= r + 2 + d \div 100
<1> DEFINE W == d * e
           X == d * (W - f)
<1>1. W \in Nat /\ W > 0
    OBVIOUS
<1>2. W - f \in Nat /\ X \in Nat /\ X = d * W - f * d
    BY <1>1
<1>3. k * W >= X
    <2>1. W - f <= k * e /\ k * e \in Int
        BY <1>1
    <2>2. (W - f) * d <= (k * e) * d
        BY <1>2, <2>1, TimesMonotone
    <2> QED
        BY <1>2, <2>2
<1>4. 100 * ((k - 1) * W) < 100 * X + d * W
    <2>1. CASE k = 1
        <3>1. W - f > 0 /\ d * W > 0 /\ (k - 1) * W = 0
            BY <1>1, <2>1
        <3> QED
            BY <1>2, <3>1
    <2>2. CASE 100 * (f + (k - 1) * e) < 101 * (d * e)
        <3>1. 100 * (f + (k - 1) * e) \in Int /\ 101 * W \in Int
            OBVIOUS
        <3>2. (100 * (f + (k - 1) * e)) * d < (101 * W) * d
            BY <2>2, <3>1, TimesStrict
        <3>3. (100 * (f + (k - 1) * e)) * d = 100 * (f * d) + 100 * ((k - 1) * W)
            OBVIOUS
        <3>4. (101 * W) * d = 100 * (d * W) + d * W
            BY <1>1
        <3>5. f * d \in Int /\ d * W \in Int /\ (k - 1) * W \in Int
            BY <1>1
        <3> HIDE DEF W
        <3> QED
            BY <1>2, <3>2, <3>3, <3>4, <3>5
    <2> QED
        BY <2>1, <2>2
<1>5. l * W <= X /\ X <= (r + 1) * W
    OBVIOUS
<1> HIDE DEF W, X
<1> QED
    BY <1>1, <1>2, <1>3, <1>4, <1>5, RoundedTicks

\* The progress of s in k ticks, if alacrity stays as it is.
Later(s, k) == [progress[s] EXCEPT ![Alacrity] = @ + k]
Back(s, k) == Percent(s, Later(s, k)) >= 100

\* What a report may say something of.
Reported(s) ==
    /\ s \in Skills /\ cooldown[s][0] > 0
    /\ progress[s] \in [Index -> Int] /\ progress[s][0] >= 0 /\ progress[s][1] >= 0
    /\ Fraction(s, progress[s]) < Whole(s)

LEMMA LaterFraction ==
    ASSUME NEW s, Reported(s), NEW k \in Nat
    PROVE  /\ Later(s, k) \in [Index -> Int] /\ Later(s, k)[0] >= 0 /\ Later(s, k)[1] >= 0
           /\ Fraction(s, Later(s, k))
                = Fraction(s, progress[s]) + k * cooldown[s][1 - Alacrity]
<1>1. /\ cooldown[s][0] \in Nat /\ cooldown[s][1] \in Nat
      /\ progress[s][0] \in Nat /\ progress[s][1] \in Nat /\ progress[s] \in [Index -> Int]
    BY CooldownsBoth DEF Reported, Index
<1>2. CASE Alacrity = 0
    <2>1. /\ Later(s, k) \in [Index -> Int]
          /\ Later(s, k)[0] = progress[s][0] + k /\ Later(s, k)[1] = progress[s][1]
        BY <1>1, <1>2 DEF Later, Index
    <2>2. (progress[s][0] + k) * cooldown[s][1]
            = progress[s][0] * cooldown[s][1] + k * cooldown[s][1]
        BY <1>1
    <2>3. /\ progress[s][0] * cooldown[s][1] \in Nat /\ k * cooldown[s][1] \in Nat
          /\ progress[s][1] * cooldown[s][0] \in Nat
        BY <1>1
    <2> QED
        BY <1>1, <1>2, <2>1, <2>2, <2>3 DEF Fraction
<1>3. CASE Alacrity = 1
    <2>1. /\ Later(s, k) \in [Index -> Int]
          /\ Later(s, k)[0] = progress[s][0] /\ Later(s, k)[1] = progress[s][1] + k
        BY <1>1, <1>3 DEF Later, Index
    <2>2. (progress[s][1] + k) * cooldown[s][0]
            = progress[s][1] * cooldown[s][0] + k * cooldown[s][0]
        BY <1>1
    <2>3. /\ progress[s][0] * cooldown[s][1] \in Nat /\ k * cooldown[s][0] \in Nat
          /\ progress[s][1] * cooldown[s][0] \in Nat
        BY <1>1
    <2> QED
        BY <1>1, <1>3, <2>1, <2>2, <2>3 DEF Fraction
<1> QED
    BY <1>2, <1>3 DEF Alacrity

\* A cooldown comes back after all of its own ticks at the latest.
LEMMA BackInTime ==
    ASSUME NEW s, Reported(s)
    PROVE  Back(s, cooldown[s][Alacrity])
<1> DEFINE d == cooldown[s][Alacrity]
<1>1. /\ cooldown[s][0] \in Nat /\ cooldown[s][1] \in Nat /\ cooldown[s][0] > 0 /\ cooldown[s][1] > 0
      /\ progress[s][0] \in Nat /\ progress[s][1] \in Nat /\ progress[s] \in [Index -> Int]
    BY CooldownsBoth DEF Reported, Index
<1>2. ASSUME NEW a \in Nat, NEW b \in Nat, b > 0
      PROVE  /\ Truncated(a * 100, b) \in Nat
             /\ Truncated((a + b) * 100, b) \in Nat /\ Truncated((a + b) * 100, b) >= 100
    <2>1. a * 100 \in Nat /\ (a + b) * 100 \in Nat /\ (a + b) * 100 >= 100 * b
        BY <1>2
    <2>2. (a * 100) \div b \in Nat /\ ((a + b) * 100) \div b \in Nat
        BY <1>2, <2>1
    <2>3. (a + b) * 100 < (((a + b) * 100) \div b + 1) * b
        BY <1>2, <2>1, TruncatedBound DEF Truncated
    <2>4. ((a + b) * 100) \div b >= 100
        <3>1. PICK q \in Nat : q = ((a + b) * 100) \div b
            BY <2>2
        <3>2. ASSUME q + 1 <= 100 PROVE FALSE
            <4>1. (q + 1) * b <= 100 * b
                BY <3>2, TimesMonotone
            <4>2. (q + 1) * b \in Nat /\ 100 * b \in Nat
                OBVIOUS
            <4> QED
                BY <2>1, <2>3, <3>1, <4>1, <4>2
        <3> QED
            BY <3>1, <3>2
    <2> QED
        BY <2>1, <2>2, <2>4 DEF Truncated
<1>3. CASE Alacrity = 0
    <2>1. Later(s, d)[0] = progress[s][0] + cooldown[s][0] /\ Later(s, d)[1] = progress[s][1]
        BY <1>1, <1>3 DEF Later, Index
    <2>2. /\ Truncated((progress[s][0] + cooldown[s][0]) * 100, cooldown[s][0]) \in Nat
          /\ Truncated((progress[s][0] + cooldown[s][0]) * 100, cooldown[s][0]) >= 100
        BY <1>1, <1>2
    <2>3. Truncated(progress[s][1] * 100, cooldown[s][1]) \in Nat
        BY <1>1, <1>2
    <2> QED
        BY <2>1, <2>2, <2>3 DEF Back, Percent
<1>4. CASE Alacrity = 1
    <2>1. Later(s, d)[1] = progress[s][1] + cooldown[s][1] /\ Later(s, d)[0] = progress[s][0]
        BY <1>1, <1>4 DEF Later, Index
    <2>2. /\ Truncated((progress[s][1] + cooldown[s][1]) * 100, cooldown[s][1]) \in Nat
          /\ Truncated((progress[s][1] + cooldown[s][1]) * 100, cooldown[s][1]) >= 100
        BY <1>1, <1>2
    <2>3. Truncated(progress[s][0] * 100, cooldown[s][0]) \in Nat
        BY <1>1, <1>2
    <2> QED
        BY <2>1, <2>2, <2>3 DEF Back, Percent
<1> QED
    BY <1>3, <1>4 DEF Alacrity

LEMMA TicksLeftIsLeast ==
    ASSUME NEW s, Reported(s)
    PROVE  /\ TicksLeft(s) \in Nat /\ TicksLeft(s) >= 1 /\ Back(s, TicksLeft(s))
           /\ TicksLeft(s) = 1 \/ ~Back(s, TicksLeft(s) - 1)
<1>1. /\ cooldown[s][0] \in Nat /\ cooldown[s][1] \in Nat /\ cooldown[s][0] > 0 /\ cooldown[s][1] > 0
    BY CooldownsBoth DEF Reported, Index
<1> DEFINE upto == 1..(cooldown[s][0] + cooldown[s][1])
           T == {k \in upto : Back(s, k)}
<1>2. T # {} /\ T \subseteq Nat
    <2>1. cooldown[s][Alacrity] \in upto
        BY <1>1 DEF Alacrity
    <2> QED
        BY <2>1, BackInTime
<1>3. \E k \in T : \A j \in T : ~(j < k)
    <2> HIDE DEF T
    <2>1. PICK k \in T : \A j \in T : ~(<<j, k>> \in OpToRel(<, Nat))
        BY <1>2, NatLessThanWellFounded, WFMin, Zenon
    <2>2. \A j \in T : ~(j < k)
        BY <1>2, <2>1, Zenon DEF OpToRel
    <2> QED
        BY <2>2
<1>4. \E k \in upto : Back(s, k) /\ ~\E j \in 1..k - 1 : Back(s, j)
    <2>1. PICK k \in T : \A j \in T : ~(j < k)
        BY <1>3
    <2>2. \A j \in 1..k - 1 : j \in upto /\ j < k
        BY <1>1, <2>1
    <2> QED
        BY <2>1, <2>2
<1>5. TicksLeft(s) = CHOOSE k \in upto : Back(s, k) /\ ~\E j \in 1..k - 1 : Back(s, j)
    BY DEF TicksLeft, Back, Later
<1>6. /\ TicksLeft(s) \in upto /\ Back(s, TicksLeft(s))
      /\ ~\E j \in 1..TicksLeft(s) - 1 : Back(s, j)
    <2> HIDE DEF upto
    <2> QED
        BY <1>4, <1>5
<1>7. TicksLeft(s) = 1 \/ TicksLeft(s) - 1 \in 1..TicksLeft(s) - 1
    BY <1>1, <1>6
<1> QED
    BY <1>1, <1>6, <1>7

LEMMA ReportTellsTheTicks ==
    ASSUME NEW s, Reported(s), NEW l \in Int, NEW r \in Int,
           l * Whole(s) <= cooldown[s][Alacrity] * (Whole(s) - Fraction(s, progress[s])),
           cooldown[s][Alacrity] * (Whole(s) - Fraction(s, progress[s])) <= (r + 1) * Whole(s)
    PROVE  TicksLeft(s) \in l..(r + 2 + cooldown[s][Alacrity] \div 100)
<1>1. /\ cooldown[s][0] \in Nat /\ cooldown[s][1] \in Nat /\ cooldown[s][0] > 0 /\ cooldown[s][1] > 0
      /\ progress[s][0] \in Nat /\ progress[s][1] \in Nat /\ Alacrity \in {0, 1} /\ s \in Skills
    BY CooldownsBoth DEF Reported, Index, Alacrity
<1> DEFINE d == cooldown[s][Alacrity]
           e == cooldown[s][1 - Alacrity]
           f == Fraction(s, progress[s])
           k == TicksLeft(s)
<1>2. d \in Nat /\ e \in Nat /\ d > 0 /\ e > 0
    BY <1>1
<1>3. Whole(s) = d * e
    BY <1>1 DEF Whole
<1>4. f \in Nat /\ f < d * e
    BY <1>1, <1>3 DEF Fraction, Reported
<1>5. k \in Nat /\ k >= 1 /\ Back(s, k) /\ (k = 1 \/ ~Back(s, k - 1))
    BY TicksLeftIsLeast
<1>6. f + k * e >= d * e
    <2>1. /\ Later(s, k) \in [Index -> Int] /\ Later(s, k)[0] >= 0 /\ Later(s, k)[1] >= 0
          /\ Fraction(s, Later(s, k)) = f + k * e
        BY <1>5, LaterFraction
    <2>2. Later(s, k)[0] \in Nat /\ Later(s, k)[1] \in Nat
        BY <2>1 DEF Index
    <2>3. PICK p0, p1 \in Nat : p0 = Later(s, k)[0] /\ p1 = Later(s, k)[1]
        BY <2>2
    <2>4. (p0 * 100) \div cooldown[s][0] + (p1 * 100) \div cooldown[s][1] >= 100
        <3>1. p0 * 100 >= 0 /\ p1 * 100 >= 0
            OBVIOUS
        <3> QED
            BY <1>5, <2>3, <3>1 DEF Back, Percent, Truncated
    <2>5. p0 * cooldown[s][1] + p1 * cooldown[s][0] >= cooldown[s][0] * cooldown[s][1]
        BY <1>1, <2>4, PercentsMakeAWhole
    <2> QED
        BY <1>3, <2>1, <2>3, <2>5 DEF Fraction, Whole
<1>7. k = 1 \/ 100 * (f + (k - 1) * e) < 101 * (d * e)
    <2> SUFFICES ASSUME k # 1 PROVE 100 * (f + (k - 1) * e) < 101 * (d * e)
        OBVIOUS
    <2>1. k - 1 \in Nat /\ ~Back(s, k - 1)
        BY <1>5
    <2>2. Later(s, k - 1) \in [Index -> Int] /\ Fraction(s, Later(s, k - 1)) = f + (k - 1) * e
        BY <2>1, LaterFraction
    <2>3. Percent(s, Later(s, k - 1)) \in Int
        BY <1>1, <2>2, PercentInt
    <2>4. Percent(s, Later(s, k - 1)) < 100
        BY <2>1, <2>3 DEF Back
    <2> QED
        BY <1>1, <1>3, <2>2, <2>4, NotRechargedIsShort
<1>8. l * (d * e) <= d * (d * e - f) /\ d * (d * e - f) <= (r + 1) * (d * e)
    BY <1>3
<1> HIDE DEF d, e, f, k
<1>9. k >= l /\ k <= r + 2 + d \div 100
    <2>1. PICK d1, e1, f1, k1 \in Nat : d1 = d /\ e1 = e /\ f1 = f /\ k1 = k
        BY <1>2, <1>4, <1>5
    <2>2. /\ d1 > 0 /\ e1 > 0 /\ f1 < d1 * e1 /\ k1 >= 1 /\ f1 + k1 * e1 >= d1 * e1
          /\ l * (d1 * e1) <= d1 * (d1 * e1 - f1)
          /\ d1 * (d1 * e1 - f1) <= (r + 1) * (d1 * e1)
        BY <1>2, <1>4, <1>5, <1>6, <1>8, <2>1
    <2>3. k1 = 1 \/ 100 * (f1 + (k1 - 1) * e1) < 101 * (d1 * e1)
        BY <1>7, <2>1
    <2>4. k1 >= l /\ k1 <= r + 2 + d1 \div 100
        BY <2>2, <2>3, RemainingTicks
    <2> QED
        BY <2>1, <2>4
<1>10. d \div 100 \in Int
    BY <1>2
<1> QED
    BY <1>5, <1>9, <1>10 DEF d, k

\* What is left of a cooldown, in ticks and as a fraction of the whole.
LEMMA ReportedNumbers ==
    ASSUME NEW s, Reported(s)
    PROVE  /\ cooldown[s][Alacrity] \in Nat /\ Whole(s) \in Nat /\ Whole(s) > 0
           /\ Fraction(s, progress[s]) \in Nat /\ Fraction(s, progress[s]) < Whole(s)
<1>1. /\ cooldown[s][0] \in Nat /\ cooldown[s][1] \in Nat /\ cooldown[s][0] > 0 /\ cooldown[s][1] > 0
      /\ progress[s][0] \in Nat /\ progress[s][1] \in Nat /\ Alacrity \in {0, 1}
    BY CooldownsBoth DEF Reported, Index, Alacrity
<1> QED
    BY <1>1 DEF Whole, Fraction, Reported

LEMMA UncastableTellTheTicks ==
    ASSUME NEW s, Reported(s), NEW r \in remaining_cooldown(s)
    PROVE  TicksLeft(s) \in r..(r + 2 + cooldown[s][Alacrity] \div 100)
<1> DEFINE d == cooldown[s][Alacrity]
           f == Fraction(s, progress[s])
           W == Whole(s)
<1>1. d \in Nat /\ W \in Nat /\ W > 0 /\ f \in Nat /\ f < W
    BY ReportedNumbers
<1>2. d * (W - f) \in Nat
    <2>1. W - f \in Nat
        BY <1>1
    <2> QED
        BY <1>1, <2>1
<1>3. r \in Int /\ r * W <= d * (W - f) /\ d * (W - f) <= (r + 1) * W
    <2>1. CASE progress[s] = NotStarted
        <3>1. f = 0
            BY <2>1, CooldownsBoth DEF Fraction, NotStarted, Index, Reported
        <3>2. r = d
            BY <2>1 DEF remaining_cooldown
        <3>3. d * (W - 0) = d * W /\ (d + 1) * W = d * W + W /\ d * W \in Int
            BY <1>1
        <3> HIDE DEF d, f, W
        <3> QED
            BY <1>1, <3>1, <3>2, <3>3
    <2>2. CASE progress[s] # NotStarted
        <3>1. r \in CastToInt(d * (W - f), W)
            BY <2>2 DEF remaining_cooldown
        <3> HIDE DEF d, f, W
        <3> QED
            BY <1>1, <1>2, <3>1, CastOfNatural
    <2> QED
        BY <2>1, <2>2
<1> QED
    BY <1>3, ReportTellsTheTicks

LEMMA StatusesTellTheTicks ==
    ASSUME NEW s, Reported(s), NEW r \in remaining_cooldowns(s)[Alacrity]
    PROVE  TicksLeft(s) \in (r - 1)..(r + 2 + cooldown[s][Alacrity] \div 100)
<1> DEFINE d == cooldown[s][Alacrity]
           f == Fraction(s, progress[s])
           W == Whole(s)
<1>1. d \in Nat /\ W \in Nat /\ W > 0 /\ f \in Nat /\ f < W
    BY ReportedNumbers
<1>2. PICK t \in CastToInt(f * d, W) : r = d - t
    <2>1. Alacrity \in Index
        BY DEF Alacrity, Index
    <2> QED
        BY <2>1 DEF remaining_cooldowns
<1> HIDE DEF d, f, W
<1>3. t \in Int /\ (d - t - 1) * W <= d * (W - f) /\ d * (W - f) <= (d - t + 1) * W
    BY <1>1, RoundedRest
<1>4. r \in Int /\ r - 1 \in Int /\ (r - 1) * W <= d * (W - f) /\ d * (W - f) <= (r + 1) * W
    BY <1>1, <1>2, <1>3
<1> QED
    BY <1>4, ReportTellsTheTicks DEF d, f, W

\* Both lists of a report, which derive the remaining cooldown by a formula of their own
\* each and in doubles, are within two ticks and a hundredth of when progress_cooldowns will
\* give the charge back. The uncastable skills are never beyond it, and the statuses by one
\* tick at most, for every pair of cooldowns and however far it has progressed.
THEOREM ReportsTellTheTicks == Spec => []ReportedCooldowns
<1>1. Inv /\ Ranges => ReportedCooldowns
    <2> SUFFICES ASSUME Inv, Ranges, NEW s \in cooldown_component,
                        progress[s][0] >= 0, Fraction(s, progress[s]) < Whole(s)
                 PROVE  /\ \A r \in remaining_cooldown(s) :
                              TicksLeft(s) \in r..(r + 2 + cooldown[s][Alacrity] \div 100)
                        /\ \A r \in remaining_cooldowns(s)[Alacrity] :
                              TicksLeft(s) \in (r - 1)..(r + 2 + cooldown[s][Alacrity] \div 100)
        BY DEF ReportedCooldowns
    <2>1. Reported(s)
        BY DEF Reported, Inv, TypeOK, Ranges, AlacrityProgressNatural, CoolingHasDuration
    <2> QED
        BY <2>1, UncastableTellTheTicks, StatusesTellTheTicks
<1>2. Inv /\ Ranges /\ [Next]_vars => Ranges'
    BY RangesStep
<1> QED
    BY InitRanges, <1>1, <1>2, InvHolds, PTL DEF Spec
=============================================================================
