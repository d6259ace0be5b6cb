---------------------------- MODULE StudentProfiles ----------------------------
(***************************************************************************)
(* A student's profile, saved section by section (StudentsService.patch),  *)
(* and the eligibility explained from it (EligibilityService): a           *)
(* collection of the profile is deleted and made again in two writes.      *)
(***************************************************************************)
EXTENDS EligibilityRules, FiniteSets, SequencesExt

CONSTANTS
    Callers,        \* saves that can be in progress at once
    Cases,          \* what a programme requires (rules), a partner's override of the first
                    \* rule or None, and what a student may declare (records, tests, facts)
                    \* and hold (vaults): a set of records
    MaxDeaths, MaxTime          \* bounds

ProfilesAssumption == {MaxDeaths, MaxTime} \subseteq Nat

VARIABLES
    case,               \* the case at hand
    profile, vault,
    calls, now,
    shown,              \* what the last explanation made of the override (history)
    sent, deaths, raced \* what the last save sent, and whether two overlapped or one died

vars == <<case, profile, vault, calls, now, shown, sent, deaths, raced>>
Saving == <<profile, calls, sent, deaths, raced>>
rules == case.rules
override == case.override

Time == 0..MaxTime
Sections == {"records", "tests"}
Blank == [records |-> <<>>, tests |-> <<>>, months |-> None, born |-> None, nationality |-> None]

(* A save in progress: its step, the section it replaces and with what.    *)
Lists(s) == IF s = "records" THEN case.records ELSE case.tests
Call == [step: {"idle", "drop", "make"}, section: Sections, list: case.records \cup case.tests \cup {<<>>}]
NoCall == [step |-> "idle", section |-> "records", list |-> <<>>]

TypeOK ==
    /\ case \in Cases
    /\ profile # None => /\ Len(profile.records) <= 2 * Cardinality(Callers)
                         /\ [months |-> profile.months, born |-> profile.born,
                             nationality |-> profile.nationality] \in case.facts
    /\ vault \in case.vaults
    /\ calls \in [Callers -> Call] /\ now \in Time
    /\ shown \in {"nothing", "recorded", "silent"}
    /\ \A s \in Sections: sent[s] \in Lists(s) \cup {<<>>}
    /\ deaths \in 0..MaxDeaths /\ raced \in BOOLEAN

Init ==
    /\ case \in Cases
    /\ profile = None /\ vault \in case.vaults
    /\ calls = [c \in Callers |-> NoCall] /\ now = 0
    /\ shown = "nothing"
    /\ sent = [s \in Sections |-> <<>>] /\ deaths = 0 /\ raced = FALSE

At(c, step) == calls[c].step = step
Hold(c, call) == calls' = [calls EXCEPT ![c] = call]
End(c) == Hold(c, NoCall)

(***************************************************************************)
(* Saving                                                                  *)
(***************************************************************************)

Existing == IF profile = None THEN Blank ELSE profile

(* patch of plain fields: made on first access (getOrCreate), one write.   *)
PatchFields(facts) ==
    /\ profile' = [Existing EXCEPT !.months = facts.months, !.born = facts.born,
                                   !.nationality = facts.nationality]
    /\ UNCHANGED <<case, vault, calls, now, shown, sent, deaths, raced>>

(* patch of a collection: the row first, then deleteMany and createMany.   *)
Busy(s) == \E c \in Callers: ~At(c, "idle") /\ calls[c].section = s

PatchRow(c, s, list) ==
    /\ At(c, "idle")
    /\ profile' = Existing
    /\ Hold(c, [step |-> "drop", section |-> s, list |-> list])
    /\ sent' = [sent EXCEPT ![s] = list]
    /\ raced' = (raced \/ Busy(s))
    /\ UNCHANGED <<case, vault, now, shown, deaths>>

Merged(rows) == rows
Dropped(rows) == <<>>

Drop(c) ==
    /\ At(c, "drop")
    /\ profile' = [profile EXCEPT ![calls[c].section] = Dropped(@)]
    /\ Hold(c, [calls[c] EXCEPT !.step = "make"])
    /\ UNCHANGED <<case, vault, now, shown, sent, deaths, raced>>

Make(c) ==
    /\ At(c, "make")
    /\ profile' = [profile EXCEPT ![calls[c].section] = @ \o calls[c].list]
    /\ End(c)
    /\ UNCHANGED <<case, vault, now, shown, sent, deaths, raced>>

CallDies(c) ==
    /\ ~At(c, "idle") /\ deaths < MaxDeaths
    /\ deaths' = deaths + 1 /\ raced' = TRUE
    /\ End(c)
    /\ UNCHANGED <<case, profile, vault, now, shown, sent>>

(***************************************************************************)
(* Explaining                                                              *)
(***************************************************************************)

Evaluated(i) == EvaluateRequirement(rules[i], profile, vault, now)

(* loadOverrides: those in force.                                          *)
InForce == override # None /\ (override # None => override.expires = None \/ override.expires > now)
Overridden(i) == IF i = 1 /\ InForce THEN override.outcome ELSE Evaluated(i)
Explanation ==
    LET outcomes == [i \in DOMAIN rules |-> Overridden(i)]
    IN  [outcomes |-> outcomes, verdict |-> RollUpVerdict(outcomes)]

ChangesOutcome == rules # <<>> /\ InForce /\ override.outcome # Evaluated(1)

(* explain audits an override that changes an outcome; explainMany, for the*)
(* comparison of programmes, does not.                                     *)
Explain ==
    /\ shown' = IF ChangesOutcome THEN "recorded" ELSE "nothing"
    /\ UNCHANGED <<case, vault, now>> /\ UNCHANGED Saving

ExplainMany ==
    /\ shown' = IF ChangesOutcome THEN "silent" ELSE "nothing"
    /\ UNCHANGED <<case, vault, now>> /\ UNCHANGED Saving

(* The vault is DocumentVault's.                                           *)
ChangeVault ==
    /\ vault' \in case.vaults
    /\ UNCHANGED <<case, now, shown>> /\ UNCHANGED Saving

Tick ==
    /\ now < MaxTime /\ now' = now + 1
    /\ UNCHANGED <<case, vault, shown>> /\ UNCHANGED Saving

Next ==
    \/ \E f \in case.facts: PatchFields(f)
    \/ \E c \in Callers:
        \/ \E s \in Sections: \E list \in Lists(s): PatchRow(c, s, list)
        \/ Drop(c) \/ Make(c) \/ CallDies(c)
    \/ Explain \/ ExplainMany \/ ChangeVault \/ Tick

Spec == Init /\ [][Next]_vars

(***************************************************************************)
(* Properties                                                              *)
(***************************************************************************)

(* "Replace-wholesale rather than merged" (patch): when nobody is saving,  *)
(* a section is what the last save sent, unless two overlapped or one died.*)
KeptAsSaved ==
    profile # None => \A s \in Sections: Busy(s) \/ profile[s] = sent[s]
KeptAsSavedUnlessRaced == raced \/ KeptAsSaved

(* "An absence is never a rejection" (rules.ts): what is failed was        *)
(* declared, so that clearing a section of the profile never fails it.     *)
Cleared ==
    IF profile = None THEN {}
    ELSE {[profile EXCEPT ![f] = Blank[f]] : f \in DOMAIN Blank}
AbsenceIsNoRejection ==
    \A i \in DOMAIN rules, p \in Cleared:
        EvaluateRequirement(rules[i], p, vault, now) = "fail" => Evaluated(i) = "fail"

(* A grade is compared "in the direction that scale actually runs"         *)
(* (meetsThreshold) and conversion keeps the order: where a grade passes a *)
(* minimum, a better one on the same scale does not fail it.               *)
Grades == {list[1].grade : list \in case.records \ {<<>>}} \ {None}
AsGood(better, grade) ==
    better.scale = grade.scale
      /\ IF grade.scale = "uk_class" THEN better.value <= grade.value ELSE better.value >= grade.value
With(grade) == [profile EXCEPT !.records = <<[HighestQualification(profile) EXCEPT !.grade = grade]>>]
BetterGradeNeverHurts ==
    \A i \in DOMAIN rules:
        /\ profile # None /\ profile # Blank /\ rules[i].readable
        /\ rules[i].ruleType = "gpa_minimum" /\ Evaluated(i) = "pass"
        => \A better \in Grades:
             AsGood(better, HighestQualification(profile).grade) =>
                EvaluateRequirement(rules[i], With(better), vault, now) # "fail"

(* Time alone fails nobody: a test that lapses becomes missing, not        *)
(* failed, unless the student has another that is current (englishLanguage)*)
TimeFailsNobodyStep ==
    UNCHANGED <<case, profile, vault>> =>
        \A i \in DOMAIN rules: Evaluated(i)' = "fail" =>
            Evaluated(i) = "fail" \/ Len(profile.tests) > 1
TimeFailsNobody == [][TimeFailsNobodyStep]_vars

(* "It is never silent" (applyOverride): whoever is told another outcome   *)
(* than the engine's, it is on record.                                     *)
OverrideIsNeverSilent == shown # "silent"

(* "The most recent completed qualification, which is what requirements    *)
(* test against" (highestQualification).                                   *)
CompletedIsTested ==
    profile # None =>
        LET held == HighestQualification(profile)
        IN  held # None => held.completed \/ \A r \in Range(profile.records): ~r.completed

(* A better test is not held against a student: adding one with a higher   *)
(* overall score never turns a pass into a fail (englishLanguage).         *)
BetterTestNeverHurts ==
    \A i \in DOMAIN rules, list \in case.tests:
        profile # None /\ Evaluated(i) = "pass" =>
            EvaluateRequirement(rules[i], [profile EXCEPT !.tests = @ \o list], vault, now) # "fail"

(* "The grade on your most recent qualification" is filled in once any     *)
(* record has one (profileCompleteness): whoever is not asked for it has   *)
(* one to be judged by.                                                    *)
FilledIsAssessed ==
    \A i \in DOMAIN rules:
        /\ profile # None /\ rules[i].readable /\ rules[i].ruleType = "gpa_minimum"
        /\ profile # None => \E r \in Range(profile.records): r.grade # None
        => Evaluated(i) # "missing_data"
================================================================================
