--------------------------- MODULE EligibilityRules ---------------------------
(***************************************************************************)
(* The eligibility engine's rules (rules.ts), the grade conversions they   *)
(* rest on (grades.ts) and the verdict (eligibility.ts): a requirement and *)
(* what a student has declared in, one outcome out.  Grades, scores and    *)
(* bands are in tenths.                                                    *)
(***************************************************************************)
EXTENDS Integers, Sequences, TLC

CONSTANT None       \* what has not been declared, or has no limit

Outcomes == {"pass", "fail", "unknown", "missing_data"}
Scales == {"gpa_4", "gpa_5", "percentage", "uk_class", "ects_grade"}

(***************************************************************************)
(* Grades                                                                  *)
(***************************************************************************)

(* CONVERSION_TABLES: for each pair the bands from the best down, a lower  *)
(* bound and a value each, under the top of the first.                     *)
Band(from, value) == [from |-> from, value |-> value]
Table(top, bands) == [top |-> top, bands |-> bands]
ConversionTables ==
    ( <<"gpa_4", "percentage">> :> Table(40,
        <<Band(37, 900), Band(33, 850), Band(30, 800), Band(27, 750), Band(23, 700), Band(20, 650),
          Band(10, 550), Band(0, 400)>>) ) @@
    ( <<"gpa_4", "uk_class">> :> Table(40,
        <<Band(37, 10), Band(33, 21), Band(30, 21), Band(27, 22), Band(23, 22), Band(20, 30), Band(0, 30)>>) ) @@
    ( <<"gpa_5", "gpa_4">> :> Table(50,
        <<Band(45, 40), Band(40, 37), Band(35, 33), Band(30, 30), Band(25, 27), Band(20, 23), Band(0, 15)>>) ) @@
    ( <<"percentage", "uk_class">> :> Table(1010,
        <<Band(700, 10), Band(600, 21), Band(500, 22), Band(400, 30), Band(0, 40)>>) ) @@
    ( <<"ects_grade", "percentage">> :> Table(50,
        <<Band(45, 900), Band(40, 800), Band(35, 700), Band(30, 600), Band(20, 500), Band(0, 350)>>) )

(* convertGrade: the same scale as it is, no table or outside it nothing;  *)
(* tables are not chained.                                                 *)
ConvertGrade(grade, to) ==
    LET pair == <<grade.scale, to>>
        bands == ConversionTables[pair].bands
        In(i) == grade.value >= bands[i].from /\ (i = 1 \/ grade.value < bands[i - 1].from)
    IN  IF grade.scale = to THEN grade.value
        ELSE IF pair \notin DOMAIN ConversionTables \/ grade.value \notin 0..ConversionTables[pair].top THEN None
        ELSE bands[CHOOSE i \in DOMAIN bands: In(i)].value

AlwaysAscending(scale) == TRUE
IsAscendingScale(scale) == scale # "uk_class"

Flipped == [gte |-> "lte", gt |-> "lt", lte |-> "gte", lt |-> "gt", eq |-> "eq"]
MeetsThreshold(value, comparison, threshold, scale) ==
    LET effective == IF IsAscendingScale(scale) THEN comparison ELSE Flipped[comparison]
    IN  CASE effective = "gte" -> value >= threshold
          [] effective = "gt" -> value > threshold
          [] effective = "lte" -> value <= threshold
          [] effective = "lt" -> value < threshold
          [] effective = "eq" -> value = threshold

(***************************************************************************)
(* The evaluators.  A profile is [records, tests, months, age, nationality]*)
(* with None for what is not declared; the vault is [usable, blocked].     *)
(***************************************************************************)

QualificationRank == [high_school |-> 1, diploma |-> 2, bachelors |-> 3, masters |-> 4, doctorate |-> 5]

(* highestQualification: the first of the highest level.                   *)
HighestQualification(profile) ==
    LET rs == profile.records
        Rank(i) == QualificationRank[rs[i].level]
        Best(i) == \A j \in DOMAIN rs: Rank(j) < Rank(i) \/ (Rank(j) = Rank(i) /\ j >= i)
    IN  IF rs = <<>> THEN None ELSE rs[CHOOSE i \in DOMAIN rs: Best(i)]

AcademicQualification(rule, profile) ==
    LET held == HighestQualification(profile)
    IN  CASE held = None -> "missing_data"
          [] held # None /\ rule.level \notin DOMAIN QualificationRank -> "unknown"
          [] OTHER ->
               IF QualificationRank[held.level] < QualificationRank[rule.level] THEN "fail"
               ELSE IF rule.countries # {} /\ held.country \notin rule.countries THEN "unknown" ELSE "pass"

FailsUngraded == "fail"
Ungraded == "missing_data"

GpaMinimum(rule, profile) ==
    LET held == HighestQualification(profile)
    IN  IF held = None THEN Ungraded ELSE IF held.grade = None THEN Ungraded
        ELSE LET converted == ConvertGrade(held.grade, rule.scale)
             IN  IF converted = None \/ rule.comparison \in {"in", "not_in"} THEN "unknown"
                 ELSE IF MeetsThreshold(converted, rule.comparison, rule.value, rule.scale) THEN "pass"
                 ELSE "fail"

(* isTestCurrent; of the current ones the first with the best overall.     *)
IsTestCurrent(test, now) == test.expires = None \/ test.expires > now

BestTest(tests, now) ==
    LET Current(i) == IsTestCurrent(tests[i], now)
        Best(i) == Current(i) /\ \A j \in DOMAIN tests: Current(j) =>
                      tests[j].overall < tests[i].overall \/ (tests[j].overall = tests[i].overall /\ j >= i)
    IN  IF \E i \in DOMAIN tests: Current(i) THEN tests[CHOOSE i \in DOMAIN tests: Best(i)] ELSE None

(* With none that is current, whether or not one has lapsed.               *)
LapsedFails(matching) == IF matching = <<>> THEN "missing_data" ELSE "fail"
NoCurrentTest(matching) == "missing_data"

EnglishLanguage(rule, profile, now) ==
    LET matching == SelectSeq(profile.tests, LAMBDA t: t.test = rule.test)
        best == BestTest(matching, now)
        bands == DOMAIN rule.bandMinimums
    IN  CASE best = None -> NoCurrentTest(matching)
          [] OTHER ->
               IF best.overall < rule.overallMinimum THEN "fail"
               ELSE IF \E b \in bands: best.bands[b] # None /\ best.bands[b] < rule.bandMinimums[b] THEN "fail"
               ELSE IF \E b \in bands: best.bands[b] = None THEN "missing_data" ELSE "pass"

WorkExperience(rule, profile) ==
    IF profile.months = None THEN "missing_data"
    ELSE IF profile.months < rule.months THEN "fail" ELSE IF rule.field # None THEN "unknown" ELSE "pass"

(* The age in whole years at the time of asking.                           *)
AgeMinimum(rule, profile, now) ==
    IF profile.born = None THEN "missing_data" ELSE IF now - profile.born >= rule.years THEN "pass" ELSE "fail"

NationalityRestriction(rule, profile) ==
    IF profile.nationality = None THEN "missing_data"
    ELSE IF (profile.nationality \in rule.countries) = (rule.comparison = "in") THEN "pass" ELSE "fail"

(* A blocked document is as none.                                          *)
DocumentRequired(rule, vault) ==
    IF rule.documentType \notin vault.usable THEN "missing_data" ELSE IF rule.certified THEN "unknown" ELSE "pass"

(* evaluateRequirement.  A rule that cannot be parsed, or is recorded under*)
(* another type, is [readable |-> FALSE].                                  *)
ProfileIndependent == {"document_required", "portfolio", "interview"}

EvaluateRequirement(rule, profile, vault, now) ==
    CASE ~rule.readable -> "unknown"
      [] rule.readable /\ profile = None /\ rule.ruleType \notin ProfileIndependent -> "missing_data"
      [] OTHER ->
         CASE rule.ruleType = "document_required" -> DocumentRequired(rule, vault)
           [] rule.ruleType \in {"portfolio", "interview"} -> "unknown"
           [] rule.ruleType = "academic_qualification" -> AcademicQualification(rule, profile)
           [] rule.ruleType = "gpa_minimum" -> GpaMinimum(rule, profile)
           [] rule.ruleType = "english_language" -> EnglishLanguage(rule, profile, now)
           [] rule.ruleType = "work_experience" -> WorkExperience(rule, profile)
           [] rule.ruleType = "age_minimum" -> AgeMinimum(rule, profile, now)
           [] rule.ruleType = "nationality_restriction" -> NationalityRestriction(rule, profile)

(* rollUpVerdict, of a sequence of outcomes.                               *)
RollUpVerdict(outcomes) ==
    LET Some(o) == \E i \in DOMAIN outcomes: outcomes[i] = o
    IN  CASE outcomes = <<>> -> "not_assessable"
          [] Some("fail") -> "not_eligible"
          [] ~Some("fail") /\ Some("missing_data") -> "incomplete"
          [] OTHER -> IF outcomes = <<>> \/ Some("unknown") THEN "not_assessable" ELSE "eligible"
===============================================================================
