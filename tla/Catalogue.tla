------------------------------ MODULE Catalogue ------------------------------
(***************************************************************************)
(* One programme of the catalogue (CatalogueService), its effective-dated  *)
(* versions, the sweep that hides what nobody vouches for any more         *)
(* (FreshnessService), the revocation of the partnership it is published   *)
(* under, and the search document that follows it all (IndexerService).    *)
(* Every handler reads the current version, writes later, and enqueues a   *)
(* reindex after that; rebuilds run four at a time.                        *)
(***************************************************************************)
EXTENDS Integers, FiniteSets

CONSTANTS
    Callers,        \* requests and sweeps that can be in progress at once
    Workers,        \* rebuilds that can be in progress at once
    Requirements,   \* entry requirements that are added
    None,           \* no fees, no open version, no search document
    Sla,            \* FRESHNESS_SLA_HOURS of "program", "fee" and "intake"
    Deadlines,      \* deadlines of the intakes that are added
    Mixes,          \* bound: sets of handlers called in one behaviour
    MaxVersions, MaxJobs, MaxTime      \* bounds

CatalogueAssumption ==
    /\ {MaxVersions, MaxJobs, MaxTime} \subseteq Nat /\ MaxVersions > 0 /\ MaxJobs > 0
    /\ None \notin Nat
    /\ Sla \in [{"program", "fee", "intake"} -> Nat]
    /\ Deadlines \subseteq Nat

VARIABLES
    rows,           \* the versions of the programme, by number
    intakes,        \* intakes, which hang off the programme's stable key
    partnership,    \* the institution's partnership
    index,          \* the search document
    jobs,           \* reindex jobs that wait
    builds,         \* what each rebuild in progress has read
    calls, mix, now,
    torn            \* what went wrong on the way to the index (history)

vars == <<rows, intakes, partnership, index, jobs, builds, calls, mix, now, torn>>

Operation == {"edit", "publish", "unpublish", "require", "fees", "intake", "sweep", "revoke",
              "rebuild", "crash"}
Step == {"idle", "edit", "copy", "publish", "unpublish", "require", "fees", "look", "mark", "enqueue"}
Status == {"draft", "in_review", "published", "unpublished"}
Field == {"description", "tuitionFee", "applicationDeadline"}
Blocking == {"tuitionFee", "applicationDeadline"}
Time == 0..MaxTime
Versions == 1..MaxVersions

(* to: None means "current"; fees: when the fees were set.                 *)
Row == [from: Time, to: Time \cup {None}, status: Status, stale: SUBSET Field, source: Time,
        fees: Time \cup {None}, requirements: SUBSET Requirements]
Intake == [source: Time, deadline: Deadlines]

Document == [version: Versions, fees: Time \cup {None}, stale: SUBSET Field]

(* A rebuild in progress and the document it will write; None: it removes. *)
Build == [busy: BOOLEAN, document: Document \cup {None}]
NoBuild == [busy |-> FALSE, document |-> None]

(* A call in progress: when it began, the version it read and what was     *)
(* there, and the fields it found stale or the requirement it adds.        *)
Call == [step: Step, began: Time, version: Versions, row: Row, found: SUBSET Field,
         adds: SUBSET Requirements]

TypeOK ==
    /\ DOMAIN rows \subseteq Versions /\ rows \in [DOMAIN rows -> Row]
    /\ intakes \subseteq Intake
    /\ partnership \in {"active", "revoked"}
    /\ index \in Document \cup {None}
    /\ jobs \in 0..MaxJobs
    /\ builds \in [Workers -> Build]
    /\ calls \in [Callers -> Call]
    /\ mix \in Mixes /\ now \in Time
    /\ torn \subseteq {"died", "raced", "revoked", "copied", "late"}

(* createProgram, of an institution whose partnership is active.           *)
FirstRow == [from |-> 0, to |-> None, status |-> "draft", stale |-> {}, source |-> 0, fees |-> None,
             requirements |-> {}]
NoCall == [step |-> "idle", began |-> 0, version |-> 1, row |-> FirstRow, found |-> {}, adds |-> {}]

Init ==
    /\ rows = [v \in {1} |-> FirstRow] /\ intakes = {}
    /\ partnership = "active" /\ index = None /\ jobs = 0
    /\ builds = [w \in Workers |-> NoBuild]
    /\ calls = [c \in Callers |-> NoCall]
    /\ mix \in Mixes /\ now = 0 /\ torn = {}

At(c, step) == calls[c].step = step
Begin(c, op) == At(c, "idle") /\ op \in mix
Hold(c, call) == calls' = [calls EXCEPT ![c] = call]
Goto(c, step) == calls' = [calls EXCEPT ![c].step = step]
End(c) == Hold(c, NoCall)

Open == {v \in DOMAIN rows: rows[v].to = None}
Current == CHOOSE v \in Open: TRUE
Reading(step) == [NoCall EXCEPT !.step = step, !.began = now, !.version = Current, !.row = rows[Current]]

(* A handler that found the row as another one left it in the meantime.    *)
Raced(c) == IF rows[calls[c].version] # calls[c].row THEN torn \cup {"raced"} ELSE torn

(***************************************************************************)
(* The search document                                                     *)
(***************************************************************************)

PublicVisibility(stale) ==
    IF stale \cap Blocking # {} THEN "hidden"
    ELSE IF stale # {} THEN "visible_with_warning" ELSE "visible"

Visible(row) == row.status = "published" /\ PublicVisibility(row.stale) # "hidden"

(* The document of the current version; an invisible programme has none.   *)
Projection ==
    IF Open = {} \/ ~Visible(rows[Current]) THEN None
    ELSE [version |-> Current, fees |-> rows[Current].fees, stale |-> rows[Current].stale]

NeverReindex(c) == End(c) /\ UNCHANGED jobs
Reindex(c) == End(c) /\ jobs' = IF jobs < MaxJobs THEN jobs + 1 ELSE jobs

Enqueue(c) ==
    /\ At(c, "enqueue") /\ Reindex(c)
    /\ UNCHANGED <<rows, intakes, partnership, index, builds, mix, now, torn>>

ReindexRead(w) ==
    /\ "rebuild" \in mix /\ jobs > 0 /\ ~builds[w].busy
    /\ jobs' = jobs - 1
    /\ builds' = [builds EXCEPT ![w] = [busy |-> TRUE, document |-> Projection]]
    /\ UNCHANGED <<rows, intakes, partnership, index, calls, mix, now, torn>>

(* Replaced wholesale, or removed.                                         *)
ReindexWrite(w) ==
    /\ builds[w].busy
    /\ index' = builds[w].document
    /\ torn' = IF index' # Projection THEN torn \cup {"late"} ELSE torn
    /\ builds' = [builds EXCEPT ![w] = NoBuild]
    /\ UNCHANGED <<rows, intakes, partnership, jobs, calls, mix, now>>

(***************************************************************************)
(* Editing                                                                 *)
(***************************************************************************)

EditRead(c) ==
    /\ Begin(c, "edit") /\ Open # {}
    /\ Hold(c, Reading("edit"))
    /\ UNCHANGED <<rows, intakes, partnership, index, jobs, builds, mix, now, torn>>

(* [programKey, version] is unique: of two edits of a version one fails,   *)
(* and what it closed is rolled back with it.                              *)
NoUniqueNumber(v) == v \in Versions
NumberIsFree(v) == v \notin DOMAIN rows

(* supersede: the new version opens when the old one closes, and carries   *)
(* what was read of it; its requirements are copied afterwards.            *)
Superseded(c) ==
    [calls[c].row EXCEPT !.from = calls[c].began, !.to = None, !.source = calls[c].began,
                         !.fees = None, !.requirements = {}]
EditWrite(c) ==
    LET old == calls[c].version
        next == old + 1 IN
    /\ At(c, "edit") /\ next \in Versions /\ NumberIsFree(next)
    /\ rows' = [v \in DOMAIN rows \cup {next} |->
                   IF v = old THEN [rows[v] EXCEPT !.to = calls[c].began]
                   ELSE IF v = next THEN Superseded(c) ELSE rows[v]]
    /\ torn' = Raced(c)
    /\ Goto(c, "copy")
    /\ UNCHANGED <<intakes, partnership, index, jobs, builds, mix, now>>

EditRefused(c) ==
    /\ At(c, "edit") /\ ~NumberIsFree(calls[c].version + 1)
    /\ End(c)
    /\ UNCHANGED <<rows, intakes, partnership, index, jobs, builds, mix, now, torn>>

CopyNothing(c, row) == row
Copied(c, row) == [row EXCEPT !.requirements = @ \cup rows[calls[c].version].requirements]
CopyRequirements(c) ==
    LET old == calls[c].version IN
    /\ At(c, "copy")
    /\ rows' = [rows EXCEPT ![old + 1] = Copied(c, @)]
    /\ torn' = IF rows[old + 1].to # None THEN torn \cup {"copied"} ELSE torn
    /\ Goto(c, "enqueue")
    /\ UNCHANGED <<intakes, partnership, index, jobs, builds, mix, now>>

AddRequirementRead(c, r) ==
    /\ Begin(c, "require") /\ Open # {}
    /\ \A v \in DOMAIN rows: r \notin rows[v].requirements
    /\ Hold(c, [Reading("require") EXCEPT !.adds = {r}])
    /\ UNCHANGED <<rows, intakes, partnership, index, jobs, builds, mix, now, torn>>

AddRequirement(c) ==
    LET v == calls[c].version IN
    /\ At(c, "require")
    /\ rows' = [rows EXCEPT ![v].requirements = @ \cup calls[c].adds]
    /\ torn' = IF rows[v].to # None THEN torn \cup {"copied"} ELSE torn
    /\ Goto(c, "enqueue")
    /\ UNCHANGED <<intakes, partnership, index, jobs, builds, mix, now>>

SetFeesRead(c) ==
    /\ Begin(c, "fees") /\ Open # {}
    /\ Hold(c, Reading("fees"))
    /\ UNCHANGED <<rows, intakes, partnership, index, jobs, builds, mix, now, torn>>

(* A later row of fees is the one that is read: the newest source wins.    *)
SetFees(c) ==
    LET v == calls[c].version
        newer == rows[v].fees = None \/ rows[v].fees <= calls[c].began IN
    /\ At(c, "fees")
    /\ rows' = [rows EXCEPT ![v].fees = IF newer THEN calls[c].began ELSE @]
    /\ Goto(c, "enqueue")
    /\ UNCHANGED <<intakes, partnership, index, jobs, builds, mix, now, torn>>

AddIntake(c, deadline) ==
    /\ Begin(c, "intake") /\ Open # {}
    /\ intakes' = intakes \cup {[source |-> now, deadline |-> deadline]}
    /\ Hold(c, Reading("enqueue"))
    /\ UNCHANGED <<rows, partnership, index, jobs, builds, mix, now, torn>>

(***************************************************************************)
(* Publishing                                                              *)
(***************************************************************************)

AnyPartnership == TRUE
PartnershipIsActive == partnership = "active"
HasFutureIntake == \E i \in intakes: i.deadline > now
CanPublishProgram == PartnershipIsActive /\ HasFutureIntake

PublishRead(c) ==
    /\ Begin(c, "publish") /\ Open # {} /\ CanPublishProgram
    /\ Hold(c, Reading("publish"))
    /\ UNCHANGED <<rows, intakes, partnership, index, jobs, builds, mix, now, torn>>

PublishWrite(c) ==
    /\ At(c, "publish")
    /\ rows' = [rows EXCEPT ![calls[c].version].status = "published"]
    /\ torn' = IF PartnershipIsActive THEN Raced(c) ELSE Raced(c) \cup {"raced"}
    /\ Goto(c, "enqueue")
    /\ UNCHANGED <<intakes, partnership, index, jobs, builds, mix, now>>

UnpublishRead(c) ==
    /\ Begin(c, "unpublish") /\ Open # {}
    /\ Hold(c, Reading("unpublish"))
    /\ UNCHANGED <<rows, intakes, partnership, index, jobs, builds, mix, now, torn>>

UnpublishWrite(c) ==
    /\ At(c, "unpublish")
    /\ rows' = [rows EXCEPT ![calls[c].version].status = "unpublished"]
    /\ Goto(c, "enqueue")
    /\ UNCHANGED <<intakes, partnership, index, jobs, builds, mix, now, torn>>

(* revokePartnership: one transaction, and no reindex.                     *)
KeepPublished == rows
UnpublishedAll ==
    [v \in DOMAIN rows |-> IF rows[v].status = "published" /\ rows[v].to = None
                           THEN [rows[v] EXCEPT !.status = "unpublished"] ELSE rows[v]]
RevokePartnership ==
    /\ "revoke" \in mix /\ partnership = "active"
    /\ partnership' = "revoked"
    /\ rows' = UnpublishedAll
    /\ torn' = torn \cup {"revoked"}
    /\ UNCHANGED <<intakes, index, jobs, builds, calls, mix, now>>

(***************************************************************************)
(* The freshness sweep                                                     *)
(***************************************************************************)

IsStale(source, kind, at) == at - source > Sla[kind]

SweepRead(c) ==
    /\ Begin(c, "sweep") /\ Open # {}
    /\ rows[Current].status \in {"published", "in_review"}
    /\ Hold(c, Reading("look"))
    /\ UNCHANGED <<rows, intakes, partnership, index, jobs, builds, mix, now, torn>>

(* Any intake counts, one whose deadline has passed as well.               *)
StaleFields(c) ==
    LET v == calls[c].version
        at == calls[c].began IN
    {f \in Field:
       \/ f = "description" /\ IsStale(calls[c].row.source, "program", at)
       \/ f = "tuitionFee" /\ rows[v].fees # None /\ IsStale(rows[v].fees, "fee", at)
       \/ f = "applicationDeadline" /\ \E i \in intakes: IsStale(i.source, "intake", at)}

SweepLook(c) ==
    /\ At(c, "look")
    /\ IF StaleFields(c) = {} THEN End(c)
       ELSE Hold(c, [calls[c] EXCEPT !.step = "mark", !.found = StaleFields(c)])
    /\ UNCHANGED <<rows, intakes, partnership, index, jobs, builds, mix, now, torn>>

SweepMark(c) ==
    LET v == calls[c].version
        pulled == calls[c].found \cap Blocking # {} /\ calls[c].row.status = "published" IN
    /\ At(c, "mark")
    /\ rows' = [rows EXCEPT ![v].stale = calls[c].found,
                            ![v].status = IF pulled THEN "in_review" ELSE @]
    /\ Goto(c, "enqueue")
    /\ UNCHANGED <<intakes, partnership, index, jobs, builds, mix, now, torn>>

(***************************************************************************)
(* The world                                                               *)
(***************************************************************************)

(* The process dies, or a write of the handler fails.                      *)
Crash(c) ==
    /\ "crash" \in mix /\ ~At(c, "idle")
    /\ torn' = IF calls[c].step \in {"copy", "enqueue"} THEN torn \cup {"died"} ELSE torn
    /\ End(c)
    /\ UNCHANGED <<rows, intakes, partnership, index, jobs, builds, mix, now>>

Tick ==
    /\ now < MaxTime /\ now' = now + 1
    /\ UNCHANGED <<rows, intakes, partnership, index, jobs, builds, calls, mix, torn>>

Next ==
    \/ \E c \in Callers:
        \/ EditRead(c) \/ EditWrite(c) \/ EditRefused(c) \/ CopyRequirements(c)
        \/ \E r \in Requirements: AddRequirementRead(c, r)
        \/ AddRequirement(c) \/ SetFeesRead(c) \/ SetFees(c)
        \/ \E deadline \in Deadlines: AddIntake(c, deadline)
        \/ PublishRead(c) \/ PublishWrite(c) \/ UnpublishRead(c) \/ UnpublishWrite(c)
        \/ SweepRead(c) \/ SweepLook(c) \/ SweepMark(c) \/ Enqueue(c) \/ Crash(c)
    \/ \E w \in Workers: ReindexRead(w) \/ ReindexWrite(w)
    \/ RevokePartnership \/ Tick

Spec == Init /\ [][Next]_vars

(***************************************************************************)
(* Properties.  Those named Unless... exclude what their comment says;     *)
(* without that they do not hold of the code.                              *)
(***************************************************************************)

(* However edits overlap, exactly one version is open and each version was *)
(* closed at the moment the next one opened ("no gap in which a reader     *)
(* would find no current record, and no overlap in which two match").      *)
TimelineHolds ==
    /\ Cardinality(Open) = 1
    /\ \A v \in DOMAIN rows: v + 1 \in DOMAIN rows => rows[v].to = rows[v + 1].from

(* A requirement that was added is one of the current version, whatever    *)
(* edits came between, unless a handler died before it had copied them, or *)
(* the version was closed before they arrived (updateProgram,              *)
(* addRequirement).                                                        *)
Added == UNION {rows[v].requirements: v \in DOMAIN rows}
RequirementsSurvive ==
    (\A c \in Callers: ~At(c, "copy")) => Added \subseteq rows[Current].requirements
RequirementsSurviveUnlessTorn == torn \cap {"died", "copied"} = {} => RequirementsSurvive

(* "A revoked partnership must not leave live programmes visible", unless  *)
(* a publication or an edit had read it before.                            *)
RevokedIsPulled == partnership = "revoked" => rows[Current].status # "published"
RevokedIsPulledUnlessRaced == "raced" \notin torn => RevokedIsPulled

(* When nothing is in progress, search shows the programme as it is: every *)
(* handler that changes what is public sees to a reindex.  Not if one died *)
(* before it did, if an older rebuild wrote last, or after a revocation,   *)
(* which enqueues none.                                                    *)
Quiet == jobs = 0 /\ (\A w \in Workers: ~builds[w].busy) /\ (\A c \in Callers: At(c, "idle"))
IndexFollows == Quiet => index = Projection
IndexFollowsUnlessTorn == torn \cap {"died", "late", "revoked"} = {} => IndexFollows

(* "The moment the university confirms the figure, it publishes again":    *)
(* what is published with fresh fees and intakes is shown.                 *)
ConfirmedIsShown ==
    LET row == rows[Current] IN
    Quiet /\ torn = {} /\ row.status = "published"
        /\ (row.fees # None => ~IsStale(row.fees, "fee", now))
        /\ (\A i \in intakes: ~IsStale(i.source, "intake", now))
        => index # None
=============================================================================
