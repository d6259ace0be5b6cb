------------------------------- MODULE Imports -------------------------------
(***************************************************************************)
(* The bulk import of a catalogue file (IngestionService, import-diff).  A *)
(* dry run compares the rows of a file with the programmes there are and   *)
(* stores what would change; a commit applies the stored rows one by one,  *)
(* outside of any transaction, and marks the import committed at the end.  *)
(***************************************************************************)
EXTENDS Integers, Sequences, FiniteSets

CONSTANTS
    Callers,        \* commits that can be in progress at once
    Refs,           \* keys the partner gives its programmes
    Names, Levels, Fees,               \* what a row can say
    FileName,       \* name of the uploaded file
    None,           \* a column that is empty
    Files,          \* files that are uploaded: sequences of rows
    Known,          \* programmes there are at first
    MaxImports, MaxProgrammes          \* bounds

VARIABLES
    programmes,     \* current versions of the institution's programmes
    imports,        \* catalogue_imports
    calls,
    again           \* imports whose commit was begun more than once (history)

vars == <<programmes, imports, calls, again>>

(* What a commit applies when it updates a programme, and what a diff can  *)
(* show a reviewer: level stands for duration too, tuition for the dates.  *)
Column == {"name", "level", "tuition"}
Values == Names \cup Levels \cup Fees \cup {None}
Columns == [name: Names, level: Levels, tuition: Fees \cup {None}]

(* sourceRef: a key, stored with or without `import:` before it.  source:  *)
(* the import and row that created it (history).                           *)
Programme == [ref: Refs \cup {FileName}, prefixed: BOOLEAN, columns: Columns,
              status: {"in_review", "published"}, source: (0..MaxImports) \X (0..3)]

(* A row of a file; valid: it passes validateRow.                          *)
FileRow == [ref: Refs, valid: BOOLEAN, columns: Columns]

ChangeKind == {"create", "update", "unchanged", "error"}
RowDiff == [ref: Refs, kind: ChangeKind, changes: UNION {[D -> Values]: D \in SUBSET Column}]
Import == [state: {"dry_run", "committed"}, rows: Seq(RowDiff)]

Call == [step: {"idle", "rows"}, import: 0..MaxImports, row: 0..4]
NoCall == [step |-> "idle", import |-> 0, row |-> 0]

ImportsAssumption ==
    /\ {MaxImports, MaxProgrammes} \subseteq Nat /\ MaxImports > 0 /\ None \notin Refs
    /\ Files \subseteq Seq(FileRow) /\ Known \in Seq(Programme)
    /\ \A p \in DOMAIN Known: Known[p].source = <<0, 0>>

TypeOK ==
    /\ programmes \in Seq(Programme)
    /\ imports \in Seq(Import)
    /\ calls \in [Callers -> Call]
    /\ again \subseteq 1..MaxImports

Init ==
    /\ programmes = Known /\ imports = <<>>
    /\ calls = [c \in Callers |-> NoCall] /\ again = {}

(***************************************************************************)
(* The diff                                                                *)
(***************************************************************************)

(* A programme is known by its sourceRef without the prefix; of two with   *)
(* the same key the later one is compared with.                            *)
Matches(ref) == {p \in DOMAIN programmes: programmes[p].ref = ref}
Existing(ref) == CHOOSE p \in Matches(ref): \A q \in Matches(ref): q <= p

NeverSeen(file, i) == FALSE
SeenBefore(file, i) == \E j \in 1..(i - 1): file[j].ref = file[i].ref

ChangesForNew(row) == row.columns
ChangesForUpdate(row, current) ==
    [k \in {k \in Column: current.columns[k] # row.columns[k]} |-> row.columns[k]]

DiffRow(file, i) ==
    LET row == file[i]
        error == ~row.valid \/ SeenBefore(file, i)
        new == Matches(row.ref) = {}
        changes == IF error THEN <<>> ELSE IF new THEN ChangesForNew(row)
                   ELSE ChangesForUpdate(row, programmes[Existing(row.ref)]) IN
    [ref |-> row.ref, changes |-> changes,
     kind |-> IF error THEN "error" ELSE IF new THEN "create"
              ELSE IF DOMAIN changes = {} THEN "unchanged" ELSE "update"]

BuildImportDiff(file) == [i \in DOMAIN file |-> DiffRow(file, i)]

DryRun(file) ==
    /\ Len(imports) < MaxImports
    /\ imports' = Append(imports, [state |-> "dry_run", rows |-> BuildImportDiff(file)])
    /\ UNCHANGED <<programmes, calls, again>>

(***************************************************************************)
(* The commit                                                              *)
(***************************************************************************)

Anytime(import) == TRUE
Reviewable(import) == import.state = "dry_run"

CommitRead(c, n) ==
    /\ calls[c] = NoCall /\ Reviewable(imports[n])
    /\ again' = IF \/ \E d \in Callers: calls[d].import = n
                   \/ \E p \in DOMAIN programmes: programmes[p].source[1] = n
                THEN again \cup {n} ELSE again
    /\ calls' = [calls EXCEPT ![c] = [step |-> "rows", import |-> n, row |-> 1]]
    /\ UNCHANGED <<programmes, imports>>

(* Whatever the file says of it, a new programme gets the file's name as   *)
(* its key, no tuition, and waits for review.                              *)
Given(diff, k) == IF k \in DOMAIN diff.changes THEN diff.changes[k] ELSE None
Created(diff, n, i) ==
    Append(programmes, [ref |-> FileName, prefixed |-> TRUE, status |-> "in_review", source |-> <<n, i>>,
                        columns |-> [name |-> Given(diff, "name"), level |-> Given(diff, "level"),
                                     tuition |-> None]])

Found(diff) == {p \in DOMAIN programmes: programmes[p].ref = diff.ref /\ programmes[p].prefixed}

(* Of the changes that were shown, the name is written (as the field and   *)
(* the description are), on the version that is current.                   *)
Updated(diff) ==
    LET target == CHOOSE p \in Found(diff): \A q \in Found(diff): p <= q IN
    IF Found(diff) = {} \/ "name" \notin DOMAIN diff.changes THEN programmes
    ELSE [programmes EXCEPT ![target].columns.name = diff.changes["name"]]

EveryRow(diff) == {"create", "update", "error"}
Applicable(diff) == {"create", "update"}

CommitRow(c) ==
    LET n == calls[c].import
        i == calls[c].row
        diff == imports[n].rows[i] IN
    /\ calls[c].step = "rows" /\ i \in DOMAIN imports[n].rows
    /\ Len(programmes) < MaxProgrammes
    /\ programmes' = IF diff.kind \notin Applicable(diff) THEN programmes
                     ELSE IF diff.kind = "update" THEN Updated(diff) ELSE Created(diff, n, i)
    /\ calls' = [calls EXCEPT ![c].row = i + 1]
    /\ UNCHANGED <<imports, again>>

CommitEnd(c) ==
    LET n == calls[c].import IN
    /\ calls[c].step = "rows" /\ calls[c].row \notin DOMAIN imports[n].rows
    /\ imports' = [imports EXCEPT ![n].state = "committed"]
    /\ calls' = [calls EXCEPT ![c] = NoCall]
    /\ UNCHANGED <<programmes, again>>

(* A write fails or the process dies: the rows applied so far stay, and    *)
(* the import can be committed again.                                      *)
CommitDies(c) ==
    /\ calls[c].step = "rows"
    /\ calls' = [calls EXCEPT ![c] = NoCall]
    /\ UNCHANGED <<programmes, imports, again>>

(* publishProgram, of a programme that was reviewed.                       *)
Publish(p) ==
    /\ programmes[p].status = "in_review"
    /\ programmes' = [programmes EXCEPT ![p].status = "published"]
    /\ UNCHANGED <<imports, calls, again>>

Next ==
    \/ \E file \in Files: DryRun(file)
    \/ \E c \in Callers:
        \/ \E n \in DOMAIN imports: CommitRead(c, n)
        \/ CommitRow(c) \/ CommitEnd(c) \/ CommitDies(c)
    \/ \E p \in DOMAIN programmes: Publish(p)

Spec == Init /\ [][Next]_vars

(***************************************************************************)
(* Properties                                                              *)
(***************************************************************************)

Made(n, i) == {p \in DOMAIN programmes: programmes[p].source = <<n, i>>}
Committing(n) == \E c \in Callers: calls[c].import = n

(* "A duplicate key in one file is an error, not a last-writer-wins        *)
(* merge": no two rows that a commit applies have the same key.            *)
KeysAreApart ==
    \A n \in DOMAIN imports: \A i, j \in DOMAIN imports[n].rows:
        /\ i # j /\ imports[n].rows[i].kind # "error" /\ imports[n].rows[j].kind # "error"
        => imports[n].rows[i].ref # imports[n].rows[j].ref

(* "A reviewer approves what they were shown, or nothing happens": a       *)
(* committed import has made the programmes of the rows that were shown as *)
(* new, one each, and none of any other row, unless its commit was begun   *)
(* again over a first one.                                                 *)
MadeAsReviewed ==
    \A n \in DOMAIN imports: \A i \in DOMAIN imports[n].rows:
        LET made == Cardinality(Made(n, i)) IN
        /\ imports[n].rows[i].kind # "create" => made = 0
        /\ made <= 1
        /\ imports[n].state = "committed" /\ imports[n].rows[i].kind = "create" => made = 1
MadeAsReviewedUnlessAgain ==
    \A n \in DOMAIN imports \ again: \A i \in DOMAIN imports[n].rows:
        LET made == Cardinality(Made(n, i)) IN
        /\ imports[n].rows[i].kind # "create" => made = 0
        /\ made <= 1
        /\ imports[n].state = "committed" /\ imports[n].rows[i].kind = "create" => made = 1

(* A commit applies exactly the diff the reviewer was shown: the tuition   *)
(* of a new programme too.  It is not written.                             *)
ShownIsWritten ==
    \A n \in DOMAIN imports: \A i \in DOMAIN imports[n].rows: \A p \in Made(n, i):
        programmes[p].columns = imports[n].rows[i].changes

(* "The import key is the source's own reference": a file that was         *)
(* committed finds its own programmes when it is imported once more.       *)
OwnRowsAreFound ==
    \A n \in DOMAIN imports: imports[n].state = "committed" =>
        \A i \in DOMAIN imports[n].rows:
            imports[n].rows[i].kind = "create" => Matches(imports[n].rows[i].ref) # {}

(* "It does not overwrite history": a published version keeps its name.    *)
PublishedIsKept ==
    [][\A p \in DOMAIN programmes: programmes[p].status = "published" =>
          programmes'[p].columns = programmes[p].columns]_programmes
=============================================================================
