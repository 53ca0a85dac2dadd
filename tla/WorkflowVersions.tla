--------------------------- MODULE WorkflowVersions ---------------------------
(***************************************************************************)
(* Versions of workflow definitions and their lifecycle.  Every operation  *)
(* is one transaction that reads the definition, then its row of the       *)
(* version history, and writes at COMMIT: nothing is locked in between, so *)
(* operations overlap, and the history is a second copy of the number and  *)
(* the status that each of them, listing included, brings up to date.      *)
(*                                                                         *)
(* SQLAlchemy writes an attribute only when it differs from what was       *)
(* loaded.  A refused request changes nothing.                             *)
(***************************************************************************)
EXTENDS Integers, FiniteSets

CONSTANTS
    Definitions,    \* workflow_definition_ids
    Contents,       \* what the graph, name and rules of a definition may be
    Requests,       \* API requests, each one operation after another
    MaxOperations   \* bound on the operations begun

ASSUME VersionsAssumption ==
    /\ "none" \notin Definitions /\ "none" \notin Contents
    /\ MaxOperations \in Nat

VARIABLES
    definition,     \* rows of workflow_definitions
    version,        \* rows of workflow_definition_versions, by definition
    request,        \* what each request has read and is about to write
    operations,     \* operations begun
    overlapped,     \* requests whose definition changed status after they read it
    torn            \* definitions a request read in two different statuses

vars == <<definition, version, request, operations, overlapped, torn>>

WORKFLOW_LIFECYCLE_TRANSITIONS ==
    [DRAFT     |-> {"IN_REVIEW", "ARCHIVED"},
     IN_REVIEW |-> {"CERTIFIED", "DRAFT", "ARCHIVED"},
     CERTIFIED |-> {"PACKAGED", "ARCHIVED"},
     PACKAGED  |-> {"DEPLOYED", "ARCHIVED"},
     DEPLOYED  |-> {"ACTIVE", "ARCHIVED"},
     ACTIVE    |-> {"RETIRED"},
     RETIRED   |-> {"ARCHIVED"},
     ARCHIVED  |-> {}]

Statuses == DOMAIN WORKFLOW_LIFECYCLE_TRANSITIONS

WORKFLOW_LOCKED_LIFECYCLE_STATUSES ==
    {"CERTIFIED", "PACKAGED", "DEPLOYED", "ACTIVE", "RETIRED", "ARCHIVED"}

Definition == [root: Definitions, number: Nat, source: Definitions \cup {"none"},
               status: Statuses, locked: BOOLEAN, content: Contents]
NoDefinition == [root |-> "none", number |-> 0, source |-> "none", status |-> "none",
                 locked |-> FALSE, content |-> "none"]

Version == [root: Definitions, number: Nat, status: Statuses]
NoVersion == [root |-> "none", number |-> 0, status |-> "none"]

Kinds == {"edit", "transition", "version", "list"}

\* id is the definition read, arg what the request asks for: the content, the
\* target status or the id of the new version.
Idle == [pc |-> "idle", kind |-> "list", id |-> "none", arg |-> "none",
         row |-> NoDefinition, history |-> NoVersion, next |-> 0]

RequestState ==
    [pc: {"read", "ready"}, kind: Kinds, id: Definitions,
     arg: Contents \cup Statuses \cup Definitions \cup {"none"},
     row: Definition \cup {NoDefinition}, history: Version \cup {NoVersion}, next: Nat]

TypeOK ==
    /\ definition \in [Definitions -> Definition \cup {NoDefinition}]
    /\ version \in [Definitions -> Version \cup {NoVersion}]
    /\ request \in [Requests -> RequestState \cup {Idle}]
    /\ operations \in Nat
    /\ overlapped \subseteq Requests
    /\ torn \subseteq Definitions

Exists(d) == definition[d] # NoDefinition

FirstVersion(d, c) ==
    [root |-> d, number |-> 1, source |-> "none", status |-> "DRAFT",
     locked |-> FALSE, content |-> c]

\* The row of the history that says what a definition says.
HistoryOf(row) == [root |-> row.root, number |-> row.number, status |-> row.status]

\* The migration gave every definition there was number 1 and a row of history.
Init ==
    /\ \E D \in SUBSET Definitions, c \in Contents :
          definition = [d \in Definitions |-> IF d \in D THEN FirstVersion(d, c)
                                              ELSE NoDefinition]
    /\ version = [d \in Definitions |-> IF Exists(d) THEN HistoryOf(definition[d])
                                        ELSE NoVersion]
    /\ request = [q \in Requests |-> Idle]
    /\ operations = 0
    /\ overlapped = {} /\ torn = {}

-----------------------------------------------------------------------------
\* Reading

\* Faulty: only a certified definition refuses edits.
EditableUnlessCertified(row) == row.status # "CERTIFIED"

Editable(row) ==
    ~row.locked /\ row.status \notin WORKFLOW_LOCKED_LIFECYCLE_STATUSES

Allowed(row, target) == target \in WORKFLOW_LIFECYCLE_TRANSITIONS[row.status]

\* What an operation demands of the row it reads.
Accepted(kind, row, arg) ==
    CASE kind = "edit"       -> row = NoDefinition \/ Editable(row)
      [] kind = "transition" -> row # NoDefinition /\ Allowed(row, arg)
      [] OTHER               -> row # NoDefinition

\* The first statement of each operation.
ReadDefinition(q, kind, d, arg) ==
    /\ request[q] = Idle /\ operations < MaxOperations
    /\ Accepted(kind, definition[d], arg)
    /\ request' = [request EXCEPT ![q] =
          [Idle EXCEPT !.pc = "read", !.kind = kind, !.id = d, !.arg = arg,
                       !.row = definition[d]]]
    /\ operations' = operations + 1
    /\ UNCHANGED <<definition, version, overlapped, torn>>

VersionsOf(root) == {d \in Definitions : Exists(d) /\ definition[d].root = root}

NextVersionNumber(root) ==
    (CHOOSE n \in {definition[d].number : d \in VersionsOf(root)} :
        \A d \in VersionsOf(root) : definition[d].number <= n) + 1

\* _ensure_workflow_lineage reads the history; a new version also looks whether
\* its id is free and takes the next number.
ReadHistory(q) ==
    LET r == request[q] IN
    /\ r.pc = "read"
    /\ r.kind = "version" => ~Exists(r.arg)
    /\ request' = [request EXCEPT ![q] =
          [r EXCEPT !.pc = "ready",
                    !.history = IF r.row = NoDefinition THEN NoVersion ELSE version[r.id],
                    !.next = IF r.kind = "version" THEN NextVersionNumber(r.row.root)
                             ELSE 0]]
    /\ torn' = IF r.row # NoDefinition /\ version[r.id].status # r.row.status
               THEN torn \cup {r.id} ELSE torn
    /\ UNCHANGED <<definition, version, operations, overlapped>>

\* The id is taken: the transaction is rolled back.
RefuseVersion(q) ==
    LET r == request[q] IN
    /\ r.pc = "read" /\ r.kind = "version" /\ Exists(r.arg)
    /\ request' = [request EXCEPT ![q] = Idle]
    /\ overlapped' = overlapped \ {q}
    /\ UNCHANGED <<definition, version, operations, torn>>

-----------------------------------------------------------------------------
\* Writing

\* Faulty: no unique index on the number.
UniqueDefinitionOnly(d, root, number) == version[d] = NoVersion

\* The unique indexes on (root, number) and on the definition.
Unique(d, root, number) ==
    /\ version[d] = NoVersion
    /\ \A e \in Definitions \ {d} : ~(version[e].root = root /\ version[e].number = number)

\* Faulty: the history is not written.
SyncedOnce(r, status) == version[r.id]

\* _sync_workflow_definition_version, once for what was read and once for what is
\* written: the history an operation leaves behind that gives this status.
Synced(r, status) ==
    IF r.history.status = status /\ r.row.status = status THEN version[r.id]
    ELSE [version[r.id] EXCEPT !.status = status]

Done(q) ==
    /\ request' = [request EXCEPT ![q] = Idle]
    /\ UNCHANGED <<operations, torn>>

\* Whoever has read d has now read a status it no longer has.
Passing(q, d) ==
    overlapped' = (overlapped \cup {p \in Requests : request[p].id = d}) \ {q}

CommitEdit(q) ==
    LET r == request[q] IN
    /\ r.pc = "ready" /\ r.kind = "edit" /\ r.row # NoDefinition
    /\ definition' = [definition EXCEPT ![r.id].content =
          IF r.arg = r.row.content THEN @ ELSE r.arg]
    /\ version' = [version EXCEPT ![r.id] = Synced(r, r.row.status)]
    /\ overlapped' = overlapped \ {q}
    /\ Done(q)

\* The same request when the id is new.
CommitFirst(q) ==
    LET r == request[q] IN
    /\ r.pc = "ready" /\ r.kind = "edit" /\ r.row = NoDefinition
    /\ IF ~Exists(r.id) /\ Unique(r.id, r.id, 1)
       THEN /\ definition' = [definition EXCEPT ![r.id] = FirstVersion(r.id, r.arg)]
            /\ version' = [version EXCEPT ![r.id] = HistoryOf(FirstVersion(r.id, r.arg))]
       ELSE UNCHANGED <<definition, version>>
    /\ overlapped' = overlapped \ {q}
    /\ Done(q)

NewVersion(r) ==
    [root |-> r.row.root, number |-> r.next, source |-> r.id, status |-> "DRAFT",
     locked |-> FALSE, content |-> r.row.content]

CommitVersion(q) ==
    LET r == request[q]
        new == NewVersion(r) IN
    /\ r.pc = "ready" /\ r.kind = "version"
    /\ IF ~Exists(r.arg) /\ Unique(r.arg, new.root, new.number)
       THEN /\ definition' = [definition EXCEPT ![r.arg] = new]
            /\ version' = [version EXCEPT ![r.arg] = HistoryOf(new),
                                          ![r.id] = Synced(r, r.row.status)]
       ELSE UNCHANGED <<definition, version>>
    /\ overlapped' = overlapped \ {q}
    /\ Done(q)

CommitTransition(q) ==
    LET r == request[q] IN
    /\ r.pc = "ready" /\ r.kind = "transition"
    /\ definition' = [definition EXCEPT ![r.id].status = r.arg,
          ![r.id].locked = @ \/ r.arg \in WORKFLOW_LOCKED_LIFECYCLE_STATUSES]
    /\ version' = [version EXCEPT ![r.id] = Synced(r, r.arg)]
    /\ Passing(q, r.id)
    /\ Done(q)

\* list_workflow_definition_versions, a GET that writes.
CommitList(q) ==
    LET r == request[q] IN
    /\ r.pc = "ready" /\ r.kind = "list"
    /\ version' = [version EXCEPT ![r.id] = Synced(r, r.row.status)]
    /\ overlapped' = overlapped \ {q}
    /\ UNCHANGED definition
    /\ Done(q)

Commit(q) ==
    CommitEdit(q) \/ CommitFirst(q) \/ CommitVersion(q) \/ CommitTransition(q) \/ CommitList(q)

Begin(q) ==
    \E d \in Definitions :
        \/ \E c \in Contents : ReadDefinition(q, "edit", d, c)
        \/ \E s \in Statuses : ReadDefinition(q, "transition", d, s)
        \/ \E e \in Definitions : ReadDefinition(q, "version", d, e)
        \/ ReadDefinition(q, "list", d, "none")

Next == \E q \in Requests : Begin(q) \/ ReadHistory(q) \/ RefuseVersion(q) \/ Commit(q)

Spec == Init /\ [][Next]_vars

-----------------------------------------------------------------------------
\* Properties

\* The versions of one workflow are numbered 1, 2, 3 ... without a gap and
\* without a number used twice, however many requests took the same next number.
NumbersAreConsecutive ==
    \A root \in Definitions :
        {definition[d].number : d \in VersionsOf(root)} = 1 .. Cardinality(VersionsOf(root))

\* A version descends from an older one of the same workflow.
DescendsFromOlder ==
    \A d \in Definitions :
        definition[d].source # "none" =>
            /\ definition[definition[d].source].root = definition[d].root
            /\ definition[definition[d].source].number < definition[d].number

\* Whoever wins a race between two transitions, a definition past review
\* carries the lock that keeps it from being edited.
PastReviewIsLocked ==
    \A d \in Definitions :
        definition[d].status \notin {"none", "DRAFT", "IN_REVIEW"} => definition[d].locked

\* The history shows the status a definition has, unless some request read the
\* two on different sides of a transition and wrote back what it had read first.
HistoryIsTrue ==
    \A d \in Definitions : d \in torn \/ version[d].status = definition[d].status

\* A lock is never lifted, and under it nothing changes but by an edit that read
\* the definition before it was locked.
FrozenOnceLocked ==
    [][\A d \in Definitions : definition[d].locked =>
          /\ definition'[d].locked
          /\ \/ definition'[d].content = definition[d].content
             \/ \E q \in overlapped : request[q].id = d /\ request'[q] = Idle]_vars

\* A status moves along the table, unless two transitions overlapped.
MovesAlongTable ==
    [][\A d \in Definitions : Exists(d) =>
          \/ definition'[d].status = definition[d].status
          \/ definition'[d].status \in WORKFLOW_LIFECYCLE_TRANSITIONS[definition[d].status]
          \/ \E q \in overlapped : request[q].id = d /\ request'[q] = Idle]_vars

\* The definitions and their history form one line of versions per workflow, and
\* what is past review is locked (create_workflow_definition_version,
\* transition_workflow_definition).
VersionInvariant ==
    /\ TypeOK
    /\ NumbersAreConsecutive
    /\ DescendsFromOlder
    /\ PastReviewIsLocked

\* A definition changes by the rules: frozen once it is locked, and along the table.
ChangesByTheRules == FrozenOnceLocked /\ MovesAlongTable
=============================================================================
