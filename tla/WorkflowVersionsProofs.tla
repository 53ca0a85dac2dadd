------------------------- MODULE WorkflowVersionsProofs -------------------------
(***************************************************************************)
(* The history of a workflow's versions is true, a definition changes by   *)
(* the rules and the versions of a workflow form one line, for any number  *)
(* of definitions, requests and operations.                                *)
(*                                                                         *)
(* The first argument is about what a request knows: what it read still    *)
(* holds unless a transition has passed it by (overlapped), and where the  *)
(* history it read differs from the definition it read, the definition is  *)
(* torn.  The second is about places: a definition never changes its root  *)
(* or its number, and the number a request took is at most the next one of *)
(* its line, so that the unique indexes let it in only if it still is.     *)
(***************************************************************************)
EXTENDS WorkflowVersions, TLAPS, FiniteSetTheorems

\* Rows are rows, and a definition that exists has a status of the table.
Shape ==
    /\ DOMAIN definition = Definitions /\ DOMAIN version = Definitions
    /\ DOMAIN request = Requests
    /\ \A d \in Definitions :
          /\ DOMAIN definition[d] = {"root", "number", "source", "status", "locked", "content"}
          /\ DOMAIN version[d] = {"root", "number", "status"}
          /\ definition[d] = NoDefinition \/ definition[d].status \in Statuses

\* What a request that is under way has read, and what it may rely on.
Knows(q) ==
    LET r == request[q] IN
    /\ DOMAIN r = {"pc", "kind", "id", "arg", "row", "history", "next"}
    /\ r.pc \in {"read", "ready"} /\ r.id \in Definitions
    /\ r.kind \in {"edit", "transition", "version", "list"}
    /\ r.row # NoDefinition =>
          /\ Exists(r.id) /\ r.row.status \in Statuses
          /\ q \notin overlapped =>
                /\ definition[r.id].status = r.row.status
                /\ definition[r.id].locked = r.row.locked
    /\ r.kind = "edit" => r.row = NoDefinition \/ Editable(r.row)
    /\ r.kind = "transition" => r.row # NoDefinition /\ Allowed(r.row, r.arg)
    /\ r.kind \in {"version", "list"} => r.row # NoDefinition
    /\ r.kind = "version" => r.arg \in Definitions
    /\ r.pc = "ready" /\ r.row # NoDefinition /\ r.history.status # r.row.status => r.id \in torn

Inv ==
    /\ Shape
    /\ \A q \in Requests : request[q] = Idle \/ Knows(q)
    /\ HistoryIsTrue

\* What a step of request q may do to the definitions.
ByTheRules(q) ==
    \A d \in Definitions :
        /\ definition[d].locked =>
              /\ definition'[d].locked
              /\ \/ definition'[d].content = definition[d].content
                 \/ q \in overlapped /\ request[q].id = d /\ request'[q] = Idle
        /\ Exists(d) =>
              \/ definition'[d].status = definition[d].status
              \/ definition'[d].status \in WORKFLOW_LIFECYCLE_TRANSITIONS[definition[d].status]
              \/ q \in overlapped /\ request[q].id = d /\ request'[q] = Idle

-----------------------------------------------------------------------------
\* The table

\* A transition leads to another status of the table
\* (WORKFLOW_LIFECYCLE_TRANSITIONS).
LEMMA TableIsClosed ==
    \A s \in Statuses : WORKFLOW_LIFECYCLE_TRANSITIONS[s] \subseteq Statuses \ {s}
  BY DEF Statuses, WORKFLOW_LIFECYCLE_TRANSITIONS

LEMMA NoneIsNoStatus == "none" \notin Statuses
  BY DEF Statuses, WORKFLOW_LIFECYCLE_TRANSITIONS

LEMMA RowsOfNothing ==
    /\ DOMAIN NoDefinition = {"root", "number", "source", "status", "locked", "content"}
    /\ NoDefinition.status = "none" /\ NoDefinition.locked = FALSE
    /\ DOMAIN NoVersion = {"root", "number", "status"} /\ NoVersion.status = "none"
  BY DEF NoDefinition, NoVersion

LEMMA FirstVersionRow ==
    ASSUME NEW d, NEW c
    PROVE  /\ DOMAIN FirstVersion(d, c) = {"root", "number", "source", "status", "locked", "content"}
           /\ FirstVersion(d, c).status = "DRAFT" /\ FirstVersion(d, c).locked = FALSE
           /\ FirstVersion(d, c).status \in Statuses
           /\ DOMAIN HistoryOf(FirstVersion(d, c)) = {"root", "number", "status"}
           /\ HistoryOf(FirstVersion(d, c)).status = "DRAFT"
  BY DEF FirstVersion, HistoryOf, Statuses, WORKFLOW_LIFECYCLE_TRANSITIONS

LEMMA NewVersionRow ==
    ASSUME NEW r
    PROVE  /\ DOMAIN NewVersion(r) = {"root", "number", "source", "status", "locked", "content"}
           /\ NewVersion(r).status = "DRAFT" /\ NewVersion(r).locked = FALSE
           /\ NewVersion(r).status \in Statuses
           /\ DOMAIN HistoryOf(NewVersion(r)) = {"root", "number", "status"}
           /\ HistoryOf(NewVersion(r)).status = "DRAFT"
  BY DEF NewVersion, HistoryOf, Statuses, WORKFLOW_LIFECYCLE_TRANSITIONS

\* What an operation that keeps the status leaves in the history: the status that
\* was there, or a torn one (_sync_workflow_definition_version).
LEMMA SyncedKeeps ==
    ASSUME Inv, NEW q \in Requests, Knows(q), request[q].pc = "ready",
           request[q].row # NoDefinition
    PROVE  LET r == request[q]
               s == Synced(r, r.row.status)
           IN  /\ DOMAIN s = {"root", "number", "status"}
               /\ r.id \in torn \/ s.status = version[r.id].status
<1> DEFINE r == request[q]
<1>1. r.id \in Definitions /\ DOMAIN version[r.id] = {"root", "number", "status"}
  BY DEF Inv, Shape, Knows
<1>2. r.history.status = r.row.status \/ r.id \in torn
  BY DEF Knows
<1> QED BY <1>1, <1>2 DEF Synced

-----------------------------------------------------------------------------
\* Requests that a step does not concern

\* A request knows what it knew when another one takes a step that keeps the
\* definitions there are, and keeps the status and the lock of the one it read or
\* passes it by.
LEMMA KnowsKept ==
    ASSUME Inv, Shape', NEW p \in Requests, Knows(p), request'[p] = request[p],
           torn \subseteq torn',
           Exists(request[p].id) => definition'[request[p].id] # NoDefinition,
           p \notin overlapped' =>
               /\ p \notin overlapped
               /\ Exists(request[p].id) =>
                     /\ definition'[request[p].id].status = definition[request[p].id].status
                     /\ definition'[request[p].id].locked = definition[request[p].id].locked
    PROVE  Knows(p)'
  BY DEF Knows, Exists

\* A request that ends leaves the others as they are.
LEMMA OthersEnd ==
    ASSUME Inv, NEW q \in Requests, Done(q)
    PROVE  /\ request'[q] = Idle /\ DOMAIN request' = Requests /\ torn' = torn
           /\ \A p \in Requests \ {q} : request'[p] = request[p]
  BY DEF Inv, Shape, Done

\* A step of q that ends it and keeps every definition's status and lock.
LEMMA QuietEnd ==
    ASSUME Inv, Shape', NEW q \in Requests, Done(q), overlapped' = overlapped \ {q},
           \A d \in Definitions : Exists(d) =>
              /\ definition'[d] # NoDefinition
              /\ definition'[d].status = definition[d].status
              /\ definition'[d].locked = definition[d].locked
    PROVE  \A p \in Requests : request'[p] = Idle \/ Knows(p)'
<1> SUFFICES ASSUME NEW p \in Requests PROVE request'[p] = Idle \/ Knows(p)'
  OBVIOUS
<1>1. CASE p = q
  BY <1>1, OthersEnd
<1>2. CASE p # q /\ request[p] = Idle
  BY <1>2, OthersEnd
<1>3. CASE p # q /\ Knows(p)
  <2>1. request'[p] = request[p] /\ torn' = torn /\ request[p].id \in Definitions
    BY <1>3, OthersEnd DEF Knows
  <2> QED BY <1>3, <2>1, KnowsKept
<1> QED BY <1>1, <1>2, <1>3 DEF Inv

-----------------------------------------------------------------------------
\* Reading

LEMMA ReadDefinitionStep ==
    ASSUME Inv, NEW q \in Requests, NEW kind \in {"edit", "transition", "version", "list"},
           NEW d \in Definitions, NEW arg, kind = "version" => arg \in Definitions,
           ReadDefinition(q, kind, d, arg)
    PROVE  Inv' /\ ByTheRules(q)
<1> DEFINE new == [Idle EXCEPT !.pc = "read", !.kind = kind, !.id = d, !.arg = arg,
                               !.row = definition[d]]
<1>1. /\ request' = [request EXCEPT ![q] = new]
      /\ definition' = definition /\ version' = version
      /\ overlapped' = overlapped /\ torn' = torn
      /\ Accepted(kind, definition[d], arg)
  BY DEF ReadDefinition
<1>2. /\ DOMAIN new = {"pc", "kind", "id", "arg", "row", "history", "next"}
      /\ new.pc = "read" /\ new.kind = kind /\ new.id = d /\ new.arg = arg
      /\ new.row = definition[d]
  BY DEF Idle
<1> HIDE DEF new
<1>3. request'[q] = new /\ \A p \in Requests \ {q} : request'[p] = request[p]
  BY <1>1 DEF Inv, Shape
<1>4. Shape'
  BY <1>1 DEF Inv, Shape
<1>5. Knows(q)'
  <2>1. /\ kind = "edit" => definition[d] = NoDefinition \/ Editable(definition[d])
        /\ kind = "transition" => definition[d] # NoDefinition /\ Allowed(definition[d], arg)
        /\ kind \in {"version", "list"} => definition[d] # NoDefinition
    BY <1>1 DEF Accepted
  <2>2. definition[d] # NoDefinition => definition[d].status \in Statuses
    BY DEF Inv, Shape
  <2> QED BY <1>1, <1>2, <1>3, <2>1, <2>2 DEF Knows, Exists
<1>6. ASSUME NEW p \in Requests, p # q PROVE request'[p] = Idle \/ Knows(p)'
  <2>1. request'[p] = request[p]
    BY <1>3, <1>6
  <2>2. CASE Knows(p)
    BY <1>1, <1>4, <2>1, <2>2, KnowsKept DEF Exists
  <2> QED BY <2>1, <2>2 DEF Inv
<1>7. HistoryIsTrue'
  BY <1>1 DEF Inv, HistoryIsTrue
<1>8. ByTheRules(q)
  BY <1>1 DEF ByTheRules
<1> QED BY <1>4, <1>5, <1>6, <1>7, <1>8 DEF Inv

LEMMA ReadHistoryStep ==
    ASSUME Inv, NEW q \in Requests, ReadHistory(q)
    PROVE  Inv' /\ ByTheRules(q)
<1> DEFINE r == request[q]
           seen == IF r.row = NoDefinition THEN NoVersion ELSE version[r.id]
<1>1. PICK next :
        request' = [request EXCEPT ![q] = [r EXCEPT !.pc = "ready", !.history = seen,
                                                    !.next = next]]
  BY DEF ReadHistory
<1>2. /\ r.pc = "read"
      /\ definition' = definition /\ version' = version /\ overlapped' = overlapped
      /\ torn' = IF r.row # NoDefinition /\ version[r.id].status # r.row.status
                 THEN torn \cup {r.id} ELSE torn
  BY DEF ReadHistory
<1>3. Knows(q)
  BY <1>2 DEF Inv, Idle
<1>4. /\ DOMAIN request'[q] = DOMAIN r
      /\ request'[q].pc = "ready" /\ request'[q].kind = r.kind /\ request'[q].id = r.id
      /\ request'[q].arg = r.arg /\ request'[q].row = r.row /\ request'[q].history = seen
      /\ \A p \in Requests \ {q} : request'[p] = request[p]
  BY <1>1, <1>3 DEF Inv, Shape, Knows
<1>5. Shape'
  BY <1>1, <1>2 DEF Inv, Shape
<1>6. r.row # NoDefinition /\ seen.status # r.row.status => r.id \in torn'
  BY <1>2
<1> HIDE DEF seen
<1>7. Knows(q)'
  BY <1>2, <1>3, <1>4, <1>6 DEF Knows, Exists
<1>8. ASSUME NEW p \in Requests, p # q PROVE request'[p] = Idle \/ Knows(p)'
  <2>1. request'[p] = request[p]
    BY <1>4, <1>8
  <2>2. CASE Knows(p)
    BY <1>2, <1>5, <2>1, <2>2, KnowsKept DEF Exists
  <2> QED BY <2>1, <2>2 DEF Inv
<1>9. HistoryIsTrue'
  BY <1>2 DEF Inv, HistoryIsTrue
<1>10. ByTheRules(q)
  BY <1>2 DEF ByTheRules
<1> QED BY <1>5, <1>7, <1>8, <1>9, <1>10 DEF Inv

LEMMA RefuseVersionStep ==
    ASSUME Inv, NEW q \in Requests, RefuseVersion(q)
    PROVE  Inv' /\ ByTheRules(q)
<1>1. /\ Done(q) /\ overlapped' = overlapped \ {q}
      /\ definition' = definition /\ version' = version /\ torn' = torn
  BY DEF RefuseVersion, Done
<1>2. Shape'
  BY <1>1, OthersEnd DEF Inv, Shape
<1>3. \A p \in Requests : request'[p] = Idle \/ Knows(p)'
  BY <1>1, <1>2, QuietEnd DEF Exists
<1>4. HistoryIsTrue' /\ ByTheRules(q)
  BY <1>1 DEF Inv, HistoryIsTrue, ByTheRules
<1> QED BY <1>2, <1>3, <1>4 DEF Inv

-----------------------------------------------------------------------------
\* Writing

LEMMA CommitEditStep ==
    ASSUME Inv, NEW q \in Requests, CommitEdit(q)
    PROVE  Inv' /\ ByTheRules(q)
<1> DEFINE r == request[q]
           s == Synced(r, r.row.status)
<1>1. /\ r.pc = "ready" /\ r.kind = "edit" /\ r.row # NoDefinition
      /\ version' = [version EXCEPT ![r.id] = s]
      /\ overlapped' = overlapped \ {q} /\ Done(q)
  BY DEF CommitEdit
<1>2. Knows(q) /\ r.id \in Definitions
  BY <1>1 DEF Inv, Idle, Knows
<1>3. PICK c : definition' = [definition EXCEPT ![r.id].content = c]
  BY DEF CommitEdit
<1>4. /\ DOMAIN s = {"root", "number", "status"}
      /\ r.id \in torn \/ s.status = version[r.id].status
  BY <1>1, <1>2, SyncedKeeps
<1> HIDE DEF s
<1>5. /\ DOMAIN definition' = Definitions
      /\ \A d \in Definitions :
            /\ DOMAIN definition'[d] = DOMAIN definition[d]
            /\ definition'[d].status = definition[d].status
            /\ definition'[d].locked = definition[d].locked
            /\ d # r.id => definition'[d] = definition[d]
  BY <1>2, <1>3 DEF Inv, Shape
<1>6. /\ DOMAIN version' = Definitions
      /\ version'[r.id] = s /\ \A d \in Definitions \ {r.id} : version'[d] = version[d]
  BY <1>1, <1>2 DEF Inv, Shape
<1>7. \A d \in Definitions : Exists(d) => definition'[d] # NoDefinition
  BY <1>5, NoneIsNoStatus, RowsOfNothing DEF Inv, Shape, Exists
<1>8. Exists(r.id)
  BY <1>1, <1>2 DEF Knows
<1>9. Shape'
  BY <1>1, <1>4, <1>5, <1>6, <1>8, OthersEnd DEF Inv, Shape, Exists
<1>10. \A p \in Requests : request'[p] = Idle \/ Knows(p)'
  BY <1>1, <1>5, <1>7, <1>9, QuietEnd
<1>11. torn' = torn /\ request'[q] = Idle
  BY <1>1, OthersEnd
<1>12. HistoryIsTrue'
  BY <1>4, <1>5, <1>6, <1>11 DEF Inv, HistoryIsTrue
<1>13. q \notin overlapped => ~definition[r.id].locked
  BY <1>1, <1>2 DEF Knows, Editable
<1>14. ByTheRules(q)
  BY <1>5, <1>11, <1>13 DEF ByTheRules
<1> QED BY <1>9, <1>10, <1>12, <1>14 DEF Inv

\* A definition that was not there is there, and the others are as they were.
LEMMA Inserted ==
    ASSUME Inv, NEW q \in Requests, Done(q), overlapped' = overlapped \ {q},
           NEW d \in Definitions, definition[d] = NoDefinition, NEW row,
           DOMAIN row = {"root", "number", "source", "status", "locked", "content"},
           row.status = "DRAFT", row.status \in Statuses,
           definition' = [definition EXCEPT ![d] = row],
           DOMAIN version' = Definitions,
           \A e \in Definitions : DOMAIN version'[e] = {"root", "number", "status"},
           version'[d].status = "DRAFT",
           \A e \in Definitions \ {d} : e \in torn \/ version'[e].status = version[e].status
    PROVE  Inv' /\ ByTheRules(q)
<1>1. /\ DOMAIN definition' = Definitions
      /\ definition'[d] = row /\ \A e \in Definitions \ {d} : definition'[e] = definition[e]
  BY DEF Inv, Shape
<1>2. Shape'
  BY <1>1, OthersEnd DEF Inv, Shape
<1>3. \A p \in Requests : request'[p] = Idle \/ Knows(p)'
  <2>1. \A e \in Definitions : Exists(e) => definition'[e] = definition[e]
    BY <1>1 DEF Exists
  <2> QED BY <1>2, <2>1, QuietEnd DEF Exists
<1>4. HistoryIsTrue'
  <2>1. torn' = torn
    BY OthersEnd
  <2>2. \A e \in Definitions \ {d} : e \in torn \/ version[e].status = definition[e].status
    BY DEF Inv, HistoryIsTrue
  <2> QED BY <1>1, <2>1, <2>2 DEF HistoryIsTrue
<1>5. ByTheRules(q)
  BY <1>1, RowsOfNothing DEF ByTheRules, Exists
<1> QED BY <1>2, <1>3, <1>4, <1>5 DEF Inv

\* A request that ends without a write.
LEMMA EndsUnchanged ==
    ASSUME Inv, NEW q \in Requests, Done(q), overlapped' = overlapped \ {q},
           UNCHANGED <<definition, version>>
    PROVE  Inv' /\ ByTheRules(q)
<1>1. Shape'
  BY OthersEnd DEF Inv, Shape
<1>2. \A p \in Requests : request'[p] = Idle \/ Knows(p)'
  BY <1>1, QuietEnd DEF Exists
<1>3. HistoryIsTrue' /\ ByTheRules(q)
  BY OthersEnd DEF Inv, HistoryIsTrue, ByTheRules
<1> QED BY <1>1, <1>2, <1>3 DEF Inv

LEMMA CommitFirstStep ==
    ASSUME Inv, NEW q \in Requests, CommitFirst(q)
    PROVE  Inv' /\ ByTheRules(q)
<1> DEFINE r == request[q]
           first == FirstVersion(r.id, r.arg)
<1>1. /\ r.pc = "ready" /\ overlapped' = overlapped \ {q} /\ Done(q)
  BY DEF CommitFirst
<1>2. r.id \in Definitions
  BY <1>1 DEF Inv, Idle, Knows
<1>3. CASE UNCHANGED <<definition, version>>
  BY <1>1, <1>3, EndsUnchanged
<1>4. CASE /\ ~Exists(r.id) /\ definition' = [definition EXCEPT ![r.id] = first]
           /\ version' = [version EXCEPT ![r.id] = HistoryOf(first)]
  <2>1. /\ DOMAIN version' = Definitions
        /\ version'[r.id] = HistoryOf(first)
        /\ \A e \in Definitions \ {r.id} : version'[e] = version[e]
    BY <1>2, <1>4 DEF Inv, Shape
  <2>2. /\ DOMAIN first = {"root", "number", "source", "status", "locked", "content"}
        /\ first.status = "DRAFT" /\ first.status \in Statuses
        /\ DOMAIN HistoryOf(first) = {"root", "number", "status"}
        /\ HistoryOf(first).status = "DRAFT"
    BY FirstVersionRow, Zenon
  <2> HIDE DEF first
  <2>3. \A e \in Definitions : DOMAIN version'[e] = {"root", "number", "status"}
    BY <2>1, <2>2 DEF Inv, Shape
  <2>4. definition[r.id] = NoDefinition
    BY <1>4 DEF Exists
  <2>5. /\ definition' = [definition EXCEPT ![r.id] = first] /\ DOMAIN version' = Definitions
        /\ version'[r.id].status = "DRAFT"
        /\ \A e \in Definitions \ {r.id} : e \in torn \/ version'[e].status = version[e].status
    BY <1>4, <2>1, <2>2
  <2> HIDE DEF r
  <2> QED BY <1>1, <1>2, <2>2, <2>3, <2>4, <2>5, Inserted
<1> QED BY <1>3, <1>4 DEF CommitFirst

LEMMA CommitVersionStep ==
    ASSUME Inv, NEW q \in Requests, CommitVersion(q)
    PROVE  Inv' /\ ByTheRules(q)
<1> DEFINE r == request[q]
           new == NewVersion(r)
           s == Synced(r, r.row.status)
<1>1. /\ r.pc = "ready" /\ r.kind = "version"
      /\ overlapped' = overlapped \ {q} /\ Done(q)
  BY DEF CommitVersion
<1>2. /\ Knows(q) /\ r.id \in Definitions /\ r.arg \in Definitions
      /\ r.row # NoDefinition /\ Exists(r.id)
  BY <1>1 DEF Inv, Idle, Knows
<1>3. /\ DOMAIN s = {"root", "number", "status"}
      /\ r.id \in torn \/ s.status = version[r.id].status
  BY <1>1, <1>2, SyncedKeeps
<1>4. /\ DOMAIN new = {"root", "number", "source", "status", "locked", "content"}
      /\ new.status = "DRAFT" /\ new.status \in Statuses
      /\ DOMAIN HistoryOf(new) = {"root", "number", "status"}
      /\ HistoryOf(new).status = "DRAFT"
  BY NewVersionRow
<1>5. CASE UNCHANGED <<definition, version>>
  BY <1>1, <1>5, EndsUnchanged
<1>6. CASE /\ ~Exists(r.arg) /\ definition' = [definition EXCEPT ![r.arg] = new]
           /\ version' = [version EXCEPT ![r.arg] = HistoryOf(new), ![r.id] = s]
  <2> HIDE DEF new, s
  <2>1. r.arg # r.id
    BY <1>2, <1>6
  <2>2. /\ DOMAIN version' = Definitions
        /\ version'[r.arg] = HistoryOf(new) /\ version'[r.id] = s
        /\ \A e \in Definitions \ {r.arg, r.id} : version'[e] = version[e]
    BY <1>2, <1>6, <2>1 DEF Inv, Shape
  <2>3. \A e \in Definitions : DOMAIN version'[e] = {"root", "number", "status"}
    BY <1>3, <1>4, <2>2 DEF Inv, Shape
  <2>4. \A e \in Definitions \ {r.arg} : e \in torn \/ version'[e].status = version[e].status
    BY <1>3, <2>2
  <2>5. definition[r.arg] = NoDefinition
    BY <1>6 DEF Exists
  <2>6. version'[r.arg].status = "DRAFT"
    BY <1>4, <2>2
  <2>7. definition' = [definition EXCEPT ![r.arg] = new]
    BY <1>6
  <2>8. Done(q) /\ overlapped' = overlapped \ {q} /\ r.arg \in Definitions /\ DOMAIN version' = Definitions
    BY <1>1, <1>2, <2>2
  <2> HIDE DEF r
  <2> QED BY <1>4, <2>3, <2>4, <2>5, <2>6, <2>7, <2>8, Inserted
<1> QED BY <1>5, <1>6 DEF CommitVersion

LEMMA CommitListStep ==
    ASSUME Inv, NEW q \in Requests, CommitList(q)
    PROVE  Inv' /\ ByTheRules(q)
<1> DEFINE r == request[q]
           s == Synced(r, r.row.status)
<1>1. /\ r.pc = "ready" /\ r.kind = "list"
      /\ version' = [version EXCEPT ![r.id] = s] /\ definition' = definition
      /\ overlapped' = overlapped \ {q} /\ Done(q)
  BY DEF CommitList
<1>2. Knows(q) /\ r.id \in Definitions /\ r.row # NoDefinition
  BY <1>1 DEF Inv, Idle, Knows
<1>3. /\ DOMAIN s = {"root", "number", "status"}
      /\ r.id \in torn \/ s.status = version[r.id].status
  BY <1>1, <1>2, SyncedKeeps
<1> HIDE DEF s
<1>4. /\ DOMAIN version' = Definitions
      /\ version'[r.id] = s /\ \A d \in Definitions \ {r.id} : version'[d] = version[d]
  BY <1>1, <1>2 DEF Inv, Shape
<1>5. Shape'
  BY <1>1, <1>3, <1>4, OthersEnd DEF Inv, Shape
<1>6. \A p \in Requests : request'[p] = Idle \/ Knows(p)'
  BY <1>1, <1>5, QuietEnd DEF Exists
<1>7. HistoryIsTrue'
  BY <1>1, <1>3, <1>4, OthersEnd DEF Inv, HistoryIsTrue
<1>8. ByTheRules(q)
  BY <1>1 DEF ByTheRules
<1> QED BY <1>5, <1>6, <1>7, <1>8 DEF Inv

\* A transition moves the status that was read, passes by whoever else has read
\* the definition, and writes the history the same status.
LEMMA CommitTransitionStep ==
    ASSUME Inv, NEW q \in Requests, CommitTransition(q)
    PROVE  Inv' /\ ByTheRules(q)
<1> DEFINE r == request[q]
           s == Synced(r, r.arg)
<1>1. /\ r.pc = "ready" /\ r.kind = "transition"
      /\ definition' = [definition EXCEPT ![r.id].status = r.arg,
            ![r.id].locked = @ \/ r.arg \in WORKFLOW_LOCKED_LIFECYCLE_STATUSES]
      /\ version' = [version EXCEPT ![r.id] = s]
      /\ overlapped' = (overlapped \cup {p \in Requests : request[p].id = r.id}) \ {q}
      /\ Done(q)
  BY DEF CommitTransition, Passing
<1>2. /\ Knows(q) /\ r.id \in Definitions /\ r.row # NoDefinition /\ Exists(r.id)
      /\ r.row.status \in Statuses /\ r.arg \in WORKFLOW_LIFECYCLE_TRANSITIONS[r.row.status]
  BY <1>1 DEF Inv, Idle, Knows, Allowed
<1>3. r.arg \in Statuses /\ r.arg # r.row.status
  BY <1>2, TableIsClosed
<1>4. DOMAIN s = {"root", "number", "status"} /\ s.status = r.arg
  BY <1>2, <1>3 DEF Synced, Inv, Shape
<1> HIDE DEF s
<1>5. /\ DOMAIN definition' = Definitions
      /\ \A d \in Definitions :
            /\ DOMAIN definition'[d] = DOMAIN definition[d]
            /\ definition'[d].content = definition[d].content
            /\ definition[d].locked => definition'[d].locked
            /\ d # r.id => definition'[d] = definition[d]
      /\ definition'[r.id].status = r.arg
  BY <1>1, <1>2 DEF Inv, Shape
<1>6. /\ DOMAIN version' = Definitions
      /\ version'[r.id] = s /\ \A d \in Definitions \ {r.id} : version'[d] = version[d]
  BY <1>1, <1>2 DEF Inv, Shape
<1>7. definition'[r.id] # NoDefinition
  BY <1>3, <1>5, NoneIsNoStatus, RowsOfNothing
<1>8. Shape'
  <2>1. DOMAIN request' = Requests
    BY <1>1, OthersEnd
  <2>2. \A d \in Definitions :
           DOMAIN definition'[d] = {"root", "number", "source", "status", "locked", "content"}
    BY <1>5 DEF Inv, Shape
  <2>3. \A d \in Definitions : DOMAIN version'[d] = {"root", "number", "status"}
    BY <1>4, <1>6 DEF Inv, Shape
  <2>4. \A d \in Definitions : definition'[d] = NoDefinition \/ definition'[d].status \in Statuses
    BY <1>3, <1>5 DEF Inv, Shape
  <2> QED BY <1>5, <1>6, <2>1, <2>2, <2>3, <2>4 DEF Shape
<1>9. ASSUME NEW p \in Requests PROVE request'[p] = Idle \/ Knows(p)'
  <2>1. CASE p = q
    BY <1>1, <2>1, OthersEnd
  <2>2. CASE p # q /\ request[p] = Idle
    BY <1>1, <2>2, OthersEnd
  <2>3. CASE p # q /\ Knows(p)
    <3>1. request'[p] = request[p] /\ torn' = torn /\ request[p].id \in Definitions
      BY <1>1, <2>3, OthersEnd DEF Knows
    <3>2. Exists(request[p].id) => definition'[request[p].id] # NoDefinition
      BY <1>5, <1>7, <3>1 DEF Exists
    <3>3. p \notin overlapped' =>
            p \notin overlapped /\ definition'[request[p].id] = definition[request[p].id]
      BY <1>1, <1>5, <2>3, <3>1
    <3> QED BY <1>8, <2>3, <3>1, <3>2, <3>3, KnowsKept
  <2> QED BY <2>1, <2>2, <2>3 DEF Inv
<1>10. torn' = torn /\ request'[q] = Idle
  BY <1>1, OthersEnd
<1>11. HistoryIsTrue'
  BY <1>4, <1>5, <1>6, <1>10 DEF Inv, HistoryIsTrue
<1>12. q \notin overlapped => definition[r.id].status = r.row.status
  BY <1>2 DEF Knows
<1>13. ByTheRules(q)
  BY <1>2, <1>5, <1>10, <1>12 DEF ByTheRules
<1> QED BY <1>8, <1>9, <1>11, <1>13 DEF Inv

-----------------------------------------------------------------------------
\* The specification

LEMMA InvInit == Init => Inv
<1> SUFFICES ASSUME Init PROVE Inv
  OBVIOUS
<1>1. PICK D \in SUBSET Definitions, c \in Contents :
        definition = [d \in Definitions |-> IF d \in D THEN FirstVersion(d, c) ELSE NoDefinition]
  BY DEF Init
<1>2. /\ version = [d \in Definitions |-> IF Exists(d) THEN HistoryOf(definition[d]) ELSE NoVersion]
      /\ request = [q \in Requests |-> Idle]
  BY DEF Init
<1>3. ASSUME NEW d \in Definitions
      PROVE  /\ DOMAIN definition[d] = {"root", "number", "source", "status", "locked", "content"}
             /\ DOMAIN version[d] = {"root", "number", "status"}
             /\ definition[d] = NoDefinition \/ definition[d].status \in Statuses
             /\ version[d].status = definition[d].status
  <2>1. CASE definition[d] = NoDefinition
    BY <1>2, <2>1, RowsOfNothing DEF Exists
  <2>2. CASE definition[d] # NoDefinition
    <3>1. definition[d] = FirstVersion(d, c) /\ version[d] = HistoryOf(FirstVersion(d, c))
      BY <1>1, <1>2, <2>2 DEF Exists
    <3> DEFINE first == FirstVersion(d, c)
    <3>2. /\ DOMAIN first = {"root", "number", "source", "status", "locked", "content"}
          /\ first.status \in Statuses /\ DOMAIN HistoryOf(first) = {"root", "number", "status"}
          /\ HistoryOf(first).status = first.status
      BY FirstVersionRow, Zenon
    <3> HIDE DEF first
    <3>3. definition[d] = first /\ version[d] = HistoryOf(first)
      BY <3>1 DEF first
    <3> QED BY <3>2, <3>3
  <2> QED BY <2>1, <2>2
<1> QED BY <1>1, <1>2, <1>3 DEF Inv, Shape, HistoryIsTrue

LEMMA StepByTheRules ==
    ASSUME Inv, NEW q \in Requests,
           Begin(q) \/ ReadHistory(q) \/ RefuseVersion(q) \/ Commit(q)
    PROVE  Inv' /\ ByTheRules(q)
<1>1. CASE Begin(q)
  <2>1. PICK d \in Definitions :
          \/ \E c \in Contents : ReadDefinition(q, "edit", d, c)
          \/ \E s \in Statuses : ReadDefinition(q, "transition", d, s)
          \/ \E e \in Definitions : ReadDefinition(q, "version", d, e)
          \/ ReadDefinition(q, "list", d, "none")
    BY <1>1 DEF Begin
  <2>2. CASE \E c \in Contents : ReadDefinition(q, "edit", d, c)
    BY <2>2, ReadDefinitionStep
  <2>3. CASE \E s \in Statuses : ReadDefinition(q, "transition", d, s)
    BY <2>3, ReadDefinitionStep
  <2>4. CASE \E e \in Definitions : ReadDefinition(q, "version", d, e)
    BY <2>4, ReadDefinitionStep
  <2>5. CASE ReadDefinition(q, "list", d, "none")
    BY <2>5, ReadDefinitionStep
  <2> QED BY <2>1, <2>2, <2>3, <2>4, <2>5
<1>2. CASE ReadHistory(q) \/ RefuseVersion(q)
  BY <1>2, ReadHistoryStep, RefuseVersionStep
<1>3. CASE Commit(q)
  BY <1>3, CommitEditStep, CommitFirstStep, CommitVersionStep, CommitTransitionStep,
     CommitListStep DEF Commit
<1> QED BY <1>1, <1>2, <1>3

LEMMA UnchangedKeeps == Inv /\ UNCHANGED vars => Inv'
  BY DEF Inv, Shape, Knows, HistoryIsTrue, Exists, vars

LEMMA InvNext == Inv /\ [Next]_vars => Inv'
  BY StepByTheRules, UnchangedKeeps DEF Next

LEMMA SpecInv == Spec => []Inv
  BY InvInit, InvNext, PTL DEF Spec

\* The version history shows the status of every definition that no request read
\* torn (_sync_workflow_definition_version).
THEOREM HistoryTrue == Spec => []HistoryIsTrue
<1>1. Inv => HistoryIsTrue
  BY DEF Inv
<1> QED BY <1>1, SpecInv, PTL

\* A locked definition is frozen and a status moves along the table, unless the
\* request that writes was passed by a transition (transition_workflow_definition,
\* upsert_workflow_definition).
THEOREM ChangesKeepTheRules == Spec => ChangesByTheRules
<1> DEFINE Frozen == \A d \in Definitions : definition[d].locked =>
                        /\ definition'[d].locked
                        /\ \/ definition'[d].content = definition[d].content
                           \/ \E q \in overlapped : request[q].id = d /\ request'[q] = Idle
           Along == \A d \in Definitions : Exists(d) =>
                        \/ definition'[d].status = definition[d].status
                        \/ definition'[d].status
                              \in WORKFLOW_LIFECYCLE_TRANSITIONS[definition[d].status]
                        \/ \E q \in overlapped : request[q].id = d /\ request'[q] = Idle
<1>1. ASSUME NEW q \in Requests, ByTheRules(q) PROVE Frozen /\ Along
  BY <1>1 DEF ByTheRules
<1>2. Inv /\ Next => Frozen /\ Along
  BY <1>1, StepByTheRules DEF Next
<1>3. Inv /\ [Next]_vars => [Frozen]_vars /\ [Along]_vars
  BY <1>2
<1>4. Spec => [][Frozen]_vars /\ [][Along]_vars
  BY <1>3, SpecInv, PTL DEF Spec
<1> QED BY <1>4 DEF ChangesByTheRules, FrozenOnceLocked, MovesAlongTable

-----------------------------------------------------------------------------
\* Types of the rows

\* A definition that is there has a root, one that is not has none.
LEMMA RowTypes ==
    ASSUME TypeOK, NEW d \in Definitions
    PROVE  /\ Exists(d) <=> definition[d] \in Definition
           /\ Exists(d) <=> definition[d].root \in Definitions
           /\ definition[d] # NoDefinition <=> Exists(d)
           /\ ~Exists(d) <=> definition[d].root = "none"
           /\ ~Exists(d) => definition[d].source = "none" /\ definition[d].number = 0
           /\ definition[d].number \in Nat
           /\ version[d] = NoVersion <=> version[d].root = "none"
           /\ version[d] # NoVersion <=> version[d] \in Version
<1>1. definition[d] \in Definition \cup {NoDefinition} /\ version[d] \in Version \cup {NoVersion}
  BY DEF TypeOK
<1>2. "none" \notin Definitions
  BY VersionsAssumption
<1>3. CASE definition[d] \in Definition
  <2>1. definition[d].root \in Definitions /\ definition[d].number \in Nat
    BY <1>3 DEF Definition
  <2>2. definition[d] # NoDefinition
    BY <1>2, <2>1 DEF NoDefinition
  <2> QED BY <1>1, <1>2, <1>3, <2>1, <2>2 DEF Exists, Version, NoVersion
<1>4. CASE definition[d] = NoDefinition
  <2>1. definition[d] \notin Definition
    BY <1>2, <1>4 DEF NoDefinition, Definition
  <2> QED BY <1>1, <1>2, <1>4, <2>1 DEF Exists, NoDefinition, Version, NoVersion
<1> QED BY <1>1, <1>3, <1>4

\* What a request that is under way carries.
LEMMA RequestRow ==
    ASSUME TypeOK, NEW q \in Requests, request[q] # Idle
    PROVE  /\ request[q] \in RequestState
           /\ request[q].pc \in {"read", "ready"} /\ request[q].kind \in Kinds
           /\ request[q].id \in Definitions /\ request[q].next \in Nat
           /\ request[q].arg \in Contents \cup Statuses \cup Definitions \cup {"none"}
           /\ request[q].row \in Definition \cup {NoDefinition}
           /\ request[q].history \in Version \cup {NoVersion}
<1>1. request[q] \in RequestState
  BY DEF TypeOK
<1> QED BY <1>1 DEF RequestState

\* The rows of a new definition.
LEMMA FirstTypes ==
    ASSUME NEW d \in Definitions, NEW c \in Contents
    PROVE  /\ FirstVersion(d, c) \in Definition
           /\ FirstVersion(d, c).root = d /\ FirstVersion(d, c).number = 1
           /\ FirstVersion(d, c).source = "none"
  BY DEF FirstVersion, Definition, Statuses, WORKFLOW_LIFECYCLE_TRANSITIONS

LEMMA HistoryTypes ==
    ASSUME NEW row \in Definition
    PROVE  /\ HistoryOf(row) \in Version
           /\ HistoryOf(row).root = row.root /\ HistoryOf(row).number = row.number
  BY DEF HistoryOf, Definition, Version

-----------------------------------------------------------------------------
\* Lines of versions

\* The history has the root and the number of every definition.
HistoryMatches ==
    \A d \in Definitions :
        version[d].root = definition[d].root /\ version[d].number = definition[d].number

\* A workflow has finitely many versions, one for each number up to the last.
Linear ==
    \A root \in Definitions :
        /\ IsFiniteSet(VersionsOf(root))
        /\ {definition[d].number : d \in VersionsOf(root)} = 1 .. Cardinality(VersionsOf(root))

\* What a request has read of a definition's place in its line stays true, and the
\* number it took was the next one.
Asked(q) ==
    LET r == request[q] IN
    /\ r.kind = "edit" => r.arg \in Contents
    /\ r.kind = "transition" => r.arg \in Statuses
    /\ r.row # NoDefinition =>
          /\ Exists(r.id) /\ definition[r.id].root = r.row.root
          /\ definition[r.id].number = r.row.number
    /\ r.pc = "ready" /\ r.kind = "version" =>
          /\ r.next \in Nat /\ r.next > r.row.number
          /\ r.next <= Cardinality(VersionsOf(r.row.root)) + 1

\* A step that leaves every definition its place.
SameLines ==
    \A d \in Definitions :
        /\ definition'[d].root = definition[d].root
        /\ definition'[d].number = definition[d].number
        /\ definition'[d].source = definition[d].source
        /\ version'[d].root = version[d].root /\ version'[d].number = version[d].number

\* A step that adds d to the end of its line.
Appends(d) ==
    LET row == definition'[d] IN
    /\ ~Exists(d) /\ row \in Definition
    /\ version'[d].root = row.root /\ version'[d].number = row.number
    /\ \A e \in Definitions \ {d} :
          /\ definition'[e] = definition[e]
          /\ version'[e].root = version[e].root /\ version'[e].number = version[e].number
    /\ row.number >= 1 /\ row.number <= Cardinality(VersionsOf(row.root)) + 1
    /\ \A e \in Definitions : ~(definition[e].root = row.root /\ definition[e].number = row.number)
    /\ row.source # "none" =>
          /\ row.source \in Definitions /\ definition[row.source].root = row.root
          /\ definition[row.source].number < row.number

LEMMA VersionsAre ==
    ASSUME TypeOK, NEW root \in Definitions
    PROVE  VersionsOf(root) = {d \in Definitions : definition[d].root = root}
<1>1. \A d \in Definitions : definition[d].root = root => Exists(d)
  BY RowTypes
<1> QED BY <1>1 DEF VersionsOf

LEMMA VersionsAreNext ==
    ASSUME TypeOK', NEW root \in Definitions
    PROVE  VersionsOf(root)' = {d \in Definitions : definition'[d].root = root}
<1>1. ASSUME NEW d \in Definitions, definition'[d].root = root
      PROVE  Exists(d)'
  <2>1. definition'[d] # NoDefinition
    BY <1>1, VersionsAssumption DEF NoDefinition
  <2> QED BY <2>1 DEF Exists
<1> QED BY <1>1 DEF VersionsOf

\* The next number of a line is one more than there are versions, and above every
\* number given (get_next_workflow_version_number).
LEMMA NextIs ==
    ASSUME TypeOK, Linear, NEW d \in Definitions, Exists(d), NEW root, root = definition[d].root
    PROVE  /\ NextVersionNumber(root) = Cardinality(VersionsOf(root)) + 1
           /\ Cardinality(VersionsOf(root)) \in Nat
           /\ definition[d].number <= Cardinality(VersionsOf(root))
<1>1. root \in Definitions /\ d \in VersionsOf(root)
  BY RowTypes DEF VersionsOf
<1> DEFINE N == {definition[e].number : e \in VersionsOf(root)}
           c == Cardinality(VersionsOf(root))
           max == CHOOSE n \in N : \A e \in VersionsOf(root) : definition[e].number <= n
<1>2. N = 1 .. c /\ c \in Nat
  BY <1>1, FS_CardinalityType DEF Linear
<1>3. definition[d].number \in N
  BY <1>1
<1>4. NextVersionNumber(root) = max + 1
  BY DEF NextVersionNumber
<1>5. \A e \in VersionsOf(root) : definition[e].number \in N
  OBVIOUS
<1> HIDE DEF N, c
<1>6. c \in N /\ \A e \in VersionsOf(root) : definition[e].number <= c
  BY <1>2, <1>3, <1>5
<1>7. max \in N /\ \A e \in VersionsOf(root) : definition[e].number <= max
  BY <1>6
<1>8. max = c
  <2> HIDE DEF max
  <2>1. \E e \in VersionsOf(root) : definition[e].number = c
    BY <1>6 DEF N
  <2>2. c <= max
    BY <1>7, <2>1
  <2>3. max \in 1 .. c
    BY <1>2, <1>7
  <2> QED BY <1>2, <2>2, <2>3
<1> HIDE DEF max
<1> QED BY <1>2, <1>3, <1>4, <1>8 DEF c

\* A step that leaves every place leaves the lines.
LEMMA LinesStay ==
    ASSUME TypeOK, TypeOK', HistoryMatches, Linear, DescendsFromOlder, SameLines
    PROVE  /\ HistoryMatches' /\ Linear' /\ DescendsFromOlder'
           /\ \A root \in Definitions : Cardinality(VersionsOf(root))' = Cardinality(VersionsOf(root))
<1>1. \A root \in Definitions : VersionsOf(root)' = VersionsOf(root)
  <2> SUFFICES ASSUME NEW root \in Definitions PROVE VersionsOf(root)' = VersionsOf(root)
    OBVIOUS
  <2>1. VersionsOf(root)' = {d \in Definitions : definition'[d].root = root}
    BY VersionsAreNext
  <2> QED BY <2>1, VersionsAre DEF SameLines
<1>2. HistoryMatches'
  BY DEF HistoryMatches, SameLines
<1>3. Linear'
  <2> SUFFICES ASSUME NEW root \in Definitions
               PROVE  /\ IsFiniteSet(VersionsOf(root)')
                      /\ {definition'[d].number : d \in VersionsOf(root)'}
                           = 1 .. Cardinality(VersionsOf(root)')
    BY DEF Linear
  <2>1. \A d \in VersionsOf(root) : definition'[d].number = definition[d].number
    BY DEF VersionsOf, SameLines
  <2> QED BY <1>1, <2>1 DEF Linear
<1>4. DescendsFromOlder'
  <2> SUFFICES ASSUME NEW d \in Definitions, definition'[d].source # "none"
               PROVE  /\ definition'[definition'[d].source].root = definition'[d].root
                      /\ definition'[definition'[d].source].number < definition'[d].number
    BY DEF DescendsFromOlder
  <2>1. definition[d].source \in Definitions
    <3>1. Exists(d)
      BY RowTypes DEF SameLines
    <3>2. definition[d] \in Definition
      BY <3>1, RowTypes
    <3> QED BY <3>2 DEF Definition, SameLines
  <2> QED BY <2>1 DEF SameLines, DescendsFromOlder
<1> QED BY <1>1, <1>2, <1>3, <1>4

\* A step that adds a version to the end of a line leaves lines.
LEMMA LinesGrow ==
    ASSUME TypeOK, TypeOK', HistoryMatches, Linear, DescendsFromOlder,
           NEW d \in Definitions, Appends(d)
    PROVE  /\ HistoryMatches' /\ Linear' /\ DescendsFromOlder'
           /\ \A root \in Definitions :
                /\ Cardinality(VersionsOf(root)) \in Nat /\ Cardinality(VersionsOf(root)') \in Nat
                /\ Cardinality(VersionsOf(root)') >= Cardinality(VersionsOf(root))
<1> DEFINE row == definition'[d]
<1>1. /\ ~Exists(d) /\ row \in Definition
      /\ version'[d].root = row.root /\ version'[d].number = row.number
      /\ \A e \in Definitions \ {d} :
            /\ definition'[e] = definition[e]
            /\ version'[e].root = version[e].root /\ version'[e].number = version[e].number
      /\ row.number >= 1 /\ row.number <= Cardinality(VersionsOf(row.root)) + 1
      /\ \A e \in Definitions : ~(definition[e].root = row.root /\ definition[e].number = row.number)
      /\ row.source # "none" =>
            /\ row.source \in Definitions /\ definition[row.source].root = row.root
            /\ definition[row.source].number < row.number
  BY DEF Appends
<1>2. row.root \in Definitions /\ row.number \in Nat
  BY <1>1 DEF Definition
<1>3. HistoryMatches'
  <2>1. \A e \in Definitions : version'[e].root = definition'[e].root
                               /\ version'[e].number = definition'[e].number
    BY <1>1 DEF HistoryMatches
  <2> QED BY <2>1 DEF HistoryMatches
<1>4. ASSUME NEW root \in Definitions
      PROVE  /\ root # row.root => VersionsOf(root)' = VersionsOf(root)
             /\ root = row.root => VersionsOf(root)' = VersionsOf(root) \cup {d}
             /\ d \notin VersionsOf(root)
  <2>1. VersionsOf(root)' = {e \in Definitions : definition'[e].root = root}
    BY VersionsAreNext
  <2>2. VersionsOf(root) = {e \in Definitions : definition[e].root = root}
    BY VersionsAre
  <2>3. definition[d].root = "none" /\ root # "none"
    BY <1>1, RowTypes, VersionsAssumption
  <2> QED BY <1>1, <2>1, <2>2, <2>3
<1>5. ASSUME NEW root \in Definitions
      PROVE  /\ IsFiniteSet(VersionsOf(root)')
             /\ {definition'[e].number : e \in VersionsOf(root)'}
                  = 1 .. Cardinality(VersionsOf(root)')
             /\ Cardinality(VersionsOf(root)) \in Nat /\ Cardinality(VersionsOf(root)') \in Nat
             /\ Cardinality(VersionsOf(root)') >= Cardinality(VersionsOf(root))
  <2>1. PICK V : V = VersionsOf(root)
    OBVIOUS
  <2>2. /\ IsFiniteSet(V) /\ Cardinality(V) \in Nat
        /\ {definition[e].number : e \in V} = 1 .. Cardinality(V)
    BY <2>1, FS_CardinalityType DEF Linear
  <2>3. \A e \in V : e \in Definitions /\ e # d /\ definition'[e].number = definition[e].number
    BY <1>1, <1>4, <2>1 DEF VersionsOf
  <2>4. CASE root # row.root
    <3>1. VersionsOf(root)' = V
      BY <1>4, <2>1, <2>4
    <3> QED BY <2>1, <2>2, <2>3, <3>1
  <2>5. CASE root = row.root
    <3>1. VersionsOf(root)' = V \cup {d} /\ d \notin V
      BY <1>4, <2>1, <2>5
    <3>2. IsFiniteSet(V \cup {d}) /\ Cardinality(V \cup {d}) = Cardinality(V) + 1
      BY <2>2, <3>1, FS_AddElement
    <3>3. row.number \notin {definition[e].number : e \in V}
      <4>1. \A e \in V : definition[e].root = row.root
        BY <2>1, <2>5, VersionsAre
      <4> QED BY <1>1, <2>3, <4>1
    <3>4. row.number = Cardinality(V) + 1
      BY <1>1, <1>2, <2>1, <2>2, <2>5, <3>3
    <3>5. {definition'[e].number : e \in V \cup {d}} = {definition[e].number : e \in V} \cup {row.number}
      BY <2>3
    <3>6. 1 .. (Cardinality(V) + 1) = (1 .. Cardinality(V)) \cup {Cardinality(V) + 1}
      BY <2>2
    <3>7. {definition'[e].number : e \in V \cup {d}} = 1 .. (Cardinality(V) + 1)
      BY <2>2, <3>4, <3>5, <3>6
    <3>8. Cardinality(VersionsOf(root)') = Cardinality(V) + 1 /\ IsFiniteSet(VersionsOf(root)')
      BY <3>1, <3>2
    <3>9. {definition'[e].number : e \in VersionsOf(root)'} = 1 .. Cardinality(VersionsOf(root)')
      BY <3>1, <3>7, <3>8
    <3> QED BY <2>1, <2>2, <3>8, <3>9
  <2> QED BY <2>4, <2>5
<1>6. Linear'
  BY <1>5 DEF Linear
<1>7. DescendsFromOlder'
  <2> SUFFICES ASSUME NEW e \in Definitions, definition'[e].source # "none"
               PROVE  /\ definition'[definition'[e].source].root = definition'[e].root
                      /\ definition'[definition'[e].source].number < definition'[e].number
    BY DEF DescendsFromOlder
  <2>0. definition[d].root = "none"
    BY <1>1, RowTypes
  <2>1. CASE e = d
    <3>1. /\ row.source \in Definitions /\ definition[row.source].root = row.root
          /\ definition[row.source].number < row.number
      BY <1>1, <2>1
    <3>2. row.source # d
      BY <1>2, <2>0, <3>1, VersionsAssumption
    <3>3. definition'[row.source] = definition[row.source]
      BY <1>1, <3>1, <3>2
    <3> QED BY <2>1, <3>1, <3>3
  <2>2. CASE e # d
    <3>1. definition'[e] = definition[e]
      BY <1>1, <2>2
    <3>2. definition[e] \in Definition
      BY <3>1, RowTypes
    <3>3. definition[e].source \in Definitions /\ definition[e].root \in Definitions
      BY <3>1, <3>2 DEF Definition
    <3>4. /\ definition[definition[e].source].root = definition[e].root
          /\ definition[definition[e].source].number < definition[e].number
      BY <3>1 DEF DescendsFromOlder
    <3>5. definition[e].source # d
      BY <2>0, <3>3, <3>4, VersionsAssumption
    <3>6. definition'[definition[e].source] = definition[definition[e].source]
      BY <1>1, <3>3, <3>5
    <3> QED BY <3>1, <3>4, <3>6
  <2> QED BY <2>1, <2>2
<1> QED BY <1>3, <1>5, <1>6, <1>7

-----------------------------------------------------------------------------
\* The steps

\* Everything that holds of definitions, their history and who writes them.
VersionInductive ==
    /\ Inv /\ TypeOK
    /\ HistoryMatches /\ Linear /\ DescendsFromOlder /\ PastReviewIsLocked
    /\ \A q \in Requests : request[q] = Idle \/ Asked(q)

\* A step keeps the types and the locks, and leaves every place or adds one.
KeepsPlaces ==
    /\ TypeOK' /\ PastReviewIsLocked'
    /\ SameLines \/ \E d \in Definitions : Appends(d)

\* A request that has ended left a row.
LEMMA EndedType ==
    ASSUME TypeOK, NEW q \in Requests, Done(q)
    PROVE  /\ request' \in [Requests -> RequestState \cup {Idle}]
           /\ operations' \in Nat /\ torn' \subseteq Definitions
  BY DEF TypeOK, Done

\* A step that touches neither definitions nor history keeps the places.
LEMMA QuietPlaces ==
    ASSUME TypeOK, PastReviewIsLocked, definition' = definition, version' = version,
           request' \in [Requests -> RequestState \cup {Idle}], operations' \in Nat,
           overlapped' \subseteq Requests, torn' \subseteq Definitions
    PROVE  KeepsPlaces
<1>1. TypeOK'
  BY DEF TypeOK
<1>2. PastReviewIsLocked' /\ SameLines
  BY DEF PastReviewIsLocked, SameLines
<1> QED BY <1>1, <1>2 DEF KeepsPlaces

\* What an operation writes to the history of a definition that is there.
LEMMA SyncedTypes ==
    ASSUME TypeOK, HistoryMatches, NEW r, r.id \in Definitions, Exists(r.id),
           NEW status \in Statuses
    PROVE  /\ Synced(r, status) \in Version
           /\ Synced(r, status).root = version[r.id].root
           /\ Synced(r, status).number = version[r.id].number
<1>1. version[r.id] \in Version
  BY RowTypes, VersionsAssumption DEF HistoryMatches
<1>2. [version[r.id] EXCEPT !.status = status] \in Version
      /\ [version[r.id] EXCEPT !.status = status].root = version[r.id].root
      /\ [version[r.id] EXCEPT !.status = status].number = version[r.id].number
  BY <1>1 DEF Version
<1> QED BY <1>1, <1>2 DEF Synced

LEMMA ReadDefinitionPlaces ==
    ASSUME VersionInductive, NEW q \in Requests, NEW kind \in Kinds,
           NEW d \in Definitions, NEW arg \in Contents \cup Statuses \cup Definitions \cup {"none"},
           kind = "edit" => arg \in Contents, kind = "transition" => arg \in Statuses,
           ReadDefinition(q, kind, d, arg)
    PROVE  KeepsPlaces /\ Asked(q)' /\ \A p \in Requests \ {q} : request'[p] = request[p]
<1> USE DEF VersionInductive
<1> DEFINE new == [Idle EXCEPT !.pc = "read", !.kind = kind, !.id = d, !.arg = arg,
                               !.row = definition[d]]
<1>1. /\ request' = [request EXCEPT ![q] = new]
      /\ definition' = definition /\ version' = version /\ operations' = operations + 1
      /\ overlapped' = overlapped /\ torn' = torn
  BY DEF ReadDefinition
<1>2. /\ new.pc = "read" /\ new.kind = kind /\ new.id = d /\ new.arg = arg
      /\ new.row = definition[d]
  BY DEF Idle
<1>3. new \in RequestState
  <2>1. definition[d] \in Definition \cup {NoDefinition}
    BY DEF TypeOK
  <2> QED BY <2>1 DEF Idle, RequestState
<1> HIDE DEF new
<1>4. request'[q] = new /\ \A p \in Requests \ {q} : request'[p] = request[p]
  BY <1>1 DEF TypeOK
<1>5. request' \in [Requests -> RequestState \cup {Idle}] /\ operations' \in Nat
  BY <1>1, <1>3 DEF TypeOK
<1>6. KeepsPlaces
  BY <1>1, <1>5, QuietPlaces DEF TypeOK
<1>7. Asked(q)'
  BY <1>1, <1>2, <1>4 DEF Asked, Exists
<1> QED BY <1>4, <1>6, <1>7

LEMMA ReadHistoryPlaces ==
    ASSUME VersionInductive, NEW q \in Requests, ReadHistory(q)
    PROVE  KeepsPlaces /\ Asked(q)' /\ \A p \in Requests \ {q} : request'[p] = request[p]
<1> USE DEF VersionInductive
<1> DEFINE r == request[q]
<1>1. PICK seen, next :
        /\ seen = IF r.row = NoDefinition THEN NoVersion ELSE version[r.id]
        /\ next = IF r.kind = "version" THEN NextVersionNumber(r.row.root) ELSE 0
        /\ request' = [request EXCEPT ![q] = [r EXCEPT !.pc = "ready", !.history = seen,
                                                       !.next = next]]
  BY DEF ReadHistory
<1>2. /\ r.pc = "read"
      /\ definition' = definition /\ version' = version /\ overlapped' = overlapped
      /\ operations' = operations /\ torn' \subseteq torn \cup {r.id}
  BY DEF ReadHistory
<1>3. Knows(q) /\ Asked(q) /\ r # Idle
  BY <1>2 DEF Inv, Idle
<1>4. r \in RequestState /\ r.id \in Definitions
  BY <1>3, RequestRow
<1>5. seen \in Version \cup {NoVersion}
  BY <1>1, <1>4 DEF TypeOK
<1>6. r.kind = "version" =>
        next \in Nat /\ next > r.row.number /\ next <= Cardinality(VersionsOf(r.row.root)) + 1
  <2> SUFFICES ASSUME r.kind = "version"
               PROVE  /\ next \in Nat /\ next > r.row.number
                      /\ next <= Cardinality(VersionsOf(r.row.root)) + 1
    OBVIOUS
  <2>1. Exists(r.id) /\ definition[r.id].root = r.row.root /\ definition[r.id].number = r.row.number
    BY <1>3 DEF Knows, Asked
  <2>2. PICK root : root = r.row.root
    OBVIOUS
  <2>3. /\ NextVersionNumber(root) = Cardinality(VersionsOf(root)) + 1
        /\ Cardinality(VersionsOf(root)) \in Nat
        /\ definition[r.id].number <= Cardinality(VersionsOf(root))
    BY <1>4, <2>1, <2>2, NextIs
  <2>4. definition[r.id].number \in Nat
    BY <1>4, RowTypes
  <2> QED BY <1>1, <2>1, <2>2, <2>3, <2>4
<1>7. next \in Nat
  BY <1>1, <1>6
<1> DEFINE new == [r EXCEPT !.pc = "ready", !.history = seen, !.next = next]
<1>8. /\ new \in RequestState
      /\ new.kind = r.kind /\ new.id = r.id /\ new.arg = r.arg /\ new.row = r.row
      /\ new.next = next
  BY <1>4, <1>5, <1>7 DEF RequestState
<1> HIDE DEF new
<1>9. request'[q] = new /\ \A p \in Requests \ {q} : request'[p] = request[p]
  BY <1>1 DEF TypeOK, new
<1>10. request' \in [Requests -> RequestState \cup {Idle}]
  BY <1>1, <1>8 DEF TypeOK, new
<1>11. KeepsPlaces
  BY <1>2, <1>4, <1>10, QuietPlaces DEF TypeOK
<1>12. Asked(q)'
  <2>1. \A root : VersionsOf(root)' = VersionsOf(root)
    BY <1>2 DEF VersionsOf, Exists
  <2> QED BY <1>2, <1>3, <1>6, <1>8, <1>9, <2>1 DEF Asked, Exists
<1> QED BY <1>9, <1>11, <1>12

LEMMA RefuseVersionPlaces ==
    ASSUME VersionInductive, NEW q \in Requests, RefuseVersion(q)
    PROVE  KeepsPlaces
<1>1. /\ Done(q) /\ overlapped' = overlapped \ {q}
      /\ definition' = definition /\ version' = version
  BY DEF RefuseVersion, Done
<1> QED BY <1>1, EndedType, QuietPlaces DEF VersionInductive, TypeOK

LEMMA CommitEditPlaces ==
    ASSUME VersionInductive, NEW q \in Requests, CommitEdit(q)
    PROVE  KeepsPlaces
<1> USE DEF VersionInductive
<1> DEFINE r == request[q]
           s == Synced(r, r.row.status)
<1>1. /\ r.pc = "ready" /\ r.kind = "edit" /\ r.row # NoDefinition
      /\ version' = [version EXCEPT ![r.id] = s]
      /\ overlapped' = overlapped \ {q} /\ Done(q)
  BY DEF CommitEdit
<1>2. Knows(q) /\ Asked(q) /\ r # Idle
  BY <1>1 DEF Inv, Idle
<1>3. r.id \in Definitions /\ r.row.status \in Statuses /\ r.arg \in Contents /\ Exists(r.id)
  BY <1>1, <1>2 DEF Knows, Asked
<1>4. PICK x \in Definitions, c \in Contents :
        x = r.id /\ definition' = [definition EXCEPT ![x].content = c]
  <2>1. definition[r.id].content \in Contents
    BY <1>3, RowTypes DEF Definition
  <2> QED BY <1>3, <2>1 DEF CommitEdit
<1>5. s \in Version /\ s.root = version[r.id].root /\ s.number = version[r.id].number
  BY <1>3, SyncedTypes
<1> HIDE DEF s
<1>6. /\ definition' \in [Definitions -> Definition \cup {NoDefinition}]
      /\ \A d \in Definitions :
           /\ definition'[d].root = definition[d].root
           /\ definition'[d].number = definition[d].number
           /\ definition'[d].source = definition[d].source
           /\ definition'[d].status = definition[d].status
           /\ definition'[d].locked = definition[d].locked
  <2>1. definition[x] \in Definition
    BY <1>3, <1>4, RowTypes
  <2>2. definition'[x] = [definition[x] EXCEPT !.content = c]
        /\ \A d \in Definitions \ {x} : definition'[d] = definition[d]
    BY <1>4 DEF TypeOK
  <2>3. /\ definition'[x] \in Definition
        /\ definition'[x].root = definition[x].root /\ definition'[x].number = definition[x].number
        /\ definition'[x].source = definition[x].source
        /\ definition'[x].status = definition[x].status
        /\ definition'[x].locked = definition[x].locked
    BY <2>1, <2>2 DEF Definition
  <2>4. definition' = [d \in Definitions |-> definition'[d]]
    BY <1>4 DEF TypeOK
  <2> QED BY <2>2, <2>3, <2>4 DEF TypeOK
<1>7. /\ version' \in [Definitions -> Version \cup {NoVersion}]
      /\ \A d \in Definitions : version'[d].root = version[d].root
                                /\ version'[d].number = version[d].number
  BY <1>1, <1>3, <1>5 DEF TypeOK
<1>8. TypeOK'
  BY <1>1, <1>6, <1>7, EndedType DEF TypeOK
<1>9. PastReviewIsLocked' /\ SameLines
  BY <1>6, <1>7 DEF PastReviewIsLocked, SameLines
<1> QED BY <1>8, <1>9 DEF KeepsPlaces

LEMMA CommitListPlaces ==
    ASSUME VersionInductive, NEW q \in Requests, CommitList(q)
    PROVE  KeepsPlaces
<1> USE DEF VersionInductive
<1> DEFINE r == request[q]
           s == Synced(r, r.row.status)
<1>1. /\ r.pc = "ready" /\ r.kind = "list"
      /\ version' = [version EXCEPT ![r.id] = s] /\ definition' = definition
      /\ overlapped' = overlapped \ {q} /\ Done(q)
  BY DEF CommitList
<1>2. Knows(q) /\ r # Idle
  BY <1>1 DEF Inv, Idle
<1>3. r.id \in Definitions /\ r.row.status \in Statuses /\ Exists(r.id)
  BY <1>1, <1>2 DEF Knows
<1>4. s \in Version /\ s.root = version[r.id].root /\ s.number = version[r.id].number
  BY <1>3, SyncedTypes
<1> HIDE DEF s
<1>5. /\ version' \in [Definitions -> Version \cup {NoVersion}]
      /\ \A d \in Definitions : version'[d].root = version[d].root
                                /\ version'[d].number = version[d].number
  BY <1>1, <1>3, <1>4 DEF TypeOK
<1>6. TypeOK'
  BY <1>1, <1>5, EndedType DEF TypeOK
<1>7. PastReviewIsLocked' /\ SameLines
  BY <1>1, <1>5 DEF PastReviewIsLocked, SameLines
<1> QED BY <1>6, <1>7 DEF KeepsPlaces

\* A transition to a status past review locks.
LEMMA CommitTransitionPlaces ==
    ASSUME VersionInductive, NEW q \in Requests, CommitTransition(q)
    PROVE  KeepsPlaces
<1> USE DEF VersionInductive
<1> DEFINE r == request[q]
           s == Synced(r, r.arg)
<1>1. /\ r.pc = "ready" /\ r.kind = "transition"
      /\ version' = [version EXCEPT ![r.id] = s]
      /\ overlapped' \subseteq Requests /\ Done(q)
  BY DEF CommitTransition, Passing, TypeOK
<1>2. Knows(q) /\ Asked(q) /\ r # Idle
  BY <1>1 DEF Inv, Idle
<1>3. r.id \in Definitions /\ r.arg \in Statuses /\ Exists(r.id)
  BY <1>1, <1>2 DEF Knows, Asked
<1>4. PICK x \in Definitions, st \in Statuses : x = r.id /\ st = r.arg
  BY <1>3
<1>5. definition[x] \in Definition
  BY <1>3, <1>4, RowTypes
<1>6. PICK lock \in BOOLEAN :
        /\ lock <=> definition[x].locked \/ st \in WORKFLOW_LOCKED_LIFECYCLE_STATUSES
        /\ definition' = [definition EXCEPT ![x].status = st, ![x].locked = lock]
  BY <1>3, <1>4, <1>5 DEF CommitTransition, Definition, TypeOK
<1>7. s \in Version /\ s.root = version[r.id].root /\ s.number = version[r.id].number
  BY <1>3, SyncedTypes
<1> HIDE DEF s
<1>8. /\ \A d \in Definitions \ {x} : definition'[d] = definition[d]
      /\ definition'[x] \in Definition
      /\ definition'[x].root = definition[x].root /\ definition'[x].number = definition[x].number
      /\ definition'[x].source = definition[x].source
      /\ definition'[x].status = st /\ definition'[x].locked = lock
  BY <1>5, <1>6 DEF TypeOK, Definition
<1>9. definition' \in [Definitions -> Definition \cup {NoDefinition}]
  <2>1. definition' = [d \in Definitions |-> definition'[d]]
    BY <1>6 DEF TypeOK
  <2> QED BY <1>8, <2>1 DEF TypeOK
<1>10. /\ version' \in [Definitions -> Version \cup {NoVersion}]
       /\ \A d \in Definitions : version'[d].root = version[d].root
                                 /\ version'[d].number = version[d].number
  BY <1>1, <1>3, <1>7 DEF TypeOK
<1>11. TypeOK'
  BY <1>1, <1>9, <1>10, EndedType DEF TypeOK
<1>12. st \notin {"none", "DRAFT", "IN_REVIEW"} => lock
  BY <1>6 DEF Statuses, WORKFLOW_LIFECYCLE_TRANSITIONS, WORKFLOW_LOCKED_LIFECYCLE_STATUSES
<1>13. PastReviewIsLocked' /\ SameLines
  BY <1>8, <1>10, <1>12 DEF PastReviewIsLocked, SameLines
<1> QED BY <1>11, <1>13 DEF KeepsPlaces

\* The first version begins its line.
LEMMA CommitFirstPlaces ==
    ASSUME VersionInductive, NEW q \in Requests, CommitFirst(q)
    PROVE  KeepsPlaces
<1> USE DEF VersionInductive
<1>1. /\ request[q].pc = "ready" /\ request[q].kind = "edit"
      /\ overlapped' = overlapped \ {q} /\ Done(q)
  BY DEF CommitFirst
<1>2. request[q] # Idle /\ Asked(q)
  BY <1>1 DEF Inv, Idle
<1>3. PICK d \in Definitions, c \in Contents : d = request[q].id /\ c = request[q].arg
  BY <1>1, <1>2, RequestRow DEF Asked
<1> DEFINE row == FirstVersion(d, c)
<1>4. /\ row \in Definition /\ row.root = d /\ row.number = 1 /\ row.source = "none"
      /\ row.status = "DRAFT"
      /\ HistoryOf(row) \in Version /\ HistoryOf(row).root = d /\ HistoryOf(row).number = 1
  <2>1. /\ row \in Definition /\ row.root = d /\ row.number = 1 /\ row.source = "none"
    BY FirstTypes
  <2>2. row.status = "DRAFT"
    BY FirstVersionRow, Zenon
  <2> HIDE DEF row
  <2> QED BY <2>1, <2>2, HistoryTypes
<1>5. CASE UNCHANGED <<definition, version>>
  BY <1>1, <1>5, EndedType, QuietPlaces DEF TypeOK
<1>6. CASE /\ ~Exists(d) /\ Unique(d, d, 1)
           /\ definition' = [definition EXCEPT ![d] = row]
           /\ version' = [version EXCEPT ![d] = HistoryOf(row)]
  <2> HIDE DEF row
  <2>1. /\ definition'[d] = row /\ version'[d] = HistoryOf(row)
        /\ \A e \in Definitions \ {d} : definition'[e] = definition[e] /\ version'[e] = version[e]
    BY <1>6 DEF TypeOK
  <2>2. TypeOK'
    BY <1>1, <1>4, <1>6, EndedType DEF TypeOK
  <2>3. PastReviewIsLocked'
    BY <1>4, <2>1 DEF PastReviewIsLocked
  <2>4. \A e \in Definitions : ~(definition[e].root = d /\ definition[e].number = 1)
    <3>1. \A e \in Definitions \ {d} : ~(version[e].root = d /\ version[e].number = 1)
      BY <1>6 DEF Unique
    <3>2. definition[d].root # d
      BY <1>6, RowTypes
    <3> QED BY <3>1, <3>2 DEF HistoryMatches
  <2>5. Cardinality(VersionsOf(d)) \in Nat
    BY FS_CardinalityType DEF Linear
  <2>6. Appends(d)
    BY <1>4, <1>6, <2>1, <2>4, <2>5 DEF Appends
  <2> QED BY <2>2, <2>3, <2>6 DEF KeepsPlaces
<1>7. CASE definition' # definition \/ version' # version
  BY <1>3, <1>6, <1>7 DEF CommitFirst
<1> QED BY <1>5, <1>7

\* A new version is the next of the line it was copied from, or is refused.
LEMMA CommitVersionPlaces ==
    ASSUME VersionInductive, NEW q \in Requests, CommitVersion(q)
    PROVE  KeepsPlaces
<1> USE DEF VersionInductive
<1> DEFINE r == request[q]
           row == NewVersion(r)
           s == Synced(r, r.row.status)
<1>1. /\ r.pc = "ready" /\ r.kind = "version"
      /\ overlapped' = overlapped \ {q} /\ Done(q)
  BY DEF CommitVersion
<1>2. Knows(q) /\ Asked(q) /\ r # Idle
  BY <1>1 DEF Inv, Idle
<1>3. /\ r.id \in Definitions /\ r.arg \in Definitions /\ r.row # NoDefinition
      /\ r.row.status \in Statuses /\ Exists(r.id)
      /\ definition[r.id].root = r.row.root /\ definition[r.id].number = r.row.number
      /\ r.next \in Nat /\ r.next > r.row.number
      /\ r.next <= Cardinality(VersionsOf(r.row.root)) + 1
  BY <1>1, <1>2 DEF Knows, Asked
<1>4. r.row \in Definition
  BY <1>2, <1>3, RequestRow
<1>5. /\ row \in Definition /\ row.root = r.row.root /\ row.number = r.next
      /\ row.source = r.id /\ row.status = "DRAFT"
  BY <1>3, <1>4 DEF NewVersion, Definition, Statuses, WORKFLOW_LIFECYCLE_TRANSITIONS
<1>6. s \in Version /\ s.root = version[r.id].root /\ s.number = version[r.id].number
  BY <1>3, SyncedTypes
<1>7. CASE UNCHANGED <<definition, version>>
  BY <1>1, <1>7, EndedType, QuietPlaces DEF TypeOK
<1>8. CASE /\ ~Exists(r.arg) /\ Unique(r.arg, row.root, row.number)
           /\ definition' = [definition EXCEPT ![r.arg] = row]
           /\ version' = [version EXCEPT ![r.arg] = HistoryOf(row), ![r.id] = s]
  <2> HIDE DEF row, s
  <2>1. r.arg # r.id
    BY <1>3, <1>8
  <2>2. HistoryOf(row) \in Version /\ HistoryOf(row).root = row.root
        /\ HistoryOf(row).number = row.number
    BY <1>5, HistoryTypes
  <2>3. /\ definition'[r.arg] = row /\ version'[r.arg] = HistoryOf(row) /\ version'[r.id] = s
        /\ \A e \in Definitions \ {r.arg} : definition'[e] = definition[e]
        /\ \A e \in Definitions \ {r.arg, r.id} : version'[e] = version[e]
    BY <1>3, <1>8, <2>1 DEF TypeOK
  <2>4. TypeOK'
    <3>1. definition' \in [Definitions -> Definition \cup {NoDefinition}]
      BY <1>5, <1>8 DEF TypeOK
    <3>2. version' \in [Definitions -> Version \cup {NoVersion}]
      BY <1>6, <1>8, <2>2 DEF TypeOK
    <3> QED BY <1>1, <3>1, <3>2, EndedType DEF TypeOK
  <2>5. PastReviewIsLocked'
    BY <1>5, <2>3 DEF PastReviewIsLocked
  <2>6. \A e \in Definitions : ~(definition[e].root = row.root /\ definition[e].number = row.number)
    <3>1. \A e \in Definitions \ {r.arg} :
            ~(version[e].root = row.root /\ version[e].number = row.number)
      BY <1>8 DEF Unique
    <3>2. definition[r.arg].root # row.root
      <4>1. definition[r.arg].root = "none" /\ row.root \in Definitions
        BY <1>3, <1>5, <1>8, RowTypes DEF Definition
      <4> QED BY <4>1, VersionsAssumption
    <3> QED BY <3>1, <3>2 DEF HistoryMatches
  <2>7. \A e \in Definitions \ {r.arg} :
          version'[e].root = version[e].root /\ version'[e].number = version[e].number
    BY <1>6, <2>3
  <2>8. row.number >= 1 /\ row.number <= Cardinality(VersionsOf(row.root)) + 1
        /\ definition[row.source].root = row.root /\ definition[row.source].number < row.number
    <3>1. r.row.number \in Nat
      BY <1>4 DEF Definition
    <3> QED BY <1>3, <1>5, <3>1
  <2>9. \E d \in Definitions : Appends(d)
    <3>1. PICK d \in Definitions : d = r.arg
      BY <1>3
    <3>2. definition'[d] = row /\ ~Exists(d)
      BY <1>8, <2>3, <3>1
    <3>3. version'[d].root = row.root /\ version'[d].number = row.number
      BY <2>2, <2>3, <3>1
    <3>4. \A e \in Definitions \ {d} :
             /\ definition'[e] = definition[e]
             /\ version'[e].root = version[e].root /\ version'[e].number = version[e].number
      BY <2>3, <2>7, <3>1
    <3>5. row \in Definition /\ row.source \in Definitions
      BY <1>3, <1>5
    <3> HIDE DEF r
    <3> QED BY <2>6, <2>8, <3>2, <3>3, <3>4, <3>5 DEF Appends
  <2> QED BY <2>4, <2>5, <2>9 DEF KeepsPlaces
<1>9. CASE definition' # definition \/ version' # version
  BY <1>8, <1>9 DEF CommitVersion
<1> QED BY <1>7, <1>9

-----------------------------------------------------------------------------
\* The invariant

\* What a request has asked for holds on through the steps of others.
LEMMA AskedKept ==
    ASSUME TypeOK, TypeOK', HistoryMatches, Linear, DescendsFromOlder,
           SameLines \/ \E d \in Definitions : Appends(d),
           NEW p \in Requests, request[p] # Idle, Asked(p), request'[p] = request[p]
    PROVE  Asked(p)'
<1> DEFINE r == request[p]
<1>1. r.id \in Definitions /\ r.row \in Definition \cup {NoDefinition}
  BY RequestRow
<1>2. \A root \in Definitions :
        /\ Cardinality(VersionsOf(root)) \in Nat /\ Cardinality(VersionsOf(root)') \in Nat
        /\ Cardinality(VersionsOf(root)') >= Cardinality(VersionsOf(root))
  <2>1. \A root \in Definitions : Cardinality(VersionsOf(root)) \in Nat
    BY FS_CardinalityType DEF Linear
  <2> QED BY <2>1, LinesStay, LinesGrow
<1>3. r.row # NoDefinition =>
        /\ Exists(r.id)' /\ definition'[r.id].root = r.row.root
        /\ definition'[r.id].number = r.row.number
  <2> SUFFICES ASSUME r.row # NoDefinition
               PROVE  /\ Exists(r.id)' /\ definition'[r.id].root = r.row.root
                      /\ definition'[r.id].number = r.row.number
    OBVIOUS
  <2>1. Exists(r.id) /\ definition[r.id].root = r.row.root /\ definition[r.id].number = r.row.number
    BY DEF Asked
  <2>2. definition[r.id].root \in Definitions
    BY <1>1, <2>1, RowTypes
  <2>3. /\ definition'[r.id].root = definition[r.id].root
        /\ definition'[r.id].number = definition[r.id].number
    BY <1>1, <2>1 DEF SameLines, Appends
  <2>4. definition'[r.id] # NoDefinition
    BY <2>2, <2>3, VersionsAssumption DEF NoDefinition
  <2> QED BY <2>1, <2>3, <2>4 DEF Exists
<1>4. r.pc = "ready" /\ r.kind = "version" =>
        /\ r.next \in Nat /\ r.next > r.row.number
        /\ r.next <= Cardinality(VersionsOf(r.row.root)') + 1
  <2> SUFFICES ASSUME r.pc = "ready", r.kind = "version"
               PROVE  /\ r.next \in Nat /\ r.next > r.row.number
                      /\ r.next <= Cardinality(VersionsOf(r.row.root)') + 1
    OBVIOUS
  <2>1. /\ r.next \in Nat /\ r.next > r.row.number
        /\ r.next <= Cardinality(VersionsOf(r.row.root)) + 1
    BY DEF Asked
  <2>2. CASE r.row \in Definition
    <3>1. PICK root \in Definitions : root = r.row.root
      BY <2>2 DEF Definition
    <3> QED BY <1>2, <2>1, <3>1
  <2>3. CASE r.row = NoDefinition
    <3>1. VersionsOf(r.row.root)' = {} /\ VersionsOf(r.row.root) = {}
      <4>1. r.row.root = "none"
        BY <2>3 DEF NoDefinition
      <4>2. \A d \in Definitions : Exists(d)' => definition'[d].root # "none"
        BY VersionsAssumption DEF TypeOK, Exists, Definition
      <4>3. \A d \in Definitions : Exists(d) => definition[d].root # "none"
        BY RowTypes
      <4> QED BY <4>1, <4>2, <4>3 DEF VersionsOf
    <3> QED BY <2>1, <3>1
  <2> QED BY <1>1, <2>2, <2>3
<1> QED BY <1>3, <1>4 DEF Asked

\* No request disturbs another, and each knows what it asks for.
LEMMA PlacesStep ==
    ASSUME VersionInductive, NEW q \in Requests,
           Begin(q) \/ ReadHistory(q) \/ RefuseVersion(q) \/ Commit(q)
    PROVE  /\ KeepsPlaces /\ (request'[q] = Idle \/ Asked(q)')
           /\ \A p \in Requests \ {q} : request'[p] = request[p]
<1> USE DEF VersionInductive
<1>1. CASE Begin(q)
  <2>1. PICK d \in Definitions :
          \/ \E c \in Contents : ReadDefinition(q, "edit", d, c)
          \/ \E s \in Statuses : ReadDefinition(q, "transition", d, s)
          \/ \E e \in Definitions : ReadDefinition(q, "version", d, e)
          \/ ReadDefinition(q, "list", d, "none")
    BY <1>1 DEF Begin
  <2>2. CASE \E c \in Contents : ReadDefinition(q, "edit", d, c)
    BY <2>2, ReadDefinitionPlaces DEF Kinds
  <2>3. CASE \E s \in Statuses : ReadDefinition(q, "transition", d, s)
    BY <2>3, ReadDefinitionPlaces DEF Kinds
  <2>4. CASE \E e \in Definitions : ReadDefinition(q, "version", d, e)
    BY <2>4, ReadDefinitionPlaces DEF Kinds
  <2>5. CASE ReadDefinition(q, "list", d, "none")
    BY <2>5, ReadDefinitionPlaces DEF Kinds
  <2> QED BY <2>1, <2>2, <2>3, <2>4, <2>5
<1>2. CASE ReadHistory(q)
  BY <1>2, ReadHistoryPlaces
<1>3. CASE RefuseVersion(q)
  <2>1. Done(q)
    BY <1>3 DEF RefuseVersion, Done
  <2> QED BY <1>3, <2>1, OthersEnd, RefuseVersionPlaces
<1>4. CASE Commit(q)
  <2>1. Done(q)
    BY <1>4 DEF Commit, CommitEdit, CommitFirst, CommitVersion, CommitTransition, CommitList
  <2>2. KeepsPlaces
    BY <1>4, CommitEditPlaces, CommitFirstPlaces, CommitVersionPlaces, CommitTransitionPlaces,
       CommitListPlaces DEF Commit
  <2> QED BY <2>1, <2>2, OthersEnd
<1> QED BY <1>1, <1>2, <1>3, <1>4

LEMMA VersionsStep == VersionInductive /\ [Next]_vars => VersionInductive'
<1> SUFFICES ASSUME VersionInductive, [Next]_vars PROVE VersionInductive'
  OBVIOUS
<1> USE DEF VersionInductive
<1>1. Inv'
  BY InvNext
<1>2. ASSUME NEW q \in Requests, Begin(q) \/ ReadHistory(q) \/ RefuseVersion(q) \/ Commit(q)
      PROVE  VersionInductive'
  <2>1. /\ KeepsPlaces /\ (request'[q] = Idle \/ Asked(q)')
        /\ \A p \in Requests \ {q} : request'[p] = request[p]
    BY <1>2, PlacesStep
  <2>2. TypeOK' /\ PastReviewIsLocked' /\ (SameLines \/ \E d \in Definitions : Appends(d))
    BY <2>1 DEF KeepsPlaces
  <2>3. HistoryMatches' /\ Linear' /\ DescendsFromOlder'
    BY <2>2, LinesStay, LinesGrow
  <2>4. ASSUME NEW p \in Requests PROVE request'[p] = Idle \/ Asked(p)'
    BY <2>1, <2>2, AskedKept
  <2> QED BY <1>1, <2>2, <2>3, <2>4
<1>3. CASE UNCHANGED vars
  <2>1. TypeOK' /\ PastReviewIsLocked' /\ DescendsFromOlder' /\ SameLines
    BY <1>3 DEF vars, TypeOK, PastReviewIsLocked, DescendsFromOlder, SameLines
  <2>2. HistoryMatches' /\ Linear'
    BY <2>1, LinesStay
  <2>3. ASSUME NEW p \in Requests PROVE request'[p] = Idle \/ Asked(p)'
    <3>1. request' = request
      BY <1>3 DEF vars
    <3> QED BY <2>1, <3>1, AskedKept
  <2> QED BY <1>1, <2>1, <2>2, <2>3
<1> QED BY <1>2, <1>3 DEF Next

LEMMA VersionsInit == Init => VersionInductive
<1> SUFFICES ASSUME Init PROVE VersionInductive
  OBVIOUS
<1>1. PICK D \in SUBSET Definitions, c \in Contents :
        definition = [d \in Definitions |-> IF d \in D THEN FirstVersion(d, c) ELSE NoDefinition]
  BY DEF Init
<1>2. /\ version = [d \in Definitions |-> IF Exists(d) THEN HistoryOf(definition[d]) ELSE NoVersion]
      /\ request = [q \in Requests |-> Idle]
      /\ operations = 0 /\ overlapped = {} /\ torn = {}
  BY DEF Init
<1>3. ASSUME NEW d \in Definitions
      PROVE  /\ Exists(d) => /\ definition[d] = FirstVersion(d, c) /\ definition[d] \in Definition
                             /\ definition[d].root = d /\ definition[d].number = 1
                             /\ definition[d].source = "none" /\ definition[d].status = "DRAFT"
                             /\ version[d] \in Version
                             /\ version[d].root = d /\ version[d].number = 1
             /\ ~Exists(d) => definition[d] = NoDefinition /\ version[d] = NoVersion
  <2>1. ~Exists(d) => definition[d] = NoDefinition /\ version[d] = NoVersion
    BY <1>2 DEF Exists
  <2>2. ASSUME Exists(d)
        PROVE  /\ definition[d] = FirstVersion(d, c) /\ definition[d] \in Definition
               /\ definition[d].root = d /\ definition[d].number = 1
               /\ definition[d].source = "none" /\ definition[d].status = "DRAFT"
               /\ version[d] \in Version /\ version[d].root = d /\ version[d].number = 1
    <3>1. definition[d] = FirstVersion(d, c) /\ version[d] = HistoryOf(definition[d])
      BY <1>1, <1>2, <2>2 DEF Exists
    <3> DEFINE row == FirstVersion(d, c)
    <3>2. /\ row \in Definition /\ row.root = d /\ row.number = 1 /\ row.source = "none"
      BY FirstTypes
    <3>3. row.status = "DRAFT"
      BY FirstVersionRow, Zenon
    <3>4. definition[d] = row
      BY <3>1
    <3> HIDE DEF row
    <3>5. HistoryOf(row) \in Version /\ HistoryOf(row).root = d /\ HistoryOf(row).number = 1
      BY <3>2, HistoryTypes
    <3>6. version[d] = HistoryOf(row)
      BY <3>1, <3>4
    <3> QED BY <3>1, <3>2, <3>3, <3>4, <3>5, <3>6
  <2> QED BY <2>1, <2>2
<1>4. TypeOK
  <2>1. definition \in [Definitions -> Definition \cup {NoDefinition}]
    BY <1>1, <1>3
  <2>2. version \in [Definitions -> Version \cup {NoVersion}]
    BY <1>2, <1>3
  <2> QED BY <1>2, <2>1, <2>2 DEF TypeOK
<1>5. HistoryMatches
  BY <1>3 DEF HistoryMatches, NoDefinition, NoVersion
<1>6. PastReviewIsLocked /\ DescendsFromOlder
  BY <1>3 DEF PastReviewIsLocked, DescendsFromOlder, NoDefinition
<1>7. Linear
  <2> SUFFICES ASSUME NEW root \in Definitions
               PROVE  /\ IsFiniteSet(VersionsOf(root))
                      /\ {definition[d].number : d \in VersionsOf(root)}
                           = 1 .. Cardinality(VersionsOf(root))
    BY DEF Linear
  <2>1. CASE Exists(root)
    <3>1. VersionsOf(root) = {root}
      BY <1>3, <2>1 DEF VersionsOf
    <3>2. IsFiniteSet({root}) /\ Cardinality({root}) = 1
      BY FS_Singleton
    <3>3. {definition[d].number : d \in {root}} = {1}
      BY <1>3, <2>1
    <3> QED BY <3>1, <3>2, <3>3
  <2>2. CASE ~Exists(root)
    <3>1. VersionsOf(root) = {}
      BY <1>3, <2>2 DEF VersionsOf
    <3>2. IsFiniteSet({}) /\ Cardinality({}) = 0
      BY FS_EmptySet
    <3> QED BY <3>1, <3>2
  <2> QED BY <2>1, <2>2
<1> QED BY <1>2, <1>4, <1>5, <1>6, <1>7, InvInit DEF VersionInductive

\* With any number of requests taking the same next number, the versions of a
\* workflow are numbered without a gap or a number used twice, each descends from
\* an older one, and what is past review is locked
\* (create_workflow_definition_version, transition_workflow_definition).
THEOREM VersionInvariance == Spec => []VersionInvariant
<1>1. Spec => []VersionInductive
  BY VersionsInit, VersionsStep, PTL DEF Spec
<1>2. VersionInductive => VersionInvariant
  BY DEF VersionInductive, VersionInvariant, Linear, NumbersAreConsecutive
<1> QED BY <1>1, <1>2, PTL
================================================================================
