------------------------------ MODULE EventTypes ------------------------------
(* The catalogue entry of one event type under concurrent requests             *)
(* (event_type_usecase.go, event_type_repo.go).                                *)
(*                                                                             *)
(* Creating, archiving and unarchiving are one statement each.  An update      *)
(* reads the row, checks that it is not archived and writes both columns of    *)
(* its copy back.  A statement that took effect counts, also when its answer   *)
(* was lost and the caller was told of an error.                               *)
EXTENDS Integers, FiniteSets

CONSTANTS
  Clients,
  Texts,    \* descriptions, and schemas
  MaxOps

EventTypesAssumption == Texts # {} /\ MaxOps \in Nat

VARIABLES
  row,       \* the event_type row: none, live or archived, and its two columns
  req,       \* per client: an update between its read and its write
  ops,       \* requests begun
  ups,       \* history: creates and unarchives that took effect
  downs,     \* history: archives that took effect
  intended,  \* history: the columns as each statement was to change them
  raced      \* history: an update wrote from a copy that was no longer the row

vars == <<row, req, ops, ups, downs, intended, raced>>

Fields == {"description", "schemas"}
Columns == [Fields -> Texts]
Idle == [field |-> "none", text |-> CHOOSE t \in Texts : TRUE]

(* One type invariant. *)
TypeOK ==
  /\ row.state \in {"none", "live", "archived"} /\ row.cols \in Columns
  /\ \A c \in Clients : req[c].in.field \in Fields \cup {"none"} /\ req[c].copy \in Columns
  /\ {ops, ups, downs} \subseteq 0..MaxOps
  /\ intended \in Columns /\ raced \in BOOLEAN

Init ==
  /\ \E k \in Columns : row = [state |-> "none", cols |-> k] /\ intended = k
  /\ req = [c \in Clients |-> [in |-> Idle, copy |-> row.cols]]
  /\ ops = 0 /\ ups = 0 /\ downs = 0 /\ raced = FALSE

Count == ops < MaxOps /\ ops' = ops + 1

-------------------------------------------------------------------------------
\* INSERT ... ON CONFLICT DO UPDATE WHERE deleted_at IS NOT NULL: an archived name
\* is revived with the new columns, a live one is a conflict.
UpsertAny(k) == row' = [state |-> "live", cols |-> k]
UpsertKeep(k) ==
  /\ row.state # "live"
  /\ row' = [state |-> "live", cols |-> IF row.state = "archived" THEN row.cols ELSE k]
Upsert(k) ==
  /\ row.state # "live"
  /\ row' = [state |-> "live", cols |-> k]

CreateEventType(k) ==
  /\ Count /\ Upsert(k)
  /\ ups' = ups + 1 /\ intended' = k
  /\ UNCHANGED <<req, downs, raced>>

\* setDeletedAt with its predicate.
SetArchived(from, to) ==
  /\ row.state = from
  /\ row' = [row EXCEPT !.state = to]
ArchiveEventType ==
  /\ Count /\ SetArchived("live", "archived")
  /\ downs' = downs + 1
  /\ UNCHANGED <<req, ups, intended, raced>>
UnarchiveEventType ==
  /\ Count /\ SetArchived("archived", "live")
  /\ ups' = ups + 1
  /\ UNCHANGED <<req, downs, intended, raced>>

\* GetEventType, archived ones included; UpdateEventType refuses those.
BeginUpdate(c, f, t) ==
  /\ Count /\ req[c].in.field = "none" /\ row.state = "live"
  /\ req' = [req EXCEPT ![c] = [in |-> [field |-> f, text |-> t], copy |-> row.cols]]
  /\ UNCHANGED <<row, ups, downs, intended, raced>>

\* UPDATE ... SET both columns WHERE deleted_at IS NULL.
WriteRowAny(k) == row.state # "none" /\ row' = [row EXCEPT !.cols = k]
WriteRow(k) == row.state = "live" /\ row' = [row EXCEPT !.cols = k]

UpdateEventType(c) ==
  LET in == req[c].in IN
  /\ in.field \in Fields
  /\ WriteRow([req[c].copy EXCEPT ![in.field] = in.text])
  /\ intended' = [intended EXCEPT ![in.field] = in.text]
  /\ raced' = (raced \/ req[c].copy # row.cols)
  /\ req' = [req EXCEPT ![c].in = Idle]
  /\ UNCHANGED <<ops, ups, downs>>

\* No live row is left, the schema is not JSON, or a statement failed.
UpdateFails(c) ==
  /\ req[c].in.field \in Fields
  /\ req' = [req EXCEPT ![c].in = Idle]
  /\ UNCHANGED <<row, ops, ups, downs, intended, raced>>

Next ==
  \/ \E k \in Columns : CreateEventType(k)
  \/ ArchiveEventType \/ UnarchiveEventType
  \/ \E c \in Clients : \/ \E f \in Fields, t \in Texts : BeginUpdate(c, f, t)
                        \/ UpdateEventType(c) \/ UpdateFails(c)

Spec == Init /\ [][Next]_vars

-------------------------------------------------------------------------------
(* Properties. *)

(* Of the creates and unarchives that took effect, all but the last were       *)
(* undone by an archive, so two clients are never both told that they brought  *)
(* the event type to life unless it was archived in between (the WHERE clauses *)
(* of the upsert and of setDeletedAt).                                         *)
LifecycleAddsUp == ups - downs = IF row.state = "live" THEN 1 ELSE 0

(* A retired event type still renders as it was: while it is archived its      *)
(* columns do not change, even for an update that read it before.              *)
FrozenWhileArchived == row.state = "archived" /\ row'.state = "archived" => row' = row
ArchivedIsFrozen == [][FrozenWhileArchived]_vars

(* The columns are what the statements that took effect were to make of them:  *)
(* a create sets both, also on an archived name, and an update sets its field  *)
(* only, unless it wrote from a copy that was no longer the row.               *)
CatalogueIsKept == ~raced /\ row.state # "none" => row.cols = intended
===============================================================================
