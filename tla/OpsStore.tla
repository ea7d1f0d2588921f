------------------------------ MODULE OpsStore ------------------------------
(***************************************************************************)
(* What the operations of the operator's store (frontend/src/data/ops.ts)  *)
(* make of its state: the session's role and name, the workflow of each    *)
(* exception, and the audit log, newest entry first.  Which role may do    *)
(* what is config/roles.ts.  Ids and time stamps of entries are left out.  *)
(***************************************************************************)
EXTENDS Naturals, Sequences, SequencesExt

CONSTANTS
    None,
    Routes,     \* of each role, the pages it may open
    Acting,     \* the roles with canAct
    MaxAudit    \* the log keeps so many entries (500)

ASSUME AuditAssumption == MaxAudit \in Nat

WorkflowStatus == { "open", "assigned", "escalated", "resolved", "snoozed" }

FreshOps == [ role |-> "super_admin", user |-> "Operator", exceptions |-> << >>, audit |-> << >> ]

NewWorkflow == [ status |-> "open", assignee |-> None, until |-> None, notes |-> << >> ]

WorkflowOf(ops, e) == IF e \in DOMAIN ops.exceptions THEN ops.exceptions[e] ELSE NewWorkflow

CanAct(ops) == ops.role \in Acting

\* The page where the role is chosen stays reachable from every role.
RoleAllows(role, page) == page = "admin" \/ page \in Routes[role]

Entry(ops, what) ==
    [ actor |-> ops.user, role |-> ops.role,
      action |-> what.action, target |-> what.target, scope |-> what.scope ]

\* The newest entries first.
LogActions_Unbounded(ops, new) ==   \* mutant
    [ ops EXCEPT !.audit = [ i \in DOMAIN new |-> Entry(ops, new[i]) ] \o @ ]
LogActions(ops, new) ==
    LET log == [ i \in DOMAIN new |-> Entry(ops, new[i]) ] \o ops.audit
    IN  [ ops EXCEPT !.audit = IF Len(log) > MaxAudit THEN SubSeq(log, 1, MaxAudit) ELSE log ]

LogAction(ops, what) == LogActions(ops, << what >>)

Local(action, target) == [ action |-> action, target |-> target, scope |-> "local" ]

SetRole(ops, role) == LogAction([ ops EXCEPT !.role = role ], Local("switched role", role))

SetUserName(ops, name) == [ ops EXCEPT !.user = name ]

\* What a patch leaves out, here None, stays as it is.
Patch(status, assignee, until) == [ status |-> status, assignee |-> assignee, until |-> until ]

Amended(w, patch) ==
    [ w EXCEPT !.status = patch.status,
               !.assignee = IF patch.assignee = None THEN @ ELSE patch.assignee,
               !.until = IF patch.until = None THEN @ ELSE patch.until ]

Reworked(ops, new) ==
    [ ops EXCEPT !.exceptions =
        [ e \in DOMAIN @ \cup DOMAIN new |-> IF e \in DOMAIN new THEN new[e] ELSE @[e] ] ]

\* One after the other, each with its own entry.
UpdateExceptions(ops, es, patch, label) ==
    LogActions(Reworked(ops, [ e \in ToSet(es) |-> Amended(WorkflowOf(ops, e), patch) ]),
               [ i \in DOMAIN es |-> Local(patch.status, label[Reverse(es)[i]]) ])

UpdateException(ops, e, patch, label) == UpdateExceptions(ops, << e >>, patch, label)

AddExceptionNote(ops, e) ==
    LogAction(Reworked(ops, [ x \in { e } |->
                  [ WorkflowOf(ops, x) EXCEPT !.notes = Append(@, ops.user) ] ]),
              Local("note", e))

----------------------------------------------------------------------------
\* How a list tells which exceptions still need somebody.

\* The Exceptions page reopens what was snoozed until a time that has passed.
StatusOf(ops, e, time) ==
    LET w == WorkflowOf(ops, e)
    IN  IF w.status = "snoozed" /\ w.until # None /\ w.until < time THEN "open" ELSE w.status

\* The bell, the control tower and the cards do not look at the time.
ListedElsewhere(ops, e) == WorkflowOf(ops, e).status \notin { "resolved", "snoozed" }
=============================================================================
