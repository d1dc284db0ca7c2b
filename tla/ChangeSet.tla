----------------------------- MODULE ChangeSet -----------------------------
(***************************************************************************)
(* One change set: a bundle of settings that is reviewed, applied and       *)
(* rolled back together (internal/proxy/admin_change_sets.go,               *)
(* internal/store/change_sets.go).                                          *)
(*                                                                          *)
(* A handler reads the row, checks its status, changes the settings one by  *)
(* one in transactions of their own, and writes the whole row back without  *)
(* a condition on the status it read.  Nothing else changes the settings    *)
(* of the set in this model.                                                *)
(***************************************************************************)
EXTENDS Naturals

CONSTANTS
  Handlers,  \* requests that are handled at the same time
  NumItems,  \* the settings the set changes
  Values,    \* values a setting accepts
  Bad,       \* a value that validation refuses
  Env,       \* no override: the value of the environment
  Blank,     \* the settings whose environment value is empty and refused
  None,      \* no prior value captured
  Faulty,    \* what may fail: "read" or "write" of the settings, a "handler"
  MaxFaults  \* bound: failures

(* What a set and its settings look like. *)
ConstantsOK ==
  /\ Handlers # {} /\ NumItems \in Nat \ {0}
  /\ Blank \subseteq 1..NumItems
  /\ {Bad, Env, None} \cap Values = {}
  /\ Bad # Env /\ Bad # None /\ Env # None
  /\ Faulty \subseteq {"read", "write", "handler"}
  /\ MaxFaults \in Nat

Items == 1..NumItems

VARIABLES
  table,    \* the effective value of each setting of the set
  row,      \* the row of change_sets
  handler,  \* what each handler is doing, with the row it read
  original, \* the settings before the set first changed one of them
  faults

vars == <<table, row, handler, original, faults>>

NoPrior == [i \in Items |-> None]
NoRow == [status |-> "none", items |-> NoPrior, reviewed |-> FALSE, prior |-> NoPrior]
Free == [pc |-> "free", op |-> "none", row |-> NoRow, prior |-> NoPrior, next |-> 1]

(* The statuses an operation starts from and leads to. *)
From == [submit |-> "draft", approve |-> "pending", apply |-> "approved", rollback |-> "applied"]
To == [submit |-> "pending", approve |-> "approved", apply |-> "applied", rollback |-> "rolled_back"]
Operations == DOMAIN From
FirstStep == [submit |-> "commit", approve |-> "commit", apply |-> "list", rollback |-> "write"]
Status == {"none", "draft", "deleted"} \cup {To[op] : op \in Operations}

Valid(v) == v \in Values

(* No setting ever holds a value that validation refuses. *)
TypeOK ==
  /\ table \in [Items -> Values \cup {Env}]
  /\ row.status \in Status /\ row.reviewed \in BOOLEAN
  /\ row.prior \in [Items -> Values \cup {Env, None}]
  /\ \A h \in Handlers :
       /\ handler[h].pc \in {"free", "list", "write", "commit"}
       /\ handler[h].next \in 1..(NumItems + 1)
  /\ faults \in 0..MaxFaults

Init ==
  /\ table \in [Items -> Values \cup {Env}]
  /\ row = NoRow
  /\ handler = [h \in Handlers |-> Free]
  /\ original = NoPrior
  /\ faults = 0

Fault(what) == what \in Faulty /\ faults < MaxFaults /\ faults' = faults + 1

-----------------------------------------------------------------------------
(* CreateChangeSet stores the items as they are; they are validated when    *)
(* the set is applied.                                                      *)
Create ==
  /\ row.status = "none"
  /\ \E items \in [Items -> Values \cup {Bad}] :
       row' = [NoRow EXCEPT !.status = "draft", !.items = items]
  /\ UNCHANGED <<table, handler, original, faults>>

(* DeleteChangeSet takes a set in any status. *)
Delete ==
  /\ row.status \notin {"none", "deleted"}
  /\ row' = [NoRow EXCEPT !.status = "deleted"]
  /\ UNCHANGED <<table, handler, original, faults>>

(* handleAdminChangeSetByID reads the row; the operation checks its status. *)
Begin(h, op) ==
  /\ handler[h].pc = "free"
  /\ row.status = From[op]
  /\ handler' = [handler EXCEPT ![h] =
       [Free EXCEPT !.pc = FirstStep[op], !.op = op, !.row = row, !.prior = row.prior]]
  /\ UNCHANGED <<table, row, original, faults>>

(* changeSetApply reads the settings, refuses the set when an item is not   *)
(* valid and captures the effective values.  An error of the read is        *)
(* dropped: the values captured are then the environment's.                 *)
Capture(h) ==
  /\ handler[h].pc = "list"
  /\ IF \A i \in Items : Valid(handler[h].row.items[i])
     THEN \/ /\ handler' = [handler EXCEPT ![h].pc = "write", ![h].prior = table]
             /\ UNCHANGED faults
          \/ /\ Fault("read")
             /\ handler' = [handler EXCEPT ![h].pc = "write", ![h].prior = [i \in Items |-> Env]]
     ELSE handler' = [handler EXCEPT ![h] = Free] /\ UNCHANGED faults
  /\ UNCHANGED <<table, row, original>>

(* What the handler is about to write to its next setting, and whether      *)
(* persistSettingValue accepts it.                                          *)
Proposed(h) ==
  LET r == handler[h] IN IF r.op = "apply" THEN r.row.items[r.next] ELSE r.prior[r.next]
Accepted(h) == ~(Proposed(h) = Env /\ handler[h].next \in Blank)

GoOn(h) ==
  handler' = [handler EXCEPT ![h].next = @ + 1,
                ![h].pc = IF handler[h].next = NumItems THEN "commit" ELSE "write"]

(* One setting is written.  The prior value of a setting without an         *)
(* override is written as an override with the environment's value.         *)
WriteItem(h) ==
  /\ handler[h].pc = "write" /\ Accepted(h)
  /\ table' = [table EXCEPT ![handler[h].next] = Proposed(h)]
  /\ original' = IF original = NoPrior THEN table ELSE original
  /\ GoOn(h)
  /\ UNCHANGED <<row, faults>>

(* A write that fails ends an application, which stays approved and keeps   *)
(* what it wrote; a rollback goes on with the next setting.                 *)
WriteFails(h) ==
  /\ handler[h].pc = "write"
  /\ IF Accepted(h) THEN Fault("write") ELSE UNCHANGED faults
  /\ IF handler[h].op = "apply" THEN handler' = [handler EXCEPT ![h] = Free] ELSE GoOn(h)
  /\ UNCHANGED <<table, row, original>>

\* Mutant: the prior values are captured after the settings were written.
CommitCapturesLate(h) ==
  LET r == handler[h] IN
  /\ r.pc = "commit"
  /\ row' = IF row.status = "deleted" THEN row
            ELSE [r.row EXCEPT !.status = To[r.op], !.reviewed = @ \/ r.op = "approve",
                    !.prior = IF r.op = "apply" THEN table ELSE r.prior]
  /\ handler' = [handler EXCEPT ![h] = Free]
  /\ UNCHANGED <<table, original, faults>>

(* UpdateChangeSet writes the row the handler read, with its changes, over  *)
(* whatever the row is now; a deleted row stays deleted.                    *)
Commit(h) ==
  LET r == handler[h] IN
  /\ r.pc = "commit"
  /\ row' = IF row.status = "deleted" THEN row
            ELSE [r.row EXCEPT !.status = To[r.op], !.reviewed = @ \/ r.op = "approve", !.prior = r.prior]
  /\ handler' = [handler EXCEPT ![h] = Free]
  /\ UNCHANGED <<table, original, faults>>

(* The process ends, or the update of the row fails. *)
HandlerDies(h) ==
  /\ handler[h].pc # "free"
  /\ Fault("handler")
  /\ handler' = [handler EXCEPT ![h] = Free]
  /\ UNCHANGED <<table, row, original>>

-----------------------------------------------------------------------------
Next ==
  \/ Create \/ Delete
  \/ \E h \in Handlers :
       \/ \E op \in Operations : Begin(h, op)
       \/ Capture(h) \/ WriteItem(h) \/ WriteFails(h) \/ Commit(h) \/ HandlerDies(h)

Spec == Init /\ [][Next]_vars

-----------------------------------------------------------------------------
(* Properties *)

(* No setting is touched by a set nobody approved: however requests         *)
(* overlap, an applied or rolled back set names its reviewer.               *)
AppliedNamesReviewer == row.status \in {"approved", "applied", "rolled_back"} => row.reviewed

(* An applied set can be rolled back: it holds a prior value of each item,  *)
(* whichever handlers wrote the row before and after.                       *)
AppliedHasPrior == row.status \in {"applied", "rolled_back"} => \A i \in Items : row.prior[i] # None

(* An application that is about to be recorded has written every setting: a *)
(* failure in the middle leaves the set approved.                           *)
AppliedIsComplete ==
  \A h \in Handlers :
    handler[h].pc = "commit" /\ handler[h].op = "apply" => table = handler[h].row.items

(* proxy/admin_change_sets.go:256: a set that was rolled back has restored  *)
(* the settings it changed, unless a read or a write of them failed or the  *)
(* value to restore is one of the environment's that validation refuses.    *)
Restorable == \A i \in Blank : original[i] # Env

RollbackRestores ==
  faults = 0 /\ Restorable /\ row.status = "rolled_back" => table = original
=============================================================================
