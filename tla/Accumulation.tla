---------------------------- MODULE Accumulation ----------------------------
(***************************************************************************)
(* What token-ledger-service-v2 reports from refinement and how its        *)
(* accumulation (accumulation.rs) takes a group of reports.  Roots are     *)
(* only compared, so they may be ledgers (Rollup) or Merkle roots          *)
(* (MerkleRollup).                                                         *)
(***************************************************************************)
EXTENDS SequencesExt

NoOutput == [ok |-> FALSE]
Output(previous, new) == [ok |-> TRUE, previous_root |-> previous, new_root |-> new]

\* previous_state_root of PendingAccumulateResult.
NoneYet == [is |-> "none"]
Some(root) == [is |-> "some", root |-> root]
Err == [is |-> "err"]

\* Faulty: an error is forgotten at the next item.
SingleStepForgets(acc, op, stored) ==
  LET current == IF acc.is = "some" THEN acc.root ELSE stored
  IN  IF op.previous_root = current THEN Some(op.new_root) ELSE Err

\* Faulty: the root the transition starts from is not compared.
SingleStepUnchecked(acc, op, stored) == IF acc.is = "err" THEN acc ELSE Some(op.new_root)

\* Faulty: every item is compared with the stored root.
SingleStepUnchained(acc, op, stored) ==
  IF acc.is = "err" THEN acc
  ELSE IF op.previous_root = stored THEN Some(op.new_root) ELSE Err

\* on_work_item_record_single_step
SingleStep(acc, op, stored) ==
  LET current == IF acc.is = "some" THEN acc.root ELSE stored IN
  IF acc.is = "err" THEN acc
  ELSE IF op.previous_root = current THEN Some(op.new_root) ELSE Err

\* on_work_item_record: failed and undecodable outputs are passed over.
OnWorkItemRecord(acc, record, stored) ==
  IF record.ok THEN SingleStep(acc, record, stored) ELSE acc

\* on_accumulate_items: what it leaves in client_root.
Accumulated(stored, items) ==
  LET acc[i \in 0..Len(items)] ==
        IF i = 0 THEN NoneYet ELSE OnWorkItemRecord(acc[i - 1], items[i], stored)
      last == acc[Len(items)]
  IN  IF last.is = "some" THEN last.root ELSE stored

=============================================================================
