------------------------- MODULE SettingsTransaction -------------------------
(* What one settings channel promises: it runs one transaction at a time, in  *)
(* the order of docs/settings.md.  A transaction enters settings mode, does   *)
(* its work, reads the settings back and leaves settings mode.  Each request  *)
(* goes out at most once and before the deadline, and a transaction ends      *)
(* early only when its deadline has passed.                                   *)
VARIABLE txn   \* asked: the current request was sent; overdue: deadline passed

Ops    == {"init", "retrieve", "update", "reset"}
Phases == {"enter", "work", "read", "exit"}

Stage(op, phase, asked, overdue) ==
  [op |-> op, phase |-> phase, asked |-> asked, overdue |-> overdue]

Idle        == Stage("none", "none", FALSE, FALSE)
Opening(op) == Stage(op, "enter", FALSE, FALSE)

\* The phases an answer may lead to.  The work of an init is several
\* exchanges, and so is reading back on channel E.
Following(op, phase) ==
  CASE phase = "enter" -> IF op = "retrieve" THEN {"read"} ELSE {"work"}
    [] phase = "work"  -> IF op = "init" THEN {"work", "exit"} ELSE {"read"}
    [] phase = "read"  -> {"read", "exit"}
    [] OTHER           -> {}

Init == txn = Opening("init")

Begin == /\ txn = Idle
         /\ \E op \in Ops \ {"init"} : txn' = Opening(op)

Ask == /\ txn # Idle
       /\ ~txn.asked
       /\ ~txn.overdue
       /\ txn' = Stage(txn.op, txn.phase, TRUE, FALSE)

Answer == /\ txn # Idle
          /\ \E p \in Following(txn.op, txn.phase) :
               txn' = Stage(txn.op, p, FALSE, txn.overdue)

Finish == /\ txn.phase = "exit"
          /\ txn' = Idle

Expire == /\ txn # Idle
          /\ txn' = Stage(txn.op, txn.phase, txn.asked, TRUE)

GiveUp == /\ txn.overdue
          /\ txn' = Idle

Next == Begin \/ Ask \/ Answer \/ Finish \/ Expire \/ GiveUp

Spec == Init /\ [][Next]_txn
=============================================================================
