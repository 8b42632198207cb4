----------------------------- MODULE MCMsgQueue -----------------------------
(* Three threads (main, a charging task, a station) on a ring of two slots. *)
EXTENDS MsgQueue, TLC

CONSTANTS t1, t2, t3, START_CHARGE_MSG_MACRO, ARM_IN_MSG_MACRO

MCThreads == {t1, t2, t3}
MCTypes == {START_CHARGE_MSG_MACRO, ARM_IN_MSG_MACRO}
Symmetry == Permutations(MCThreads)
=============================================================================
