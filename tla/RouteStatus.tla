---------------------------- MODULE RouteStatus -----------------------------
(***************************************************************************)
(* The verdicts a net collects on its way through the router, and how the  *)
(* verdict of a later stage is combined with the one it has (db/Stat.h,    *)
(* db/Stat.cpp).                                                           *)
(***************************************************************************)

SuccStatus == {"SUCC_NORMAL", "SUCC_ONE_PIN", "SUCC_CONN_EXT_PIN"}

FailStatus ==
  {"FAIL_UNPROCESSED", "FAIL_PIN_OUT_OF_GRID", "FAIL_DETACHED_GUIDE",
   "FAIL_DETACHED_PIN", "FAIL_DISCONNECTED_GRID_GRAPH", "FAIL_CONN_EXT_PIN"}

Status == SuccStatus \cup FailStatus

isSucc(status) == status \in SuccStatus

\* operator&: the first failure, else the first remark, else normal
Both(lhs, rhs) ==
  CASE ~isSucc(lhs)         -> lhs
    [] isSucc(lhs) /\ ~isSucc(rhs) -> rhs
    [] isSucc(lhs) /\ isSucc(rhs) /\ lhs # "SUCC_NORMAL" -> lhs
    [] OTHER -> rhs
=============================================================================
