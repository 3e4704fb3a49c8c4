------------------------- MODULE MCAutomationDaemon -------------------------
(***************************************************************************)
(* A small instance of AutomationDaemon for TLC.                           *)
(***************************************************************************)
EXTENDS AutomationDaemon

CONSTANTS j1, j2, p1, p2

(* One job of two pages that either printer can print, one of one page for *)
(* the slower printer only.                                                *)
MCPages == [j \in Jobs |-> IF j = j1 THEN 2 ELSE 1]
MCCanPrint == [j \in Jobs |-> IF j = j1 THEN Printers ELSE {p2}]
MCPageDuration == [p \in Printers |-> IF p = p1 THEN 1 ELSE 2]

(* Pages longer than the lease, and no multiple of a tick.                 *)
MCSlowPages == [p \in Printers |-> 3]
=============================================================================
