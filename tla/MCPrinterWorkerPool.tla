------------------------- MODULE MCPrinterWorkerPool -------------------------
(***************************************************************************)
(* A small instance of PrinterWorkerPool for TLC: three jobs, two workers. *)
(***************************************************************************)
EXTENDS PrinterWorkerPool

CONSTANTS p1, p2, colour

MCPages == <<3, 1, 2>>
MCNeeds == <<{}, {}, {colour}>>
MCBasePriority == <<1, 2, 4>>
MCWorkerOrder == <<p1, p2>>

Idle(status, supports, pagesPerMinute) ==
  [status |-> status, activeJob |-> None, supports |-> supports,
   pagesPerMinute |-> pagesPerMinute]

(* Two equal printers, a fast one and a slow one that prints in colour,    *)
(* one printer, and one that is not enough.  At three pages a minute of    *)
(* four units a page takes two units, not a unit and a third.              *)
MCFleets ==
  { <<Idle("READY", {colour}, 2), Idle("READY", {colour}, 2)>>,
    <<Idle("READY", {}, 4), Idle("READY", {colour}, 3)>>,
    <<Idle("READY", {colour}, 3), Idle("READY", {colour}, 1)>>,
    <<Idle("READY", {colour}, 4), Idle("OFFLINE", {}, 4)>>,
    <<Idle("READY", {}, 3), Idle("OFFLINE", {colour}, 4)>> }

MCPrinterFleets ==
  {[p \in Printers |-> IF p = p1 THEN f[1] ELSE f[2]] : f \in MCFleets}
=============================================================================
