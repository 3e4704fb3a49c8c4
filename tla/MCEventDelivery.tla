-------------------------- MODULE MCEventDelivery --------------------------
(***************************************************************************)
(* Commands that print a page, and ticks that print a page, the last or    *)
(* not, and hand a printer to another job; batches of three events and     *)
(* replays of two.                                                         *)
(***************************************************************************)
EXTENDS EventDelivery

Of(command, kind) == [command |-> command, kind |-> kind]

MCMutations == {<<Of(1, "PROGRESS"), Of(2, "DISPATCHED")>>,
                <<Of(1, "PROGRESS"), Of(1, "COMPLETED"), Of(2, "DISPATCHED")>>}

(* Fewer, for a second load at a time. *)
MCPages == {<<Of(1, "PROGRESS")>>}
MCPrints == MCPages \cup
              {<<Of(1, "PROGRESS"), Of(1, "COMPLETED"), Of(2, "DISPATCHED")>>}
=============================================================================
