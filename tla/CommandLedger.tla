--------------------------- MODULE CommandLedger ---------------------------
(***************************************************************************)
(* What the simulation service promises its clients, without mutex, forks, *)
(* caches or crashes: one history that only grows, in which every command  *)
(* of a request follows the one before it, and no key has two requests.    *)
(* A client that is told its request was accepted is told where it stands  *)
(* in the history, whoever asks and however often; a reader is told a      *)
(* length of the history that it has reached, and never a smaller one.     *)
(***************************************************************************)
EXTENDS Naturals, Sequences

CONSTANTS
  Clients, None,
  System,    \* who writes the history when the service restarts
  Key,       \* the idempotency key of each client's request, or None
  Body,      \* what each client asks for
  Size       \* the commands in each client's request; 0: it only reads

VARIABLES
  history,   \* the commands that happened: whose, and which of the request
  told       \* the last success each client was told of

(* The commands of one request, in their order. *)
Block(c) == [i \in 1..Size[c] |-> [by |-> c, step |-> i]]

SameRequest(c, d) ==
  c = d \/ (Key[c] # None /\ Key[c] = Key[d] /\ Body[c] = Body[d])

(* Where a request that stands for c's ends in the history. *)
Ends(h, c) ==
  {n \in 1..Len(h) : \E d \in Clients : /\ h[n] = [by |-> d, step |-> Size[d]]
                                       /\ SameRequest(c, d)}

Init == history = <<>> /\ told = [c \in Clients |-> 0]

Apply(c) ==
  /\ Size[c] > 0
  /\ Key[c] # None =>
       \A n \in 1..Len(history) :
          history[n].by = System \/ Key[history[n].by] # Key[c]
  /\ history' = history \o Block(c)
  /\ UNCHANGED told

Interrupt ==
  /\ history' = Append(history, [by |-> System, step |-> 1])
  /\ UNCHANGED told

Tell(c) ==
  /\ \E n \in 0..Len(history) :
       /\ n >= told[c]
       /\ Size[c] > 0 => n \in Ends(history, c)
       /\ told' = [told EXCEPT ![c] = n]
  /\ UNCHANGED history

Next == \/ \E c \in Clients : Apply(c) \/ Tell(c)
        \/ Interrupt

Spec == Init /\ [][Next]_<<history, told>>
=============================================================================
