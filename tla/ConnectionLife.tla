--------------------------- MODULE ConnectionLife ---------------------------
(***************************************************************************)
(* What a tcp_server promises its user about one connection: accepted,     *)
(* reported UP, reported DOWN, and only then freed; UP is reported once,   *)
(* and DOWN too, unless it Repeats.  TcpServer.tla, with its loops, queues *)
(* and shared pointers, is the implementation.                             *)
(***************************************************************************)
EXTENDS Naturals

CONSTANTS
  Conns,
  Repeats            \* TRUE: DOWN may be reported again

VARIABLES
  life,              \* life[c]: how far connection c has come
  downs              \* downs[c]: how often it was reported DOWN

vars == <<life, downs>>

Init ==
  /\ life = [c \in Conns |-> "none"]
  /\ downs = [c \in Conns |-> 0]

Goes(c, from, to) == life[c] = from /\ life' = [life EXCEPT ![c] = to]

\* A server without io threads reports UP within new_connection.
Accept(c) == (\E to \in {"accepted", "up"} : Goes(c, "none", to)) /\ UNCHANGED downs

Up(c) == Goes(c, "accepted", "up") /\ UNCHANGED downs

Down(c) ==
  /\ Goes(c, "up", "down") \/ (Repeats /\ Goes(c, "down", "down"))
  /\ downs' = [downs EXCEPT ![c] = @ + 1]

\* One step may free several: the functors of a batch die together.
FreeSome ==
  /\ \E gone \in SUBSET {c \in Conns : life[c] = "down"} :
       life' = [c \in Conns |-> IF c \in gone THEN "freed" ELSE life[c]]
  /\ UNCHANGED downs

Next == FreeSome \/ \E c \in Conns : Accept(c) \/ Up(c) \/ Down(c)

Spec == Init /\ [][Next]_vars
=============================================================================
