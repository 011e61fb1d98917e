---------------------------- MODULE OutputStream ----------------------------
(***************************************************************************)
(* What a tcp_connection promises about the messages given to send: they   *)
(* are put into the stream whole, one behind the other, those of a thread  *)
(* in its order; the stream reaches the wire in this order; and the FIN    *)
(* comes after all of it, unless the connection is down.  TcpConnection.tla *)
(* is the implementation.                                                  *)
(***************************************************************************)
EXTENDS Naturals, Sequences, Functions

CONSTANTS
  Messages,          \* records with fields from and no, the sender's count
  MsgLen             \* bytes of a message; each byte is its message

VARIABLES
  pending,           \* in the stream, not yet on the wire
  wire,              \* on the wire
  fin,               \* the FIN is on the wire
  down               \* the connection is closed, and nothing more promised

vars == <<pending, wire, fin, down>>

Stream == wire \o pending

\* A message may be put behind the stream: its sender has not overtaken itself.
InTurn(m) == \A b \in Range(Stream) : b.from = m.from => b.no < m.no

Init ==
  /\ pending = <<>>
  /\ wire = <<>>
  /\ fin = FALSE
  /\ down = FALSE

\* Some bytes of the stream, with data put behind it first, reach the wire.
Move(data) ==
  LET all == pending \o data
  IN \E n \in 0..Len(all) :
       /\ fin => n = 0
       /\ wire' = wire \o SubSeq(all, 1, n)
       /\ pending' = SubSeq(all, n + 1, Len(all))

Next ==
  /\ \/ Move(<<>>)
     \/ \E m \in Messages : InTurn(m) /\ Move([i \in 1..MsgLen |-> m])
  /\ fin' \in {fin, TRUE}
  /\ (fin' /\ ~fin) => (pending' = <<>> \/ down)
  /\ down' \in {down, TRUE}

Spec == Init /\ [][Next]_vars
=============================================================================
