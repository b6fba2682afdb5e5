----------------------------- MODULE FifoChannel ------------------------------
(***************************************************************************)
(* What a Channel promises its reader: the data the peer sends, from some  *)
(* packet on, in the order in which it was sent and with none left out;    *)
(* and nothing is added once the Channel has been closed.                  *)
(***************************************************************************)
EXTENDS Integers, Sequences

VARIABLES
  pending,  (* packets that have arrived and have not been read *)
  taken,    (* the last packet read, 0 when there is none       *)
  closed    (* the Channel is closed for good                   *)

vars == <<pending, taken, closed>>

Init == pending = <<>> /\ taken = 0 /\ closed = FALSE

Newest == IF pending = <<>> THEN taken ELSE pending[Len(pending)]

Arrive ==
  /\ ~closed
  /\ Len(pending') = Len(pending) + 1
  /\ LET n == pending'[Len(pending')] IN
       /\ pending' = Append(pending, n)
       /\ Newest # 0 => n = Newest + 1
  /\ UNCHANGED <<taken, closed>>

Take ==
  /\ pending # <<>>
  /\ taken' = Head(pending)
  /\ pending' = Tail(pending)
  /\ UNCHANGED closed

Close ==
  /\ ~closed
  /\ closed' = TRUE
  /\ UNCHANGED <<pending, taken>>

Next == Arrive \/ Take \/ Close

Spec == Init /\ [][Next]_vars
===============================================================================
