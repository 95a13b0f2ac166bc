------------------------------ MODULE ByteStream ------------------------------
(***************************************************************************)
(* What a SplitFile promises its two users: one byte stream that a         *)
(* producer appends to and closes, and that a reader reads by position.  A *)
(* read waits until it can be served in full or the stream has ended; it   *)
(* is cut short only by the end of the stream, and refused only if it      *)
(* starts before the part of the stream that is kept.                      *)
(***************************************************************************)
EXTENDS Integers

VARIABLES
  length,     (* the bytes appended so far                                  *)
  ended,      (* has the producer ended the stream?                         *)
  request,    (* the read under way, [at, size], or NoRequest               *)
  served,     (* what the last read returned, until the next                *)
  kept        (* the first position that can still be read                  *)

vars == <<length, ended, request, served, kept>>

NoRequest == [at |-> 0, size |-> 0]

Init ==
  /\ length = 0
  /\ ended = FALSE
  /\ request = NoRequest
  /\ served = NoRequest
  /\ kept = 0

Extend ==
  /\ ~ended
  /\ length' \in Nat
  /\ length' > length
  /\ UNCHANGED <<ended, request, served, kept>>

Finish ==
  /\ ~ended
  /\ ended' = TRUE
  /\ UNCHANGED <<length, request, served, kept>>

Ask ==
  /\ request = NoRequest
  /\ request' \in [at : Nat, size : Nat \ {0}]
  /\ served' = NoRequest
  /\ UNCHANGED <<length, ended, kept>>

\* All the bytes asked for, or what there is of them before the end.  What lies
\* behind the start of the read may be given up.
Serve ==
  /\ request # NoRequest
  /\ request.at >= kept
  /\ \/ /\ request.at + request.size <= length
        /\ served' = request
     \/ /\ ended
        /\ request.at + request.size > length
        /\ served' = [at |-> request.at,
                      size |-> IF length > request.at THEN length - request.at ELSE 0]
  /\ request' = NoRequest
  /\ kept' \in kept..(IF request.at > kept THEN request.at ELSE kept)
  /\ UNCHANGED <<length, ended>>

Refuse ==
  /\ request # NoRequest
  /\ request.at < kept
  /\ served' = [at |-> request.at, size |-> -1]
  /\ request' = NoRequest
  /\ UNCHANGED <<length, ended, kept>>

Next == Extend \/ Finish \/ Ask \/ Serve \/ Refuse

Spec == Init /\ [][Next]_vars
===============================================================================
