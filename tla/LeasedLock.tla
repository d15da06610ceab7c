----------------------------- MODULE LeasedLock -----------------------------
(***************************************************************************)
(* What a Redis lock of this code base is, seen from outside: a key taken  *)
(* with SET NX EX and given back by a script that deletes it only if it    *)
(* still holds the caller's token.  The single-flight lock of the          *)
(* market-data cache and the lock of the knowledge-base sync are both one. *)
(*                                                                         *)
(* It is a lease.  The key may lapse while its owner goes on inside; that  *)
(* owner is overdue until it leaves, and has no say over the key of        *)
(* whoever came after it.  Of any two inside, one is overdue.              *)
(***************************************************************************)
CONSTANTS Owners, Nobody

VARIABLES
  key,     \* whose token it holds
  inside,  \* who took it and has not left
  overdue  \* those inside whose key has lapsed

vars == <<key, inside, overdue>>

Init ==
  /\ key = Nobody
  /\ inside = {}
  /\ overdue = {}

Enter(c) ==
  /\ key = Nobody
  /\ c \notin inside
  /\ key' = c
  /\ inside' = inside \cup {c}
  /\ UNCHANGED overdue

\* The owner takes its own key with it, and nobody else's.
Leave(c) ==
  /\ c \in inside
  /\ key' = IF key = c THEN Nobody ELSE key
  /\ inside' = inside \ {c}
  /\ overdue' = overdue \ {c}

\* The owner dies inside: its key stays behind.
Die(c) ==
  /\ c \in inside
  /\ inside' = inside \ {c}
  /\ overdue' = overdue \ {c}
  /\ UNCHANGED key

Lapse ==
  /\ key # Nobody
  /\ key' = Nobody
  /\ overdue' = overdue \cup ({key} \cap inside)
  /\ UNCHANGED inside

Next ==
  \/ \E c \in Owners : Enter(c) \/ Leave(c) \/ Die(c)
  \/ Lapse

Spec == Init /\ [][Next]_vars
=============================================================================
