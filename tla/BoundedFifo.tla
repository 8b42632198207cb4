---------------------------- MODULE BoundedFifo ----------------------------
(***************************************************************************)
(* What a message queue of the WCS promises to the threads that share it   *)
(* (queue.h:109-112): messages come out once, in the order in which the    *)
(* accepted ones went in, and a full queue refuses a message and keeps     *)
(* what it holds.  No caller looks at the refusal: a refused message is    *)
(* lost.  MsgQueue.tla is the ring buffer of queue.cpp and implements      *)
(* this module.                                                            *)
(***************************************************************************)
EXTENDS Naturals, Sequences

CONSTANTS
  Types,     \* the message types, the *_MACRO values of queue.h
  Capacity   \* QUEUE_MSG_SIZE, at least 1

VARIABLES
  buffer,    \* the messages accepted and not yet taken, oldest first
  sent,      \* every message accepted so far
  taken      \* every message taken so far

vars == <<buffer, sent, taken>>

Init ==
  /\ buffer = << >>
  /\ sent = << >>
  /\ taken = << >>

Put(m) ==
  /\ Len(buffer) < Capacity
  /\ buffer' = Append(buffer, m)
  /\ sent' = Append(sent, m)
  /\ UNCHANGED taken

Take ==
  /\ buffer # << >>
  /\ buffer' = Tail(buffer)
  /\ taken' = Append(taken, Head(buffer))
  /\ UNCHANGED sent

Next == Take \/ \E m \in Types : Put(m)

Spec == Init /\ [][Next]_vars
=============================================================================
