------------------------------ MODULE Watchdog ------------------------------
(***************************************************************************)
(* What a safety cut-off promises, independently of how it is built: a     *)
(* source that has to be heard from again and again, and an output that    *)
(* may be driven only while the source is fresh.  Driving decisions are    *)
(* taken at Timeout at the latest; an output still driven is stopped       *)
(* before the source has been silent for longer than Deadline.             *)
(***************************************************************************)
EXTENDS Naturals

CONSTANTS Timeout, Deadline

VARIABLES age,       \* ticks since the source was heard, up to Deadline + 1
          driving    \* the output is driven

vars == <<age, driving>>

Init == age = 0 /\ driving = FALSE

Heard == age' = 0 /\ driving' = driving

Drive == age <= Timeout /\ driving' = TRUE /\ age' = age

Stop == driving' = FALSE /\ age' = age

\* Time passes, but not beyond the deadline of an output that is driven.
Pass ==
  /\ driving => age < Deadline
  /\ age' = IF age <= Deadline THEN age + 1 ELSE age
  /\ driving' = driving

Next == Heard \/ Drive \/ Stop \/ Pass

Spec == Init /\ [][Next]_vars
=============================================================================
