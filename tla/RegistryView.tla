---------------------------- MODULE RegistryView ----------------------------
(***************************************************************************)
(* What the engineer registry promises the rest of a process: a view of    *)
(* the active engineers that lags behind the table, is replaced as a whole *)
(* and catches up.  Its two indexes always show the same engineers.        *)
(***************************************************************************)
EXTENDS Integers, Sequences

CONSTANTS
  Process,  \* processes with a view
  Seed      \* the active engineers at the beginning

VARIABLES
  history,  \* the active engineers after each write, in order
  view      \* what each process sees, by email and by GitHub username

vars == <<history, view>>

Both(s) == [byEmail |-> s, byGitHub |-> s]

Init ==
  /\ history = <<Seed>>
  /\ view = [p \in Process |-> Both({})]

\* Somebody changes the table.
Write ==
  /\ Len(history') = Len(history) + 1
  /\ \A i \in 1..Len(history) : history'[i] = history[i]
  /\ UNCHANGED view

\* A view becomes a state of the table, not always a later one.
Refresh(p) ==
  /\ \E i \in 1..Len(history) : view' = [view EXCEPT ![p] = Both(history[i])]
  /\ UNCHANGED history

\* A process that ends loses its view.
Stop(p) == view' = [view EXCEPT ![p] = Both({})] /\ UNCHANGED history

Next == Write \/ \E p \in Process : Refresh(p) \/ Stop(p)

Spec == Init /\ [][Next]_vars

\* Once the table rests, every view shows it.
CatchesUp == <>[](\A p \in Process : view[p] = Both(history[Len(history)]))
=============================================================================
