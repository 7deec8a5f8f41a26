------------------------- MODULE MCApplicationMessenger -------------------------
(* ApplicationMessenger for TLC: a thread that ends with the player and opens a *)
(* dialog, one that runs a job and sends two messages, a scanner, and a main    *)
(* thread that sends a message or quits.                                        *)
EXTENDS ApplicationMessenger
CONSTANTS p1, j1, s1

MCJoinedAt == [t \in Threads |-> CASE t = j1 -> "join" [] t = s1 -> "cleanup" [] t = p1 -> "unload"]

From(t, n, kind, waits) == [from : {t}, n : {n}, kind : {kind}, wait : waits]
MCMessages ==
  From(p1, 1, "window", BOOLEAN) \cup From(j1, 1, "action", {FALSE}) \cup From(j1, 2, "modal", {TRUE})
    \cup From(s1, 1, "action", {TRUE})
    \cup From("main", 1, "action", {TRUE}) \cup From("main", 1, "quit", {FALSE})

\* What the counterexample needs: a job that opens a dialog, and the end of the program.
QuitMessages == From(j1, 1, "modal", {TRUE}) \cup From("main", 1, "quit", {FALSE})
=============================================================================
