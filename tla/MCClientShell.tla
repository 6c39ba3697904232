---------------------------- MODULE MCClientShell ----------------------------
(* ClientShell with its properties and its abstract specifications, for TLC. *)
EXTENDS ClientShellProps, ClientShellRefinement, TLC

MCRevisions == 1 .. 3
MCTwoRevisions == 1 .. 2

\* Boots and subscribers are compared for equality only.
MCSymmetry == Permutations(Boots) \cup Permutations(Subscribers)

\* Presentation events and command handles have no variable in common: a behaviour
\* is followed for as long as it has only one of them.
MCApart == events = 0 \/ commands = {}
=============================================================================
