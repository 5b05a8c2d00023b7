------------------------------ MODULE Ownership ------------------------------
(***************************************************************************)
(* What the daemon's lock promises: one process at a time runs an engine   *)
(* on the application store and the WhatsApp session, and it has closed    *)
(* them, or ended, before the next one opens them ("keeps a single owner", *)
(* main.go:25-27).                                                         *)
(***************************************************************************)
CONSTANT Procs      \* daemon processes

VARIABLE owners     \* the processes that run an engine

Init  == owners = {}
Take  == owners = {} /\ \E p \in Procs : owners' = {p}
Leave == owners # {} /\ owners' = {}
Next  == Take \/ Leave

Spec == Init /\ [][Next]_owners
=============================================================================
