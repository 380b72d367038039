----------------------------- MODULE NamedBuses -----------------------------
(***************************************************************************)
(* What removing a bus promises: everything is attached to a bus by name.   *)
(* Removing a bus takes what was attached to it and leaves everything else   *)
(* attached where it was.                                                   *)
(***************************************************************************)
EXTENDS Naturals

VARIABLES
    live,   \* the buses there are
    refs    \* what is attached: each reference and the buses it names

NamedInit == live \in SUBSET Nat /\ refs = {}

\* A reference names a set of buses: one that watches or sends on several names all.
Attach(r) == r.on \subseteq live /\ refs' = refs \cup {r} /\ UNCHANGED live
Detach(r) == refs' = refs \ {r} /\ UNCHANGED live
Move(r, q) == q.on \subseteq live /\ q.of = r.of /\ refs' = (refs \ {r}) \cup {q} /\ UNCHANGED live
AddBus(b) == b \notin live /\ live' = live \cup {b} /\ UNCHANGED refs
RemoveBus(b) == /\ b \in live
                /\ live' = live \ {b}
                /\ refs' = {r \in refs : b \notin r.on}

\* A project is opened: what hangs on the buses hangs there again, save for the
\* subscriptions, which follow the rows of the windows.
Kept(rs) == {r \in rs : r.of[1] # "sub"}
Reopen == UNCHANGED live /\ Kept(refs') = Kept(refs) /\ \A r \in refs' : r.on \subseteq live

NamedNext == \/ \E r \in refs' \ refs : Attach(r)
             \/ \E r \in refs \ refs' : Detach(r)
             \/ \E r \in refs \ refs', q \in refs' \ refs : Move(r, q)
             \/ Reopen
             \/ \E b \in live' \ live : AddBus(b)
             \/ \E b \in live \ live' : RemoveBus(b)

NamedSpec == NamedInit /\ [][NamedNext]_<<live, refs>>
=============================================================================
