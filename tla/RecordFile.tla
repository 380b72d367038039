------------------------------ MODULE RecordFile ------------------------------
(***************************************************************************)
(* What a recording promises, whoever starts and stops it: the CAN part of *)
(* a file is one unbroken run of the admitted frames, in arrival order,    *)
(* none missing and none twice.  It may reach into the past when it is     *)
(* opened, it grows with every frame while it is open, and it is final     *)
(* once it is closed.                                                      *)
(***************************************************************************)
EXTENDS Naturals, Sequences

VARIABLES seen,   \* admitted CAN frames that arrived in this run
          open,   \* is a file open?
          kept    \* the frames of the current file, or of the last one

vars == <<seen, open, kept>>

Span(first, last) == [i \in 1 .. (last + 1 - first) |-> first + i - 1]

Init == seen = 0 /\ open = FALSE /\ kept = << >>

\* A file may begin with any number of the frames before it.
Opened(last) == {Span(first, last) : first \in 1 .. last + 1}

\* A frame arrives; the file may be opened just before it and closed just after
\* it, or opened after it, when the one before may just have ended with it.
Arrive ==
    /\ seen' = seen + 1
    /\ \/ open /\ kept' = Append(kept, seen + 1) /\ open' \in BOOLEAN
       \/ ~open /\ kept' \in {Append(k, seen + 1) : k \in Opened(seen)} /\ open' \in BOOLEAN
       \/ open' = TRUE /\ kept' \in Opened(seen + 1)
       \/ ~open /\ UNCHANGED <<open, kept>>

Open == ~open /\ open' = TRUE /\ kept' \in Opened(seen) /\ UNCHANGED seen

Close == open /\ open' = FALSE /\ UNCHANGED <<seen, kept>>

\* A run starts: frames are counted anew, and an armed recording begins.
Restart ==
    /\ seen' = 0 /\ open' \in BOOLEAN
    /\ kept' = IF open' THEN << >> ELSE kept

Next == Arrive \/ Open \/ Close \/ Restart

Spec == Init /\ [][Next]_vars
=============================================================================
