------------------------------ MODULE JournalFeed ------------------------------
(***************************************************************************)
(* What the consumers of a Session rely on when they read its journal: the *)
(* records that Claude Code completes are given out in the order of the    *)
(* file, each of them once, and none is left out unless a read has been    *)
(* cut short.  A record is its position in the journal.                    *)
(***************************************************************************)
EXTENDS Naturals

VARIABLES
    journal,   \* records that are complete in the file
    handed,    \* position up to which records were given out
    batch,     \* the records given out last
    cut        \* a read was cut: from now on records may be missing

vars == <<journal, handed, batch, cut>>

Init == journal = 0 /\ handed = 0 /\ batch = {} /\ cut = FALSE

Complete ==
    /\ journal' = journal + 1
    /\ UNCHANGED <<handed, batch, cut>>

Cut ==
    /\ cut' = TRUE
    /\ UNCHANGED <<journal, handed, batch>>

HandOut ==
    \E n \in handed .. journal :
        /\ handed' = n
        /\ batch' \in SUBSET ((handed + 1) .. n)
        /\ ~cut => batch' = (handed + 1) .. n
        /\ UNCHANGED <<journal, cut>>

Next == Complete \/ Cut \/ HandOut
Spec == Init /\ [][Next]_vars
================================================================================
