------------------------------- MODULE MCLfaaSim -------------------------------
(***************************************************************************)
(* lfaa-sim with seconds of four microseconds and microseconds of three    *)
(* nanoseconds.                                                            *)
(***************************************************************************)
EXTENDS LfaaSim

\* Send times that leave remainders, fill a second exactly and pass one; payloads at
\* the end of the file, beyond it, and without data.  The last two are of the kinds that
\* are not checked: more zeros than there are, and a sum that passes Width.
MCHeaders ==
    [chan : {1, 2}, offset : {2}, len : {2}, time : {1, 3, 8}]
        \union [chan : {1}, offset : {2}, len : {3}, time : {1}]
        \union [chan : {2}, offset : {63}, len : {5}, time : {3}]
        \union [chan : {1}, offset : {63}, len : {6}, time : {8}]
        \union [chan : {1}, offset : {62}, len : {3}, time : {21}]

================================================================================
