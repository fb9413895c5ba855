------------------------------ MODULE MCUtLink ------------------------------
(***************************************************************************)
(* Instances of UtLink for TLC.                                            *)
(***************************************************************************)
EXTENDS UtLink

CONSTANT h1

Req(r, n) == [to |-> h1, reliable |-> r, fragcnt |-> n]
Mixed == {Req(TRUE, 2), Req(FALSE, 1), Req(TRUE, Oversize)}

\* The outputs of the receiver are never read.
View == <<vars, mseq, if_enabled, net, accepted, history>>
=============================================================================
