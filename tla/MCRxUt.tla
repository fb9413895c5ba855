------------------------------- MODULE MCRxUt -------------------------------
(***************************************************************************)
(* Instances of RxUt for TLC.                                              *)
(***************************************************************************)
EXTENDS RxUt

\* All the headers for messages of the given sizes.
HeadersOf(counts) == {h \in [part: 0 .. Max(counts) - 1, count: counts, ackme: BOOLEAN,
                             deflated: BOOLEAN, improved: BOOLEAN] : h.part < h.count}

\* With two missing bits: within the window, at its edge and past it.
AllHeaders5 == HeadersOf(1 .. 5)
=============================================================================
