--------------------------- MODULE MCReaderSession ---------------------------
(***************************************************************************)
(* Instances of ReaderSession for TLC.                                     *)
(***************************************************************************)
EXTENDS ReaderSession

\* Every fault and request once.
OneOfEach == [dial |-> 1, cut |-> 1, mute |-> 1, late |-> 1, power |-> 1, cancel |-> 1]
=============================================================================
