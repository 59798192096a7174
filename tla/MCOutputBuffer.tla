--------------------------- MODULE MCOutputBuffer ---------------------------
(***************************************************************************)
(* OutputBuffer with 64 KiB scaled to 2.  The configurations put the limit   *)
(* below, at and above the conservative size, off a power of two, and at the *)
(* C int maximum.                                                          *)
(***************************************************************************)
EXTENDS OutputBuffer

Config(b, l, m) == [bufferSize |-> b, listBufferSize |-> l, maxBufferSize |-> m]

MCConfigs == {Config(0, 0, 0), Config(1, 5, 1), Config(0, 1, 5), Config(3, 0, 9)}

=============================================================================
