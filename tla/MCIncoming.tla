----------------------------- MODULE MCIncoming -----------------------------
(* Incoming on a small instance: a word, a line end, a colour, a two-byte  *)
(* escape, an escape that gives way to another, a bell, a NUL and a byte   *)
(* that is not ASCII.                                                      *)
EXTENDS Incoming

Text(bytes) == [bytes |-> bytes, plain |-> bytes, escape |-> FALSE]
Escape(bytes) == [bytes |-> bytes, plain |-> <<>>, escape |-> TRUE]
Control(byte) == [bytes |-> <<byte>>, plain |-> <<>>, escape |-> FALSE]

MCItems ==
  { Text(<<109, 91>>), Text(<<13, 10>>), Text(<<195>>),
    Escape(<<27, 91, 49, 109>>), Escape(<<27, 65>>), Escape(<<27, 91, 27, 27, 91, 109>>),
    Control(7), Control(0) }
=============================================================================
