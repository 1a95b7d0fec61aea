---------------------------- MODULE MCTelnetOut ----------------------------
(* TelnetOut on a small instance: a line that is a # command and others,   *)
(* texts with IAC bytes, one of which is followed by the code of a telnet  *)
(* command, and a result with two texts and an element that is no string;  *)
(* sizes of which one needs both of its bytes, and two that have a byte    *)
(* 255, in the columns and in the rows.                                    *)
EXTENDS TelnetOut

CONSTANT nothing

MCLines == { <<>>, <<35, 97>>, <<97, 35>> }

MCResults == { <<>>, << <<97, 35>> >>, << <<255, 250>> >>, << <<97, 255>>, nothing, <<98>> >> }

MCSizes == { <<80, 24>>, <<300, 50>>, <<255, 40>>, <<80, 255>> }
=============================================================================
