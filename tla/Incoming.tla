------------------------------ MODULE Incoming ------------------------------
(***************************************************************************)
(* Where the server's text goes: handle_telnet_data of src/src/main.c hands*)
(* each piece that telnet_receive returns to telnet-input-hook, without    *)
(* its escape sequences, and, as telnet-input-transform-hook returns it,   *)
(* to the viewport.  The pieces are cut where the network cuts them.       *)
(*                                                                         *)
(* The server writes items: plain text, escape sequences and control       *)
(* bytes.  An item is the bytes on the wire and what a reader would call   *)
(* its text.                                                               *)
(***************************************************************************)
EXTENDS Integers, Sequences, SequencesExt

CONSTANTS
  Items,       (* what the server writes: [bytes, plain, escape]           *)
  PieceSize,   (* 4095 in the code: the bytes one call may return          *)
  MaxItems     (* bound: items on a connection                             *)

Char == 0 .. 255

ESC == 27
NUL == 0
LF == 10
CR == 13
TAB == 9
CSI == 91    \* [

(* What a reader sees of bytes that are no escape sequence. *)
Blank == (0 .. 31) \ {LF, CR, TAB}

Visible(bytes) ==
  FlattenSeq([i \in DOMAIN bytes |->
                IF bytes[i] \in Blank THEN <<>> ELSE <<bytes[i]>>])

(* The sequence does not end with byte i: an escape begins, again or with  *)
(* a bracket, or the parameters behind the bracket go on (ECMA-48).        *)
GoesOn(bytes, i) ==
  \/ bytes[i] = ESC
  \/ bytes[i - 1] = ESC /\ bytes[i] = CSI
  \/ bytes[i - 1] # ESC /\ bytes[i] \notin 64 .. 126

EscapeSequence(bytes) ==
  /\ Len(bytes) > 1 /\ bytes[1] = ESC
  /\ \A i \in 2 .. Len(bytes) : GoesOn(bytes, i) <=> i < Len(bytes)

ASSUME ItemsAssumption ==
  /\ Items \subseteq [bytes : Seq(Char), plain : Seq(Char), escape : BOOLEAN]
  /\ \A item \in Items :
       IF item.escape
       THEN EscapeSequence(item.bytes) /\ item.plain = <<>>
       ELSE ESC \notin ToSet(item.bytes) /\ item.plain = Visible(item.bytes)
ASSUME PieceAssumption == PieceSize \in Nat \ {0}
ASSUME BoundAssumption == MaxItems \in Nat

VARIABLES
  written,      (* history: the items the server wrote                     *)
  unread,       (* their bytes that were not received, with where items end*)
  heard,        (* history: the texts that telnet-input-hook was called    *)
                (* with, one after the other                               *)
  viewport,     (* what telnet_app_echo appended                           *)
  received,     (* history: the bytes handled                              *)
  split,        (* history: a piece ended inside an escape sequence        *)
  shortened     (* history: the transform hook returned a text for a piece *)
                (* that holds a NUL byte                                   *)

vars == <<written, unread, heard, viewport, received, split, shortened>>

Init ==
  /\ written = <<>>
  /\ unread = <<>>
  /\ heard = <<>>
  /\ viewport = <<>>
  /\ received = <<>>
  /\ split = FALSE
  /\ shortened = FALSE

-----------------------------------------------------------------------------
(* External: the server writes, and the last byte of an item is known.     *)
ServerWrites(item) ==
  /\ Len(written) < MaxItems
  /\ written' = Append(written, item)
  /\ unread' = unread \o
       [i \in DOMAIN item.bytes |->
          [byte |-> item.bytes[i],
           inside |-> item.escape /\ i < Len(item.bytes)]]
  /\ UNCHANGED <<heard, viewport, received, split, shortened>>

(* Control bytes that are text. *)
Kept(c) == c >= 32 \/ c \in {LF, CR, TAB}

(* Mutant: the parameters of a sequence end it. *)
AnyByteEnds(c) == c # ESC

(* The byte that ends a control sequence. *)
EndsCSI(c) == c \in 64 .. 126

(* One byte of strip_ansi_codes, in its three modes. *)
StripByte(strip, c) ==
  CASE strip.mode = "escape" ->
         [strip EXCEPT !.mode = IF c = CSI THEN "csi"
                                ELSE IF c = ESC THEN "escape" ELSE "text"]
    [] strip.mode = "csi" ->
         [strip EXCEPT !.mode = IF c = ESC THEN "escape"
                                ELSE IF EndsCSI(c) THEN "text" ELSE "csi"]
    [] strip.mode = "text" /\ c = ESC -> [strip EXCEPT !.mode = "escape"]
    [] strip.mode = "text" /\ c # ESC /\ Kept(c) -> [strip EXCEPT !.out = Append(@, c)]
    [] OTHER -> strip

(* strip_ansi_codes: every call starts in plain text.                      *)
Stripped(piece) ==
  FoldLeft(StripByte, [mode |-> "text", out |-> <<>>], piece).out

(* The text of a C string: it ends at the first NUL.                       *)
CString(piece) ==
  LET end == SelectInSeq(piece, LAMBDA c : c = NUL)
  IN IF end = 0 THEN piece ELSE SubSeq(piece, 1, end - 1)

(* Mutant: a transform that fails shows nothing. *)
ShowNothing(piece) == <<>>

(* lisp_x_call_telnet_input_transform_hook when the hook is not there,     *)
(* fails or returns no string: the piece as it came.                       *)
IfTransformFails(piece) == piece

(* lisp_x_call_telnet_input_hook, with nothing to tell when nothing is     *)
(* left; what the handlers do, failures included, has no effect here.      *)
InputHook(piece) == heard' = heard \o Stripped(piece)

(* The transform hook: a handler that leaves the text alone, or none that  *)
(* works.                                                                  *)
TransformHook(piece) ==
  \/ /\ viewport' = viewport \o CString(piece)
     /\ shortened' = (shortened \/ NUL \in ToSet(piece))
  \/ /\ viewport' = viewport \o IfTransformFails(piece)
     /\ UNCHANGED shortened

(* One round of handle_telnet_data: the hooks and the viewport.            *)
HandlePiece(n) ==
  LET piece == [i \in 1 .. n |-> unread[i].byte]
  IN /\ n <= Len(unread)
     /\ InputHook(piece)
     /\ TransformHook(piece)
     /\ received' = received \o piece
     /\ split' = (split \/ unread[n].inside)
     /\ unread' = SubSeq(unread, n + 1, Len(unread))
     /\ UNCHANGED written

Next ==
  \/ \E item \in Items : ServerWrites(item)
  \/ \E n \in 1 .. PieceSize : HandlePiece(n)

Spec == Init /\ [][Next]_vars

-----------------------------------------------------------------------------
(* The hook hears the text that the server wrote, without escape sequences *)
(* and control bytes ("React to server text (ANSI stripped)"), however the *)
(* network cut it, as long as no cut went through an escape sequence.      *)
HeardIsPlain ==
  unread = <<>> /\ ~split =>
    heard = FlattenSeq([i \in DOMAIN written |-> written[i].plain])

(* The viewport shows every byte that was received, in order, whether the  *)
(* transform works or fails, as long as no piece with a NUL byte went      *)
(* through it as a C string.                                               *)
ShownIsReceived == ~shortened => viewport = received
=============================================================================
