-------------------------------- MODULE App --------------------------------
(***************************************************************************)
(* The view of src/src/telnet_app.c: which child takes the keys, and on    *)
(* which rows of the terminal the viewport, the two borders and the text   *)
(* input stand.  The layout is computed from the height of the text input, *)
(* a copy that is stale once a key has changed that height.                *)
(*                                                                         *)
(* The viewport and the text input are boba's; of them the model has the   *)
(* input's height, and the viewport only as the place where keys may go.   *)
(***************************************************************************)
EXTENDS Integers

CONSTANTS
  Heights,     (* the terminal heights that a resize can bring             *)
  MaxLines     (* bound: lines of text in the input                        *)

VARIABLES
  focused_widget,       (* 0: the text input, 1: the viewport              *)
  terminal_height,
  content_lines,        (* boba: tui_textinput_get_height                  *)
  top_border_row, textinput_row, bottom_border_row, viewport_h

layout == <<top_border_row, textinput_row, bottom_border_row, viewport_h>>
vars == <<focused_widget, terminal_height, content_lines, layout>>

(* telnet_app_set_terminal_size, for an input of so many lines.            *)
SetTerminalSize(height, lines) ==
  LET input_row == height - lines
      rest == input_row - 2
  IN /\ terminal_height' = height
     /\ bottom_border_row' = height
     /\ textinput_row' = input_row
     /\ top_border_row' = input_row - 1
     /\ viewport_h' = IF rest < 1 THEN 1 ELSE rest

(* telnet_app_init with an empty input: it ends with the same layout.      *)
Init ==
  /\ focused_widget = 0
  /\ terminal_height \in Heights
  /\ content_lines = 1
  /\ bottom_border_row = terminal_height
  /\ textinput_row = terminal_height - 1
  /\ top_border_row = terminal_height - 2
  /\ viewport_h = IF terminal_height < 4 THEN 1 ELSE terminal_height - 3

(* TUI_MSG_WINDOW_SIZE *)
WindowSize(height) ==
  /\ SetTerminalSize(height, content_lines)
  /\ UNCHANGED <<focused_widget, content_lines>>

(* Shift-Tab *)
ToggleFocus ==
  /\ focused_widget' = 1 - focused_widget
  /\ UNCHANGED <<terminal_height, content_lines, layout>>

(* Page keys, the wheel and F-keys, whatever has the focus, and the other  *)
(* keys when the viewport has it.                                          *)
KeyElsewhere == UNCHANGED vars

(* Mutant: the layout is left as it was. *)
LayoutKept == UNCHANGED <<terminal_height, layout>>

(* The layout is recomputed after every key that the input takes. *)
LayoutAfterInput == SetTerminalSize(terminal_height, content_lines')

(* A key that the text input takes, which leaves it with so many lines.    *)
KeyToInput(lines) ==
  /\ focused_widget = 0
  /\ content_lines' = lines
  /\ LayoutAfterInput
  /\ UNCHANGED focused_widget

Next ==
  \/ \E h \in Heights : WindowSize(h)
  \/ ToggleFocus \/ KeyElsewhere
  \/ \E n \in 1 .. MaxLines : KeyToInput(n)

Spec == Init /\ [][Next]_vars

-----------------------------------------------------------------------------
(* The rows of the terminal from the top are the viewport, a border, the   *)
(* lines that the text input has now and a border, each row once, whenever *)
(* the terminal has the rows for it: after any mix of resizes, focus       *)
(* changes and keys that make the input grow or shrink.                    *)
LayoutFits ==
  /\ bottom_border_row = terminal_height
  /\ textinput_row + content_lines = bottom_border_row
  /\ top_border_row + 1 = textinput_row
  /\ terminal_height >= content_lines + 3 => viewport_h + 1 = top_border_row
=============================================================================
