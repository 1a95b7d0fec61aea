----------------------------- MODULE TermCaps -----------------------------
(***************************************************************************)
(* Terminal capabilities, src/src/terminal_caps.c: what the environment    *)
(* says of the terminal, and the colour sequences that follow from it.     *)
(*                                                                         *)
(* A value of an environment variable is a name; which names the code      *)
(* recognises is a constant.  A colour sequence is its list of SGR         *)
(* parameters, <<>> when nothing is written.                               *)
(***************************************************************************)
EXTENDS Integers, Sequences

CONSTANTS
  Terms256, Terms16,   (* values of TERM with the suffix -256color, with   *)
                       (* one of the known prefixes                        *)
  TruecolorPrograms,   (* truecolor_terminals                              *)
  TruecolorNames,      (* truecolor, 24bit                                 *)
  Utf8Locales, LatinLocales,
  Channel              (* the values of a colour's channel that are tried  *)

ASSUME ChannelAssumption == Channel \subseteq Int

Unset == "unset"
Empty == ""

NONE == 0
COLOR_8 == 1
COLOR_16 == 2
COLOR_256 == 3
TRUECOLOR == 4

Nothing == [on |-> FALSE, dumb |-> FALSE, color |-> NONE, unicode |-> "none"]

(* detect_color_level *)
ColorLevel(env) ==
  IF \/ env.COLORTERM \in TruecolorNames
     \/ env.TERM_PROGRAM \in TruecolorPrograms
     \/ env.WT_SESSION # Unset
  THEN TRUECOLOR
  ELSE IF env.TERM \in Terms256 THEN COLOR_256
  ELSE IF env.TERM \in Terms16 THEN COLOR_16
  ELSE COLOR_8

(* detect_unicode_level: the first locale variable that is not empty.      *)
UnicodeLevel(env) ==
  LET given == SelectSeq(<<env.LC_ALL, env.LC_CTYPE, env.LANG>>,
                         LAMBDA v : v \notin {Unset, Empty})
  IN  CASE given = <<>>               -> "none"
        [] Head(given) \in Utf8Locales  -> "full"
        [] Head(given) \in LatinLocales -> "basic"
        [] OTHER                        -> "none"

(* detect_from_environment, with queries of the terminal never enabled.    *)
Detected(env) ==
  LET dumb == env.TERM \in {Unset, Empty, "dumb"}
  IN  [on |-> TRUE, dumb |-> dumb,
       color |-> IF dumb THEN NONE ELSE ColorLevel(env),
       unicode |-> UnicodeLevel(env)]

-----------------------------------------------------------------------------
Clamp(c) == IF c < 0 THEN 0 ELSE IF c > 255 THEN 255 ELSE c

(* Mutant: the steps are taken for equal. *)
CubeIndexEven(c) == (c * 6) \div 256

(* A step of the colour cube for a channel.                                *)
CubeIndex(c) ==
  IF c < 48 THEN 0 ELSE IF c < 115 THEN 1
  ELSE IF c >= 235 THEN 5 ELSE (c - 35) \div 40

(* Mutant: the ramp is entered one grey too far. *)
GreyIndexNext(c) ==
  IF c < 4 THEN 16 ELSE IF c > 243 THEN 231 ELSE 232 + (c + 2) \div 10

GreyIndex(c) ==
  IF c < 4 THEN 16 ELSE IF c > 243 THEN 231
  ELSE IF c < 8 THEN 232 ELSE 232 + (c - 8) \div 10

(* termcaps_rgb_to_256 *)
RgbTo256(r, g, b) ==
  LET R == Clamp(r)
      G == Clamp(g)
      B == Clamp(b)
  IN  IF R = G /\ G = B THEN GreyIndex(R)
      ELSE 16 + 36 * CubeIndex(R) + 6 * CubeIndex(G) + CubeIndex(B)

(* termcaps_rgb_to_8 *)
RgbTo8(r, g, b) ==
  LET Bit(c) == IF Clamp(c) >= 128 THEN 1 ELSE 0
  IN  Bit(r) + 2 * Bit(g) + 4 * Bit(b)

(* termcaps_format_fg_color and termcaps_format_bg_color: ground is 30 or  *)
(* 40.                                                                     *)
FormatColor(caps, ground, r, g, b) ==
  LET bright == caps.color = COLOR_16 /\ \E c \in {r, g, b} : c > 200
  IN  CASE ~caps.on \/ caps.color = NONE -> <<>>
        [] caps.color = TRUECOLOR -> <<ground + 8, 2, r, g, b>>
        [] caps.color = COLOR_256 -> <<ground + 8, 5, RgbTo256(r, g, b)>>
        [] OTHER -> <<RgbTo8(r, g, b) + IF bright THEN ground + 60 ELSE ground>>

-----------------------------------------------------------------------------
(* How a terminal reads an index of the 256-colour palette.                *)
CubeLevel == <<0, 95, 135, 175, 215, 255>>

Palette(i) ==
  IF i >= 232 THEN [c \in 1 .. 3 |-> 8 + 10 * (i - 232)]
  ELSE LET n == i - 16
       IN  <<CubeLevel[1 + (n \div 36)], CubeLevel[1 + ((n \div 6) % 6)],
             CubeLevel[1 + (n % 6)]>>

Distance(a, b) == IF a < b THEN b - a ELSE a - b

Clamped(rgb) == [i \in 1 .. 3 |-> Clamp(rgb[i])]

(* A grey is rounded down to the ramp, less than a step of it darker; it   *)
(* is the nearer of black and the first grey below that, and white above.  *)
ShowsGrey(level, c) ==
  IF c < 8 THEN level \in {0, 8} /\ Distance(level, c) <= Distance(8 - level, c)
  ELSE IF c > 243 THEN level = 255
  ELSE (level % 10) = 8 /\ level <= c /\ c < level + 10

(* One index of the palette: a grey for a grey, and for any other colour,  *)
(* one that is nearly grey too, the nearest step of the cube in each       *)
(* channel.  This is less than the closest index of terminal_caps.h:87.    *)
ShowsStep(ground, c, seq) ==
  /\ Len(seq) = 3 /\ seq[1] = ground + 8 /\ seq[2] = 5
  /\ seq[3] \in 16 .. 255
  /\ LET shown == Palette(seq[3])
     IN  \A i \in 1 .. 3 :
           IF c[1] = c[2] /\ c[2] = c[3]
           THEN shown[i] = shown[1] /\ ShowsGrey(shown[i], c[i])
           ELSE \A k \in DOMAIN CubeLevel :
                  Distance(shown[i], c[i]) <= Distance(CubeLevel[k], c[i])

(* The hues that are at least half on, in one parameter, that of the       *)
(* bright colours only with sixteen: 90 + N and 100 + N, where             *)
(* terminal_caps.h:109 and :116 have the colour and a second parameter 1.  *)
ShowsHues(caps, ground, c, seq) ==
  LET n == (seq[1] - ground) % 60
  IN  /\ Len(seq) = 1
      /\ seq[1] - ground \in 0 .. 7
           \/ (caps.color = COLOR_16 /\ seq[1] - ground \in 60 .. 67)
      /\ <<n % 2, (n \div 2) % 2, n \div 4>> = [i \in 1 .. 3 |-> IF c[i] >= 128 THEN 1 ELSE 0]

(* What a colour asked for becomes: itself where the terminal has all of   *)
(* them, one of its 256 or of its hues where it has those, and nothing     *)
(* where there is no colour.                                               *)
Fits(caps, ground, rgb, seq) ==
  IF ~caps.on \/ caps.dumb THEN seq = <<>>
  ELSE CASE caps.color = TRUECOLOR -> Clamped(rgb) = rgb => seq = <<ground + 8, 2>> \o rgb
         [] caps.color = COLOR_256 -> ShowsStep(ground, Clamped(rgb), seq)
         [] OTHER -> ShowsHues(caps, ground, Clamped(rgb), seq)
=============================================================================
