----------------------------- MODULE MCStartup -----------------------------
(* Startup on a few starts: a source tree and an installation, scripts     *)
(* that load others, fail or are missing, flags before and after -l, every *)
(* failure of an initialisation, and each kind of terminal.                *)
EXTENDS Startup

Token == [kind |-> "word", text |-> "", path |-> NoPath, spec |-> <<>>, port |-> 0]
Word(text, n) == [Token EXCEPT !.text = text, !.port = n]
Option(kind, text) == [Token EXCEPT !.kind = kind, !.text = text]
File(dir, base) == [dir |-> dir, base |-> base]
ScriptArg(path) == [Token EXCEPT !.path = path]
SpecArg(s) == [Token EXCEPT !.spec = s]

Load(path) == <<Option("load", "load"), ScriptArg(path)>>
Log(s) == <<Option("log", "log"), SpecArg(s)>>
Flag(kind, name, value) == <<Option(kind, name), Word(value, 0)>>

Part(tag, level) == [tag |-> tag, level |-> level]
MCSpecs == { <<>>, <<Part("a", "DEBUG"), Part("a", "ERROR"), Part("*", "WARN")>>,
             <<Part("*", "DEBUG"), Part("a", "ERROR"), Part("b", "WARN"), Part("*", "INFO")>>,
             <<Part("a", "no colon"), Part("*", "WARN"), Part("b", "INFO")>> }

Step == [do |-> "fail", path |-> NoPath, flags |-> {}, handler |-> "none", spec |-> <<>>]
Fail == Step
Require(path) == [Step EXCEPT !.do = "load", !.path = path]
Register(names, handler) ==
  [Step EXCEPT !.do = "register", !.flags = names, !.handler = handler]
Filter(s) == [Step EXCEPT !.do = "filter", !.spec = s]

Tintin == <<"tintin", "lisp">>
State == <<"tintin-state", "lisp">>
Mine == <<"my", "lisp">>
Missing == File(<<>>, <<"missing">>)

Tree(lisp, contrib) ==
  File(lisp, <<"init", "lisp">>) :> << Filter(<<Part("*", "ERROR")>>) >>
    @@ File(contrib, Tintin) :>
         << Require(File(<<>>, State)), Register({"t", "tintin"}, "works") >>
    @@ File(contrib, State) :> << Register({"s"}, "unbound") >>

Source == Tree(<<"lisp">>, <<"lisp", "contrib">>)
Share == <<"/", "usr", "share", "mudlark", "lisp">>
Installation == Tree(Share, Share \o <<"contrib">>)

Home == <<"/", "home", "build">>
Bin == <<"/", "usr", "bin">>

Xterm == [TERM |-> "xterm", COLORTERM |-> Unset, TERM_PROGRAM |-> Unset,
          WT_SESSION |-> Unset, LC_ALL |-> Unset, LC_CTYPE |-> Empty, LANG |-> "en.UTF-8"]

Plain == [argv |-> <<Word("host", 0)>>, env |-> Xterm, exe |-> Home,
          files |-> Source, faults |-> {}]

(* A flag before, between and after the scripts; a script beside the       *)
(* program that fails after it has registered a flag; a missing one.       *)
Mixed ==
  [Plain EXCEPT
    !.argv = Flag("long", "tintin", "x") \o Load(File(<<>>, <<"tintin">>))
               \o Flag("short", "m", "y") \o Load(File(<<>>, <<"my">>))
               \o Load(Missing) \o Flag("short", "t", "z") \o Flag("long", "none", "w")
               \o <<Word("host", 0), Word("4000", 4000)>>,
    !.files = @ @@ File(Home, Mine) :> << Register({"m"}, "fails"), Fail >>
                @@ File(<<"lisp">>, Mine) :> << Require(Missing) >>]

Absolute ==
  [Plain EXCEPT
    !.argv = Load(File(<<"/", "tmp">>, Mine)) \o Load(File(<<"/", "tmp">>, <<"missing">>))
               \o Flag("short", "m", "y"),
    !.files = @ @@ File(<<"/", "tmp">>, Mine) :>
                     << Register({"m"}, "works"), Require(File(<<>>, Tintin)), Fail >>,
    !.env.TERM = "dumb", !.env.COLORTERM = "truecolor"]

InBin ==
  [Plain EXCEPT
    !.argv = Load(File(<<>>, Tintin)) \o Flag("short", "t", "z"), !.exe = Bin,
    !.files = Installation, !.env.TERM = "xterm-256color", !.env.LC_ALL = "latin1"]

(* A script of the installation that fails after it has loaded another:    *)
(* the other stands where its own contributed file would be.               *)
Shared ==
  [Plain EXCEPT
    !.argv = Load(File(<<>>, Mine)), !.exe = Bin,
    !.files = Installation @@ File(Share, Mine) :> << Require(File(<<>>, State)), Fail >>]

Logged ==
  [Plain EXCEPT
    !.argv = Log(<<Part("*", "DEBUG")>>) \o Log(<<Part("b", "WARN")>>),
    !.files = <<>>, !.exe = NoDirectory, !.faults = {"connect"},
    !.env.TERM = "vt52", !.env.LANG = "C"]

MCGiven ==
  "plain" :> Plain @@ "mixed" :> Mixed @@ "absolute" :> Absolute @@ "bin" :> InBin
    @@ "shared" :> Shared @@ "logged" :> Logged
    @@ "truecolor" :> [Plain EXCEPT !.env.COLORTERM = "truecolor", !.env.TERM = "vt52"]
    @@ "program" :> [Plain EXCEPT !.env.TERM_PROGRAM = "kitty", !.argv = <<>>]
    @@ "unset" :> [Plain EXCEPT !.env.TERM = Unset, !.argv = <<>>]
    @@ "help" :> [Plain EXCEPT !.argv = Load(Missing) \o <<Option("help", "help")>>]
    @@ "value" :> [Plain EXCEPT !.argv = <<Option("short", "t")>>]
    @@ "port" :> [Plain EXCEPT !.argv = <<Word("host", 0), Word("70000", 70000)>>]
    @@ "no lisp" :> [Plain EXCEPT !.faults = {"lisp"}]
    @@ "no buffer" :> [Plain EXCEPT !.faults = {"telnet_filter_buf"}]
    @@ "no telnet" :> [Plain EXCEPT !.faults = {"telnet"}]
    @@ "no runtime" :> [Plain EXCEPT !.faults = {"runtime"}]

MCNames == { File(<<>>, <<"tintin">>), Missing }
MCTerms256 == {"xterm-256color"}
MCTerms16 == {"xterm", "linux"}
MCPrograms == {"kitty"}
MCTruecolorNames == {"truecolor", "24bit"}
MCUtf8 == {"en.UTF-8"}
MCLatin == {"latin1"}
MCChannel == {-1, 3, 5, 17, 47, 48, 115, 128, 201, 235, 243, 244, 300}
MCTags == {"a", "b"}
=============================================================================
