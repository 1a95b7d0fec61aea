------------------------------ MODULE Startup ------------------------------
(***************************************************************************)
(* main() of src/src/main.c from its arguments to its exit: options, the   *)
(* terminal's capabilities, the Lisp interpreter, init.lisp, the scripts   *)
(* of -l and the flags that they register, and the cleanup that follows a  *)
(* failure or the event loop.  Files are searched for and loaded one       *)
(* expression at a time, as a script may load others.                      *)
(*                                                                         *)
(* Memory is a record of the objects that exist, the pointers that are not *)
(* NULL, and the objects freed or used when they did not exist.  stage is  *)
(* what main() does next when no file is being loaded.                     *)
(***************************************************************************)
EXTENDS TermCaps, LogFilter, Paths, FiniteSets, Functions

CONSTANTS
  Given,     (* by name, the circumstances of a start: argv, env, exe (the *)
             (* program's directory), files and faults (what fails)        *)
  Specs,     (* log filters set while the program runs                     *)
  Names      (* what the user loads with :load                             *)

(* A path is a record of sequences.  What the arguments and the expressions *)
(* of the files name are paths, and what they set are filters.              *)
Path == [dir : Seq(STRING), base : Seq(STRING)]

GivenAssumption ==
  \A given \in { Given[s] : s \in DOMAIN Given } :
    /\ given.exe \in Seq(STRING)
    /\ given.argv \in Seq(ToSet(given.argv))
    /\ \A arg \in ToSet(given.argv) :
         arg.path \in Path /\ arg.text \in STRING /\ arg.spec \in FilterSpec
    /\ \A file \in DOMAIN given.files :
         /\ given.files[file] \in Seq(ToSet(given.files[file]))
         /\ \A item \in ToSet(given.files[file]) :
              item.path \in Path /\ item.spec \in FilterSpec

ASSUME StartAssumption ==
  GivenAssumption /\ Names \subseteq Path /\ Specs \subseteq FilterSpec

VARIABLES
  start,                  (* the start in question, in DOMAIN Given        *)
  stage, argi,
  hostname, port, load_files, load_index, cli_pending_args, cli_index,
  filter, spec,           (* the log filter, and what it was made from     *)
  g_caps, sequence,       (* a colour and its sequence, until written      *)
  loading,                (* the loads under way, the innermost first      *)
  installed_path, installed_contrib_path,  (* static in the code           *)
  package,                (* *package*                                     *)
  cli_handler_table,
  loaded,                 (* history: loads that succeeded                 *)
  calls,                  (* history: handlers called for a flag           *)
  memory

args    == <<argi, hostname, port, load_files, cli_pending_args>>
log     == <<filter, spec>>
load    == <<loading, installed_path, installed_contrib_path, package,
             cli_handler_table, loaded>>
flags   == <<cli_index, calls>>
vars    == <<start, stage, args, load_index, log, g_caps, sequence, load, flags,
             memory>>

argv   == Given[start].argv
exe    == Given[start].exe
files  == Given[start].files
faults == Given[start].faults

NotGiven == "none"
Written == [rgb |-> <<0, 0, 0>>, ground |-> 30, seq |-> <<>>]
User == <<"user">>
InitFile == [dir |-> <<>>, base |-> <<"init", "lisp">>]

Buffers == {"ansi_strip_buf", "telnet_filter_buf", "telnet_filter_temp_buf",
            "pending_send_buf"}
Completions == {"completion_arena", "completion_ptrs"}
Registered == {"registered_runtime", "registered_status_sink"}

(* The object a pointer points to: its own unless it is a second pointer.  *)
Object(pointer) ==
  CASE pointer = "session" -> "telnet"
    [] pointer = "registered_runtime" -> "runtime"
    [] pointer = "registered_status_sink" -> "app"
    [] OTHER -> pointer

Allocated(mem, names) ==
  [mem EXCEPT !.heap = @ \cup names, !.pointers = @ \cup names]

Followed(mem, names) ==
  [mem EXCEPT !.misused = @ \cup ({ Object(p) : p \in names } \ mem.heap)]

(* Mutant: the pointer survives its object. *)
ReleasedOnly(mem, names) ==
  [Followed(mem, names) EXCEPT !.heap = @ \ { Object(p) : p \in names }]

(* The objects of some pointers are freed and the pointers set to NULL.    *)
Released(mem, names) ==
  [Followed(mem, names) EXCEPT
     !.heap = @ \ { Object(p) : p \in names }, !.pointers = @ \ names]

Init ==
  /\ start \in DOMAIN Given
  /\ stage = "args"
  /\ argi = 1
  /\ hostname = NotGiven
  /\ port = 23
  /\ load_files = <<>>
  /\ load_index = 1
  /\ cli_pending_args = <<>>
  /\ cli_index = 1
  /\ filter = Off
  /\ spec = <<>>
  /\ g_caps = Nothing
  /\ sequence = Written
  /\ loading = <<>>
  /\ installed_path = NoPath
  /\ installed_contrib_path = NoPath
  /\ package = User
  /\ cli_handler_table = <<>>
  /\ loaded = {}
  /\ calls = <<>>
  /\ memory = [heap |-> {}, pointers |-> {}, misused |-> {}]

-----------------------------------------------------------------------------
(* Options.  The argument after an option that has a value is its value,   *)
(* whatever it looks like.                                                 *)
Arg == argv[argi]
Value == argv[argi + 1]
HasValue == {"load", "log", "long", "short"}
Ports == 1 .. 65535

Parsing == stage = "args" /\ argi <= Len(argv)

(* --help, --version, an option without its value or a port out of range:  *)
(* nothing is initialised yet, and the program ends.                       *)
RefuseArgs ==
  /\ Parsing
  /\ \/ Arg.kind \in {"help", "version"}
     \/ Arg.kind \in HasValue /\ argi = Len(argv)
     \/ Arg.kind = "word" /\ hostname # NotGiven /\ Arg.port \notin Ports
  /\ stage' = "gone"
  /\ UNCHANGED <<start, args, load_index, log, g_caps, sequence, load, flags,
                 memory>>

LoadOption ==
  /\ Parsing /\ Arg.kind = "load" /\ argi < Len(argv)
  /\ load_files' = Append(load_files, Value.path)
  /\ memory' = Allocated(memory, {"load_files"})
  /\ argi' = argi + 2
  /\ UNCHANGED <<start, stage, hostname, port, load_index, cli_pending_args,
                 log, g_caps, sequence, load, flags>>

LogOption ==
  /\ Parsing /\ Arg.kind = "log" /\ argi < Len(argv)
  /\ filter' = SetFilter(filter, Value.spec)
  /\ spec' = Value.spec
  /\ argi' = argi + 2
  /\ UNCHANGED <<start, stage, hostname, port, load_files, load_index,
                 cli_pending_args, g_caps, sequence, load, flags, memory>>

(* lisp_x_add_cli_arg: an option that a script may know.                   *)
FlagOption ==
  /\ Parsing /\ Arg.kind \in {"long", "short"} /\ argi < Len(argv)
  /\ cli_pending_args' =
       Append(cli_pending_args, [flag |-> Arg.text, value |-> Value.text])
  /\ memory' = Allocated(memory, {"cli_pending_args"})
  /\ argi' = argi + 2
  /\ UNCHANGED <<start, stage, hostname, port, load_files, load_index, log,
                 g_caps, sequence, load, flags>>

HostOrPort ==
  /\ Parsing /\ Arg.kind = "word"
  /\ \/ /\ hostname = NotGiven
        /\ hostname' = Arg.text
        /\ UNCHANGED port
     \/ /\ hostname # NotGiven /\ Arg.port \in Ports
        /\ port' = Arg.port
        /\ UNCHANGED hostname
  /\ argi' = argi + 1
  /\ UNCHANGED <<start, stage, load_files, load_index, cli_pending_args, log,
                 g_caps, sequence, load, flags, memory>>

-----------------------------------------------------------------------------
(* Mutant: the flags are dispatched before the scripts are loaded. *)
FlagsFirst ==
  <<"args", "lisp", "telnet", "runtime", "init", "register", "flags", "scripts",
    "connect", "loop">>

(* The order of main().                                                    *)
Stages ==
  <<"args", "lisp", "telnet", "runtime", "init", "register", "scripts", "flags",
    "connect", "loop">>

Following(s) == Stages[1 + CHOOSE i \in DOMAIN Stages : Stages[i] = s]

At(s) == stage = s /\ loading = <<>>

(* termcaps_init *)
DetectTerminal ==
  /\ At("args") /\ argi > Len(argv)
  /\ g_caps' = Detected(Given[start].env)
  /\ stage' = Following("args")
  /\ UNCHANGED <<start, args, load_index, log, sequence, load, flags, memory>>

(* lisp_x_cleanup; the interpreter and the sessions are collected.         *)
LispCleanup(mem) ==
  [Released(mem, mem.pointers \cap (Buffers \cup Completions))
     EXCEPT !.pointers = @ \ (Registered \cup {"session"})]

(* lisp_x_init: a buffer that cannot be had takes the others with it.      *)
InitLisp ==
  /\ At("lisp")
  /\ LET had == Allocated(memory, Buffers \ faults)
     IN  IF "lisp" \in faults
         THEN stage' = "exit" /\ UNCHANGED memory
         ELSE IF Buffers \cap faults # {}
         THEN stage' = "exit" /\ memory' = LispCleanup(had)
         ELSE stage' = Following("lisp") /\ memory' = had
  /\ UNCHANGED <<start, args, load_index, log, g_caps, sequence, load, flags>>

(* telnet_create *)
CreateTelnet ==
  /\ At("telnet")
  /\ IF "telnet" \in faults
     THEN stage' = "exit" /\ UNCHANGED memory
     ELSE /\ stage' = Following("telnet")
          /\ memory' = Allocated(memory, {"telnet"})
  /\ UNCHANGED <<start, args, load_index, log, g_caps, sequence, load, flags>>

(* tui_runtime_create, which owns the model, and its registrations.        *)
CreateRuntime ==
  /\ At("runtime")
  /\ IF "runtime" \in faults
     THEN stage' = "exit" /\ UNCHANGED memory
     ELSE /\ stage' = Following("runtime")
          /\ memory' = [Allocated(memory, {"runtime", "app"})
                          EXCEPT !.pointers = @ \cup Registered]
  /\ UNCHANGED <<start, args, load_index, log, g_caps, sequence, load, flags>>

-----------------------------------------------------------------------------
(* Loading.  A frame is one call: what is looked for, the place in the     *)
(* search list, the file that was opened and the expression in it that is  *)
(* next; a script changes *package* and puts it back.  inner is history:   *)
(* the installed paths of the calls made by the file.                      *)
Frame(path, next, file, saved) ==
  [path |-> path, next |-> next, file |-> file, item |-> 1, saved |-> saved,
   inner |-> {}]

Installed(subdir, path) == InstalledResource(exe, subdir, path)

InstalledPaths(path) ==
  { Installed(<<"lisp">>, path), Installed(<<"lisp", "contrib">>, path) }

(* load_lisp_system_file: the two installed paths go to static buffers,    *)
(* where the calls that this one interrupts still look for theirs.         *)
Search(frame, below) ==
  /\ loading' = <<frame>> \o
       [i \in DOMAIN below |-> [below[i] EXCEPT !.inner = @ \cup InstalledPaths(frame.path)]]
  /\ IF Installed(<<"lisp">>, frame.path) = NoPath
     THEN UNCHANGED <<installed_path, installed_contrib_path>>
     ELSE /\ installed_path' = Installed(<<"lisp">>, frame.path)
          /\ installed_contrib_path' = Installed(<<"lisp", "contrib">>, frame.path)

(* lisp_x_load_file *)
LoadFile(name) ==
  LET path == Suffixed(name)
  IN  /\ package' = PackageName(path)
      /\ IF IsAbsolute(path)
         THEN /\ loading' = <<Frame(path, 0, path, package)>>
              /\ UNCHANGED <<installed_path, installed_contrib_path>>
         ELSE Search(Frame(path, 1, NoPath, package), <<>>)

Call == Head(loading)
Reading == loading # <<>> /\ Call.file # NoPath
Searching == loading # <<>> /\ Call.file = NoPath

SearchPaths ==
  LocalPaths(exe, Call.path)
    \o (IF Installed(<<"lisp">>, Call.path) = NoPath THEN <<>>
        ELSE <<installed_path, installed_contrib_path>>)

(* The innermost call returns. *)
Return(success) ==
  /\ loading' = Tail(loading)
  /\ package' = IF Call.saved = <<>> THEN package ELSE Call.saved
  /\ loaded' = IF success
               THEN loaded \cup
                      {[asked |-> Call.path, file |-> Call.file, inner |-> Call.inner]}
               ELSE loaded
  /\ UNCHANGED <<installed_path, installed_contrib_path>>

(* The next path of the list is tried. *)
TryPath ==
  /\ Searching
  /\ IF Call.next > Len(SearchPaths)
     THEN Return(FALSE)
     ELSE /\ loading' =
               IF SearchPaths[Call.next] \in DOMAIN files
               THEN [loading EXCEPT ![1].file = SearchPaths[Call.next], ![1].item = 1]
               ELSE [loading EXCEPT ![1].next = @ + 1]
          /\ UNCHANGED <<installed_path, installed_contrib_path, package, loaded>>
  /\ UNCHANGED <<start, stage, args, load_index, log, g_caps, sequence,
                 cli_handler_table, flags, memory>>

(* The file cannot be read or one of its expressions fails: the search     *)
(* goes on, unless the path was absolute.                                  *)
FileFails ==
  /\ Reading
  /\ Call.file \in DOMAIN files =>
       Call.item <= Len(files[Call.file]) /\ files[Call.file][Call.item].do = "fail"
  /\ IF Call.next = 0
     THEN Return(FALSE)
     ELSE /\ loading' = [loading EXCEPT ![1].file = NoPath, ![1].next = @ + 1]
          /\ UNCHANGED <<installed_path, installed_contrib_path, package, loaded>>
  /\ UNCHANGED <<start, stage, args, load_index, log, g_caps, sequence,
                 cli_handler_table, flags, memory>>

FileEnds ==
  /\ Reading
  /\ Call.file \in DOMAIN files /\ Call.item > Len(files[Call.file])
  /\ Return(TRUE)
  /\ UNCHANGED <<start, stage, args, load_index, log, g_caps, sequence,
                 cli_handler_table, flags, memory>>

Expression ==
  /\ Reading
  /\ Call.file \in DOMAIN files /\ Call.item <= Len(files[Call.file])

Item == files[Call.file][Call.item]
Evaluated == <<[Call EXCEPT !.item = @ + 1]>> \o Tail(loading)

(* (load-system-file name) *)
LoadSystemFile ==
  /\ Expression /\ Item.do = "load"
  /\ Search(Frame(Item.path, 1, NoPath, <<>>), Evaluated)
  /\ UNCHANGED <<start, stage, args, load_index, log, g_caps, sequence, package,
                 cli_handler_table, loaded, flags, memory>>

(* (register-cli-handler short long handler) *)
RegisterCliHandler ==
  /\ Expression /\ Item.do = "register"
  /\ cli_handler_table' =
       [f \in Item.flags \cup DOMAIN cli_handler_table |->
          IF f \in Item.flags THEN Item.handler ELSE cli_handler_table[f]]
  /\ loading' = Evaluated
  /\ UNCHANGED <<start, stage, args, load_index, log, g_caps, sequence,
                 installed_path, installed_contrib_path, package, loaded, flags,
                 memory>>

(* (set-log-filter spec) *)
SetLogFilter ==
  /\ Expression /\ Item.do = "filter"
  /\ filter' = SetFilter(filter, Item.spec)
  /\ spec' = Item.spec
  /\ loading' = Evaluated
  /\ UNCHANGED <<start, stage, args, load_index, g_caps, sequence,
                 installed_path, installed_contrib_path, package,
                 cli_handler_table, loaded, flags, memory>>

-----------------------------------------------------------------------------
(* lisp_x_load_init: the default session, then init.lisp.                  *)
LoadInit ==
  /\ At("init")
  /\ stage' = Following("init")
  /\ Search(Frame(InitFile, 1, NoPath, <<>>), <<>>)
  /\ UNCHANGED <<start, args, load_index, log, g_caps, sequence, package,
                 cli_handler_table, loaded, flags, memory>>

(* lisp_x_register_telnet *)
RegisterTelnet ==
  /\ At("register")
  /\ stage' = Following("register")
  /\ memory' = [memory EXCEPT !.pointers = @ \cup {"session"}]
  /\ UNCHANGED <<start, args, load_index, log, g_caps, sequence, load, flags>>

LoadScript ==
  /\ At("scripts")
  /\ IF load_index > Len(load_files)
     THEN stage' = Following("scripts") /\ UNCHANGED <<load, load_index>>
     ELSE /\ LoadFile(load_files[load_index])
          /\ load_index' = load_index + 1
          /\ UNCHANGED <<stage, cli_handler_table, loaded>>
  /\ UNCHANGED <<start, args, log, g_caps, sequence, flags, memory>>

Known(arg) ==
  /\ arg.flag \in DOMAIN cli_handler_table
  /\ cli_handler_table[arg.flag] # "unbound"

(* lisp_x_dispatch_cli_args: a flag without a handler, and a handler that  *)
(* fails, do not keep the others from theirs.                              *)
DispatchCliArgs ==
  /\ At("flags")
  /\ IF cli_index > Len(cli_pending_args)
     THEN /\ stage' = Following("flags")
          /\ memory' = Released(memory, memory.pointers \cap {"cli_pending_args"})
          /\ UNCHANGED flags
     ELSE /\ LET arg == cli_pending_args[cli_index]
             IN  calls' = IF Known(arg) THEN Append(calls, arg) ELSE calls
          /\ cli_index' = cli_index + 1
          /\ UNCHANGED <<stage, memory>>
  /\ UNCHANGED <<start, args, load_index, log, g_caps, sequence, load>>

ConnectToHost ==
  /\ At("connect")
  /\ stage' = Following("connect")
  /\ memory' = IF hostname = NotGiven \/ "connect" \in faults THEN memory
               ELSE Allocated(memory, {"socket"})
  /\ UNCHANGED <<start, args, load_index, log, g_caps, sequence, load, flags>>

-----------------------------------------------------------------------------
(* The event loop, as far as it reaches these parts.                       *)
AskColor ==
  /\ At("loop") /\ sequence = Written
  /\ \E r, g, b \in Channel, ground \in {30, 40} :
       sequence' = [rgb |-> <<r, g, b>>, ground |-> ground,
                    seq |-> FormatColor(g_caps, ground, r, g, b)]
  /\ UNCHANGED <<start, stage, args, load_index, log, g_caps, load, flags, memory>>

WriteColor ==
  /\ sequence # Written
  /\ sequence' = Written
  /\ UNCHANGED <<start, stage, args, load_index, log, g_caps, load, flags, memory>>

ChangeFilter ==
  /\ At("loop") /\ sequence = Written
  /\ spec' \in Specs
  /\ filter' = SetFilter(filter, spec')
  /\ UNCHANGED <<start, stage, args, load_index, g_caps, sequence, load, flags,
                 memory>>

(* The command :load.                                                      *)
LoadCommand ==
  /\ At("loop") /\ sequence = Written
  /\ \E name \in Names : LoadFile(name)
  /\ UNCHANGED <<start, stage, args, load_index, log, g_caps, sequence,
                 cli_handler_table, loaded, flags, memory>>

(* lisp_x_complete_prefix makes its storage when it is first needed.       *)
CompleteWord ==
  /\ At("loop") /\ sequence = Written
  /\ memory' = Allocated(memory, Completions \ memory.pointers)
  /\ UNCHANGED <<start, stage, args, load_index, log, g_caps, sequence, load,
                 flags>>

(* The loop ends; main() frees the list of scripts and returns.            *)
LeaveLoop ==
  /\ At("loop") /\ sequence = Written
  /\ stage' = "exit"
  /\ memory' = Released(memory, memory.pointers \cap {"load_files"})
  /\ UNCHANGED <<start, args, load_index, log, g_caps, sequence, load, flags>>

(* cleanup(), run at every exit after termcaps_init.                       *)
Cleanup ==
  /\ At("exit")
  /\ LET gone(mem, names) == Released(mem, mem.pointers \cap names)
         runtime == gone(gone(gone(memory, {"socket"}), {"telnet"}), {"runtime", "app"})
     IN  memory' = LispCleanup(runtime)
  /\ g_caps' = Nothing
  /\ stage' = "gone"
  /\ UNCHANGED <<start, args, load_index, log, sequence, load, flags>>

Gone == stage = "gone" /\ UNCHANGED vars

Next ==
  \/ RefuseArgs \/ LoadOption \/ LogOption \/ FlagOption \/ HostOrPort
  \/ DetectTerminal \/ InitLisp \/ CreateTelnet \/ CreateRuntime
  \/ LoadInit \/ RegisterTelnet \/ LoadScript \/ DispatchCliArgs \/ ConnectToHost
  \/ TryPath \/ FileFails \/ FileEnds
  \/ LoadSystemFile \/ RegisterCliHandler \/ SetLogFilter
  \/ AskColor \/ WriteColor \/ ChangeFilter \/ LoadCommand \/ CompleteWord
  \/ LeaveLoop \/ Cleanup \/ Gone

Spec == Init /\ [][Next]_vars

-----------------------------------------------------------------------------
(* The calls that the first n flags of the command line should make.       *)
CallsFor[n \in 0 .. Len(cli_pending_args)] ==
  IF n = 0 THEN <<>>
  ELSE IF Known(cli_pending_args[n]) THEN Append(CallsFor[n - 1], cli_pending_args[n])
  ELSE CallsFor[n - 1]

(* The file of that name in some directory. *)
IsFile(path, file) == IsSuffix(path.dir, file.dir) /\ path.base = file.base

(* Scripts before flags: a flag of the command line is handed to the       *)
(* handler that a script registers for it exactly once, in the order they  *)
(* were given, wherever -l stands among them and whatever else fails; a    *)
(* load that succeeds has read the file that was asked for, or one that a  *)
(* load inside it left in the static buffers; and no load leaves its       *)
(* package behind.                                                         *)
ScriptsThenFlags ==
  /\ At("connect") => calls = CallsFor[Len(cli_pending_args)]
  /\ \A l \in loaded : IsFile(l.asked, l.file) \/ l.file \in l.inner
  /\ loading = <<>> => package = User

(* Cleanup after any failure: nothing is freed twice or used after it was  *)
(* freed, and when the program is gone nothing is held that the cleanup    *)
(* knows of (the lists made from the arguments go with the process).       *)
ReleasedOnce ==
  /\ memory.misused = {}
  /\ stage = "gone" => memory.heap \subseteq {"load_files", "cli_pending_args"}

(* Output is what was configured: a colour is written in the form the      *)
(* terminal knows and rounded as Fits says (down to the ramp for a grey,   *)
(* to the nearest step of the cube in each channel for another colour,     *)
(* half on or not where there are only hues), and a message reaches the    *)
(* viewport exactly as the last filter, from the command line or from      *)
(* Lisp, was written.                                                      *)
OutputAsConfigured ==
  /\ sequence # Written =>
       Fits(g_caps, sequence.ground, sequence.rgb, sequence.seq)
  /\ WellFormed(spec) =>
       \A level \in Levels, tag \in Tags \cup {NoTag} :
         Allows(filter, level, tag) = AsWritten(spec, level, tag)
=============================================================================
