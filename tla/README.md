# mudlark in TLA+

A verification project for mudlark, the terminal telnet client for MUDs in this
repository (C, with a Lisp layer). It models the program's own logic, checks it
with TLC on small instances, and proves the most important properties with
TLAPS for every value of the constants.

## The system

mudlark is one process with one thread. The library boba owns the event loop
(`select()` on the terminal and on one descriptor that mudlark offers, a tick,
and a queue of scheduled commands); the library ditty interprets Lisp. Nothing
runs in parallel inside the program. What makes it hard is that the server, the
network and the user move between any two system calls, that state is copied
between components and refreshed later, and that hooks, timers and input
handlers call back into the code that runs them.

| Component | State | Operations | Correct when |
| --- | --- | --- | --- |
| Telnet connection (`telnet.c`) | `struct Telnet`: socket, state, parser state, server echo, log file | connect with retries, receive and parse, send with escaping, report the window size, disconnect | no descriptor leaks; a connection starts clean; the text does not depend on how the stream is cut; calls return |
| Event loop and lines (`main.c`) | `g_connected`, `g_server_echo`, `g_quit_requested`, tab-completion cursor | socket ready, tick, line submitted, Tab, resize, exit | the copies agree with the struct between events; secrets are neither shown nor remembered; hang-ups are noticed |
| Colon commands (`commands.c`) | none | `:connect`, `:disconnect`, `:quit`, `:load`, `:eval` | telnet calls are used legally |
| Sessions (`session.c`) | array of at most 32 sessions, current session | create, switch, destroy, find | ids unique, the current session exists, the array is dense |
| Hooks and transforms (`lisp_extension.c`) | per-session hook lists, default hooks | add, remove, clear, run (event, filter, transform) | sorted by priority, no duplicate, a running list is not disturbed |
| Send queue (`lisp_extension.c`) | `pending_send_buf`, `pending_send_scheduled` | `telnet-send`, `send-input`, flush | in order, once, to the session they were meant for |
| Timers (`init.lisp`, `lisp_extension.c`) | sorted `*timer-list*`, `*timer-next-fire-ms*` | run-at-time, cancel-timer, run-timers | none lost, none fired twice, the next fire time is current |
| Word store (`init.lisp`) | hash, FIFO slots and trie of seen words | add word, get completions | the three agree; bounded; first in, first out |
| Tab completion (`main.c`, `lisp_extension.c`) | borrowed completion array, count, index, word start; the storage behind them | first Tab, next Tab, other keys, end of a read | the array is current when it is read; the next Tab replaces the candidate that is shown |
| View (`telnet_app.c`) | focus, size, rows of the layout | key, resize, focus | the rows fit the input as it is now |
| Text from the server (`main.c`, `lisp_extension.c`) | none between pieces | strip, input hook, transform, show | hooks hear plain text; nothing received is lost or doubled on screen |
| Start and exit (`main.c`, `lisp_extension.c`) | options, scripts, flags, the objects created | parse, initialise, load, dispatch, clean up | every flag reaches its handler; nothing leaks or is freed twice |
| Log filter, terminal capabilities, paths (`logging.c`, `terminal_caps.c`, `path_utils.c`) | tables of settings | set, detect, look up, format | output is what was configured; the file asked for is the file read |
| Practice mode (`practice.lisp`) | mode, command rotation, sleep and its timer | start, stop, texts of the game, the timer | a timer exists exactly while asleep; a sleep ends |
| Slash commands, status modes, F-keys (`init.lisp`) | registries | register, dispatch, set, remove | prefix rules; sorted |
| TinTin++ layer (`lisp/contrib/tintin*.lisp`) | tables of aliases, actions, highlights, variables; execution flag; caches | `#` commands, input and output hooks | aliases end; caches are current; flags are reset |

How they interact. `boba` calls `on_telnet_ready` -> `telnet_receive` -> input
hooks -> Lisp, which may call `telnet-send` or `send-input`; both only queue
work, which `boba` runs later. A submitted line goes to `process_command`, or
through the user-input hooks to `telnet_send`. The tick calls `run-timers`, and
its timeout comes from `*timer-next-fire-ms*`. `main.c` keeps copies of the
struct's connection and echo state.

## Modules

| Module | Models | Kind |
| --- | --- | --- |
| `Telnet` | `telnet.c`: connect, receive, parse, disconnect, against a server and a kernel | component |
| `TelnetStream` | the receive path against the definition of the protocol on whole streams | history variables over `Telnet` |
| `Client` | `main.c` and `commands.c` over `Telnet` | composition |
| `TelnetOut` | the send path: hook results, queued texts and window sizes through short writes to a server that parses them | component |
| `Incoming` | the way of the server's text through `strip_ansi_codes` and the two input hooks to the viewport | component |
| `Timers` | the timers of `init.lisp`, their callbacks, and the tick of the event loop | component |
| `Sessions` | `session.c`, the hooks a session starts with, the queue behind `telnet-send` and `send-input` | component |
| `Hooks` | one hook's list as a chain of cons cells, and the three ways to run it | component |
| `RecentWords` | what the completion store promises | abstract specification |
| `WordStore` | hash table, ring and trie of the completion store; implements `RecentWords` | component, refinement |
| `App` | focus and layout of `telnet_app.c` | component |
| `TabCompletion` | the Tab key of `main.c`, over `WordStore` and `App` | composition |
| `TermCaps`, `LogFilter`, `Paths` | `terminal_caps.c`, `logging.c` and `path_utils.c` as operators | pure algorithms |
| `Startup` | `main()` from the arguments to the exit, over the three | composition |
| `Practice` | `practice.lisp` with its timer, its lines and the game | component with its environment |
| `TelnetProofs` | theorems about `Telnet`, `TelnetStream` and `Client` | proofs |
| `TextProofs` | theorems about `Incoming` and `TelnetOut` | proofs |
| `SessionsProofs`, `TimersProofs`, `HooksProofs`, `StartupProofs`, `PracticeProofs` | theorems about the module of that name | proofs |
| `TabProofs` | theorems about `WordStore`, its refinement of `RecentWords`, `TabCompletion` and `App` | proofs |
| `MC...` | the constants of the runs | model checking |

`PROJECT.json` maps every definition to the lines it models. Operators marked
`Mutant` are plausible bugs; each stands before the definition it spoils, and is
used to test that the properties notice it.

### Telnet

The variables `socket`, `state`, `data_state`, `server_echo` and `log_file` are the
members of the struct. The program calls `telnet_connect`, `telnet_receive` and
`telnet_disconnect` one at a time; `pc` says how far the call has got and `rc` what
the last one returned. Each `connect()`, `select()` and `recv()` is a step, because
the server (`PeerSend`, `PeerClose`) moves between them, and each byte of the parse
loop is a step, because the loop writes its text over the bytes it reads. The kernel
hands out descriptors from a small set, so that a lost one shows. Not in the model:
name resolution and the contents of the log.

### Client

`Client` extends `Telnet`: an event handler of `main.c` or a colon command starts a
telnet call, `calling` says which handler waits for it, and the handler goes on with
`rc`. The copies `g_connected`, `g_server_echo` and `g_quit_requested` are variables of
their own. `CallsLegal` is the specification of `Telnet` itself, whose `Call` connects
only an unconnected struct: the client may not use the struct in any other way.
A typed line is not a string but a place where it shows (`exposed`).

### TelnetOut

A send is one `send()` call on a non-blocking socket: `Transmit` gives the kernel
what there is room for and drops the rest, as `telnet_send` and
`telnet_set_terminal_size` do. `server` is the state of a telnet parser that follows
RFC 854, 855 and 1073 over the bytes that were taken; it is external and is the judge
of the three properties. `cut` and `short` are history: a send was not taken whole, or
ended inside a doubled IAC or a size. `UserLine` is the way of a typed line
through `user-input-hook` and `user-input-transform-hook`, failures included, and
`FlushSend` that of a text from the queue of `Sessions`. TinTin++ is here what the rest of
the program can see of it: it takes the `#` lines and answers nil, or fails.

### Incoming

The server writes items (plain text, escape sequences, control bytes), of which a
reader knows what text they are; the network cuts their bytes into pieces anywhere
(`HandlePiece`). `StripByte` is one turn of `strip_ansi_codes`. A transform either leaves
the piece alone, which still takes it through a C string, or fails, and then
`handle_telnet_data` shows the piece as it came.

### Timers

A timer is a number; its second list element is `fire_time`, which `run-timers` changes
in place. `run-timers` is a walk: `RunTimers` detaches the list, `Fire` calls the next
due function, and `CallbackReturns` or `CallbackFails` ends it. While a function runs,
`RunAtTime` and `CancelTimer` are steps like between events, and the clock goes on.
`TickDue` is the event loop's own call, when the timeout it computed from
`*timer-next-fire-ms*` has run out; a tick for another reason is `RunTimers` alone.
That an error in a function propagates through `run-timers` to `lisp_x_run_timers`
(which logs it) is taken from the C code's handling of `LISP_ERROR` results.

### Sessions

The array, `current_session` and `next_session_id` of `session.c`, and
`pending_send_buf`, `pending_send_scheduled` and boba's queue of scheduled commands.
Texts are numbered as they are queued, and remember their session and connection.
There is one Telnet struct, and `lisp_x_register_telnet` gives it to the first session.

### Hooks

A run of a hook holds a pointer into the list while handlers change the hook. The
heap of cells is therefore part of the model: `SetList` allocates the copied part and
links it to the part that is shared. A cell's address is its place in the order of
allocation; the cells of one copy are allocated together, the last of them first, so that
every cell points to an earlier one (the code allocates them front to back and links
them afterwards; nothing runs in between). `RunHook` may happen while a handler runs, so runs
nest. Each of the program's hooks is always run in one way (event, filter or
transform), chosen in the initial state. A value is nil, a text (a member of `Text`) or a list
of texts; `Given` are the values that a run is started with.

### WordStore and RecentWords

`RecentWords` keeps, for each stored word, the number of additions since it was last
added; a word is forgotten after `Capacity` additions. `WordStore` has the code's hash
table, ring of slots, index, count and trie. The trie maps paths to leaf lists; that
hash entries refer to trie nodes is kept as a flag that pruning clears. The refinement
mapping takes a word's age to be the difference of sequence numbers, so the ring must
forget each word exactly when its age says so.

### TabCompletion and App

`TabCompletion` extends `WordStore` with the variables of `main.c:119-124`, the storage
that `lisp_x_complete_prefix` reuses (`completion_arena` and the capacity of
`completion_ptrs`, which names the block) and boba's text input as the word at the cursor
with its place. One read of the terminal may hold several keys, so `Key` and
`StdinProcessed` are separate steps, and text from the server, which adds words, comes
between reads. `FetchFails` has every failure of a fetch, also the one in which memory runs
out after the arena was cleared. `App` is instantiated as `View`: every key that the
text input takes also recomputes the layout.

### Startup, TermCaps, LogFilter, Paths

`Startup` runs `main()` on one of a set of circumstances (`Given`): arguments,
environment, the program's directory, the files that exist with their expressions, and
what fails. `stage` is the next thing `main()` does (`Stages`), and `loading` the stack of
loads, since a script may load others; a file is evaluated one expression at a time.
Memory is the set of objects, the set of pointers that are not NULL, and what was
freed or followed when it did not exist: the session's pointer to the connection and the
two registered pointers are second pointers, which the exit must not follow.
A path is the sequence of its directories and the parts of its name, a filter its list
of `tag:LEVEL` parts, a colour sequence its list of parameters. Values of environment
variables are names, and which names a terminal's or a locale's pattern fits are constants.
What `strncpy` and `snprintf` cut off (a flag of more than 63 bytes, a value of more than
511) is left out.

### Practice

The functions of `practice.lisp`, each an action or part of `PracticeTelnetHook`, with the
list of timers (any timer in it may fire at any time) and a game as the environment: it
answers each line, may be slow, may send its prompt apart from its text, and interrupts
with hunger. A text is what the script's patterns find in it. The lines on their way are
one sequence; the program has two queues for them (see `Sessions`), whose order does not
matter to the two properties.

## The runs

| Run | Question | Bounds | Why they are enough |
| --- | --- | --- | --- |
| `telnet_stream` | leaks, fresh starts, agreement of state, socket and server, calls that return; is the text independent of how the stream is cut | 2 descriptors, 3-byte buffer, 1 retry, 5 bytes sent, alphabet of a text byte, IAC, WILL, WONT, ECHO | one for the socket and one for the log, or for one that is lost, which `NoLeak` sees in the step that loses it; an option before, across and behind a full buffer; every way out of `telnet_connect` |
| `client` | are main.c's copies current, calls legal, secrets hidden; do hang-ups and exits go through | 4-byte buffer, 8 bytes, 1 retry; options arrive with text behind them | a prompt, an answer, a hang-up and a reconnect |
| `client_lone_packets` | (violation) is password mode on when the option arrives alone | 4 bytes | one option |
| `timers` | is the list sorted, the timeout current, no timer lost, early, late or drifting | 3 timers, clock to 2, callbacks schedule, cancel and fail | two timers in a run, and one that is not due or that a callback adds; repeaters that fire twice |
| `timers_schedule` | (violation) is a timer kept that a callback schedules | as above, callbacks schedule | due, not due and new timer |
| `sessions` | does the current session exist and a destroyed one leave nothing; is every text flushed once, in order, to where it belongs | 2 of 2 slots, 3 ids, 3 texts, 1 connection | a slot used again; a text before, in and after a flush |
| `hooks` | does a run see the list it began with; is the list sorted and complete | 3 handlers, 2 priorities, 4 cells, 2 nested runs, handlers symmetric | removal at the head, in the middle and at the end, with shared and copied cells |
| `completion` | do the store's three structures agree and implement `RecentWords`; is a borrowed array current, the cycle the one that is shown, the layout the one that fits | 3 slots, 5 additions, 5 words (two case variants, one extends another, one branches off, one too short), 2 keys in a read, a first block of 2 pointers, heights 24 and 5 | the ring wraps, duplicates hit the slot about to be taken and others, every kind of pruning; the block must grow; a Tab before and behind another key; a terminal that is too low |
| `send` | does the server read what was meant, what does a short send spoil, does a `#` line stay here | 10 bytes of kernel buffer, 3 sends on a connection, sizes with and without a byte 255 | a size and a text with IAC bytes that do not fit together, cut at every byte |
| `incoming` | does the hook hear plain text, does the viewport show everything | pieces of up to 6 bytes, 4 items of 8 kinds | every item whole in one piece, cut in two, and several in one; an escape inside an escape, a NUL in the middle |
| `startup` | do flags reach their handlers, is everything released once, is output as configured | 16 starts, 3 table entries, 4 filters, 13 values of a channel in each of three | channels out of range, at both ends of the ramp and at steps of the cube; each failure, each kind of terminal, each place of a flag, a search list walked to its end; an installed script that loads another and then fails |
| `practice` | is there a timer exactly while asleep, does a sleep end | 2 commands, 4 lines, 2 timers | a second sleep with lines of the first on their way |

The properties, by run (each has its full statement above its definition):

- `telnet_stream`: `NoLeak` (the process holds the current socket and log file and no other descriptor); `FreshStart` (`telnet_connect` finds the struct as `telnet_create` made it); `StateAgrees` (state, socket and the server's end agree); `InPlaceParse` (the text never overtakes the bytes it is written over); `ParsedAsSent` (text, echo and parser state are those of the whole stream); `CallsReturn` (every call returns).
- `client`: `CopiesAgree` (between events `g_connected` is what the struct says, and password mode needs a connection); `SecretHidden` (a secret is neither shown nor in the history); `ExitReleases` (no descriptor leaks, none is held at exit); `CallsLegal` (every step of the client is one of `Telnet`); `HangUpNoticed` (a closed connection is noticed); `QuitExits` (quitting ends the program).
- `client_lone_packets`: `SecretHidden` (as above, violated).
- `timers`: `ScheduleAgrees` (the list is sorted, without duplicates, and the cached fire time is its head's); `UntouchedKept` (a timer no callback touched stays); `OnPlan` (repeaters keep their rhythm); `FiresRightly` (nothing fires early or after a cancel); `DueFires` (a due timer fires).
- `timers_schedule`: `NoneLost` (no scheduled timer is lost, violated).
- `sessions`: `CurrentExists` (the current session is in the array, ids are unique); `FlushIsScheduled` (texts wait exactly when one flush is coming); `SentInOrder` (texts are sent once and in order); `QueueServes` (the queue drains, and a text whose session and connection last is sent).
- `hooks`: `ListIsRegistered` (the chain is what was registered, sorted); `RunsWhatItFound` (a run calls the handlers it began with); `TransformKeeps` (a transform by itself loses and reorders nothing).
- `completion`: `StructuresAgree` (hash table, ring and trie hold the same words); `RecentSpec` (the store implements `RecentWords`); `CompletionsAgree` (completions are those the stored words allow); `BorrowIsCurrent` (the borrowed array is the one that exists); `CycleIsShown` (the next Tab replaces what is shown); `LayoutFits` (the rows fit the input and the terminal).
- `send`: `CommandsStayHere` (no `#` line reaches the server, as long as no send was cut inside an escape or a size and no size has a byte 255); `ServerUnderstands` (sends taken whole arrive as meant); `LossIsConfined` (a short send spoils only what it cut).
- `incoming`: `HeardIsPlain` (hooks hear the plain text unless a cut goes through a sequence); `ShownIsReceived` (the viewport shows each byte once unless a NUL goes through the transform).
- `startup`: `ScriptsThenFlags` (each flag reaches the handler a script registered, each load the file asked for, or one that a load inside it left in the static buffers); `ReleasedOnce` (everything is freed once); `OutputAsConfigured` (the log shows what the last filter lets through; a colour is rounded down to the ramp if it is grey, to the nearest step of the cube in each channel if not, and to its hues in sixteen and eight colours).
- `practice`: `TimerWhileAsleep` (there is one timer while asleep and none otherwise); `WakesOrStops` (a sleep ends).

Deadlock is checked in every run but `client` and `client_lone_packets` (the program
exits) and `incoming` (the bound on items stops the server).
The type invariants of `Telnet`, `Client`, `Timers`, `Sessions`, `Hooks` and `Practice` are
proved (below); that of `WordStore` is part of `StructuresAgree`.

### Fairness

`Telnet`: a call that can go on does, and `select()` returns after its timeout.
`Client`: the event loop serves a readable descriptor and runs handlers to their end;
`Exit` is strongly fair, because commands of the same pasted input may run before the
loop looks at `g_quit_requested`. `Timers`: the loop's timeout runs out at the cached
time, and the walk goes on, so functions return. `Sessions`: boba works off its queue
of commands. `Practice`: the loop runs the practice timer and reads what has come, the
game answers lines, and it restores mana to a character who sleeps; this last is
strongly fair, as lines in between interrupt the rest. Nothing is assumed of the server,
the user, scripts or the clock, and the other runs need no fairness.

## What is proved

Every safety property that a passing run checks, invariant or action property, is a
theorem: TLAPS checks it for every value of the constants that meets the named assumptions
of its module (the assumptions give types: packets are byte sequences, the buffer is not
empty, bounds are naturals; and they say that lower case works letter by letter and what
an escape sequence is; TLC evaluates them in the runs). Two theorems have a hypothesis
besides, named below (`SecretAlwaysHidden` and `CommandsAreHeld`). Each proof follows the same
argument: an inductive invariant, one step of the proof for each action, lemmas about the
data. The invariants, and why what the runs check does not suffice alone:

- `TelnetProofs`, the connection. `IInv` is `TypeOK`, `StateAgrees`, `FreshStart`, `NoLeak` and
  `InPlaceParse`. `NoLeak` alone is not inductive: a step that closes or replaces the socket
  releases the right descriptor only because `StateAgrees` says whether there is one, and
  `FreshStart` says that there is no log file left when a connection begins.
- `TelnetProofs`, the stream. `SInv` adds that `data_state` is the state to which the bytes
  of the whole stream lead (`ParserFollows`, with `Reading` for the sequence of states), and
  that what is shown and not yet returned is the text of the call in progress
  (`ReturnsFollow`). `AlwaysParsedAsSent` then needs what one more byte does to the
  definition on whole streams: `StartsAre` (units start where the parser is in its normal
  state), `TextAppend` and `EchoAppend`. The recursive functions of `UnitStarts` and `TextOf`
  are shown to exist by `Recursion`; induction over positions goes through `NatSet`,
  a set of naturals with 0 and the successor of each member. So the text, the echo mode and
  the completeness of what is returned are proved for streams, buffers and cuts of any length.
- `TelnetProofs`, the client. `CInv` is `IInv` with `ClientTypeOK`, `ControlAgrees` (in which calls the
  program can be at each point of its event loop, and what `rc` says there of the
  connection) and `MaskAgrees` (password mode outlives a connection only inside
  `:connect`). From it follow `CopiesAgree`, `NoLeak` and `ExitReleases`, and `CallsLegal`:
  every step of the client is a step of `Telnet`, so the theorems about `Telnet` hold of the
  composed program. `SecretAlwaysHidden` has a hypothesis, `PromptsOnly`: every packet, read
  from the parser's normal state, ends with a text byte. The run `client` has such packets,
  and `client_lone_packets`, whose packets are bare options, shows that without the
  hypothesis the property is false. `SecretInv` says that what is received and not yet
  parsed ends in text whenever the copy of the echo mode is behind (`CopyFollows`).
- `SessionsProofs`. `TableAgrees` adds to `CurrentExists` that new ids are greater than old
  ones; `FlushIsScheduled` is inductive with the types; `OrderAgrees` relates the numbers
  of all texts in the buffer, in the command queue and in the output. `AlwaysQueuedIsSent` is
  the safety half of `QueueServes`.
- `TimersProofs`. `IInv` has, besides the types: the list, the timers a run still has to
  walk and those it has set aside are disjoint, without duplicates, and the first two sorted
  (`ListsInv`); timers not yet created are nowhere (`NewInv`); during a run the list holds
  only what callbacks scheduled (`RunInv`); the cached time is that of the head even where
  `CacheCurrent` says nothing (`CacheInv`); the timers with a call to come are those in the
  three lists, less a one-shot timer whose function is running (`HeldInv`); and a repeater
  whose function is running is one interval behind its plan (`PlanInv`).
- `HooksProofs`. Every cell points to an earlier one (`Linked`), so the chain from any cell is
  finite, and new cells change no chain that exists; `ListInv` adds to the order of the list
  that ages are below the size of the heap; `RunsInv` says of each nested run that its next cell
  begins the functions it has to call yet, and of a transform what is kept of its texts.
- `TabProofs`. `RingInv` says that a word's slot is as far behind the ring's index as additions were
  made since the word's own (`AgesAgree`); `TrieInv` that the trie holds exactly
  the stored words, each at its own path (`Holds`). They give `StructuresAgree`, and the
  refinement: initial states map to initial states, and each step of the composed
  specification to a step of `RecentWords` or a stutter (`StoreImplementsRecentWords`).
  `CycleAgrees` extends `CycleIsShown` into the middle of a read.
  The completions (`AlwaysCompletesAsPromised`) are a fact about each state: what is
  collected below a prefix's node are the entries of the words that start with it
  (`CollectedWords`), the words have different numbers because words of one number would
  have one slot, and a finite set with different keys is sorted in exactly one way
  (`SortedOnce`), so the entries by number are the words by age (`SameOrder`).
- `TextProofs`, the server's text. `IncomingType` gives `ShownIsReceived`: a C
  string of a text without a NUL is the text, whether the transform fails or not.
  `HeardIsPlain` is not inductive, as it says nothing while bytes are unread. `HeardInv` says
  that the stripper, going on over the unread bytes from plain text and from what was heard,
  ends with the text of what was written and in plain text. The lemmas say what each item leaves
  behind (no text and plain text again, for an escape sequence of any length that
  `ItemsAssumption` allows), and that a piece which ends between items ends in plain text.
- `TextProofs`, the client's text. `OutInv` relates the server's parser to the texts and
  sizes that were meant for it: with every send whole, its text is theirs; otherwise, with no
  send cut inside an escape or a size, its parser is between commands and its text is
  theirs with parts left out (`LeftOver`), without a line that begins with `#` (`Unharmed`).
  The lemmas say that a text with its IAC bytes doubled, and a size without a byte 255, are
  read as they were meant and leave the parser in its first state, and that a part of a
  text does so too when it ends with an even number of IAC bytes. They go through
  sequences by their prefixes, with the set `NatSet` in place of induction over data.
  `CommandsAreHeld` has a hypothesis: no text that a transform returns has a line that
  begins with `#`. The run gives the transform such texts only; a hook that returns one means
  it to be sent.
- `StartupProofs`. `MemoryInv` says that every object has its pointer and every pointer its object
  (`Consistent`), and what there is at the first and the last stages; `FileInv` what each frame of the stack of loads is
  looking for and what package it will restore; `FlagInv` that the calls so far are those
  of the flags so far. `ReleasedOnce` and `ScriptsThenFlags` follow for every set of starts.
  `OutputAsConfigured` is `LogInv` (the filter is what `mudlark_log_set_filter` makes of the
  last specification, so that what the table lets through is shown, part by part of a
  specification of any length, to be what was written) and `ColorInv` (the sequence is what the
  present capabilities make of its colour). For 256 colours the index is taken apart into
  its steps of the cube, and each step shown to be the nearest one of its channel; the grey
  of the ramp is shown to be at most, and less than ten below, the one that was asked for
  (`GreyShown`: white above 243, black or 8 below 8). Channels are any integers. That the
  index is the closest of the palette is not proved, because it is not so (see below).
- `PracticeProofs`. `ModesAgree` (asleep the mode is on and a timer is held, awake none is)
  makes `TimerWhileAsleep` inductive.

TLC checked the strengthened invariants on the constants of the runs before they were
proved. `PROJECT.json` lists the theorems with what each establishes.

Only model-checked:

- liveness: `CallsReturn`, `HangUpNoticed`, `QuitExits`, `DueFires`, the draining half of
  `QueueServes`, and `WakesOrStops`. Fairness and ENABLED are out of the prover's reach.

## What the models show

Disagreements with what the repository says of itself, each with a run that finds it:

- `client_lone_packets`: WILL ECHO without text behind it leaves password mode off;
  the next line is shown and remembered (`main.c:437`).
- `timers_schedule`: a timer that a callback schedules is lost when the run leaves
  timers that are not due (`init.lisp:464`).

### What the models show besides

Behaviours that the models contain and that are described here instead of in a run:

- The parameters of a subnegotiation reach the user's text (`telnet.c:652` drops only
  the two bytes of the command), while `README.md:7` promises an "RFC 854 compliant
  telnet client". `UnitLength` of `TelnetStream` takes the parameters for text, as the code does.
- `cancel-timer` called by a timer function misses the timers that the walk has
  detached (`init.lisp:442`): such a timer is called all the same and, if it repeats, is
  inserted again. `touched` keeps these timers out of the properties of `timers`.
- `*default-hooks*` stays empty, as the first session exists before `init.lisp` is
  loaded (`lisp_extension.c:2014`), so a later session starts without the hooks of
  `init.lisp`, while `lisp_extension.c:704` says "Populate session's hooks table from
  defaults" (`LoadInit` order in `Startup`, `CreateSession` in `Sessions`).
- In password mode a line that starts with a colon is taken for a command and shown in
  the unknown-command message (`SubmitUnknown`; `main.c:294`).
- `:connect` from a password prompt keeps password mode until the first text of the new
  connection (`AfterCommand`; `main.c:304`).
- A timer function that signals an error loses the timers behind it and the repeaters
  before it, and leaves the timeout in the past, so the loop spins until a timer is
  set (`CallbackFails`; `init.lisp:470`). `touched` and `failed` keep these timers out
  of the properties of the `timers` run, which are about all others.
- A text queued by one session and flushed while another is current is dropped
  (`RunFlush`; `lisp_extension.c:1251`), and one queued on a connection may be sent on the
  next. `QueueServes` is about the texts whose session and connection are still current.
- `session_destroy` never disconnects, because `Session.connected` is never set
  (`DestroySession`; `session.c:100`).
- What `send()` does not take is lost (`telnet.c:538`), and a send that ends inside a
  doubled IAC or a window size leaves the server in the middle of a command (`cut`).
- A window of 255 columns or rows (or any size with such a byte) is reported with a lone
  255, which the server takes for IAC (`telnet.c:712`; `Ambiguous`). Behind such a size, or behind
  one that was cut before its last byte, the server also takes the first byte of the next
  text for the rest of a command: of `a#` it reads `#`, at the start of a line. `CommandsStayHere`
  is therefore about connections without such a cut or size.
- An escape sequence that the network cuts is heard in part as text, since
  `strip_ansi_codes` starts each piece afresh (`lisp_extension.c:252`; `split`), and so is the
  last byte of a two-byte charset escape, which the stripper takes for text.
- A NUL byte ends what the viewport shows of its piece (`lisp_extension.c:1834`; `shortened`).
- A `#` line is sent as text when `user-input-transform-hook` is not callable, as after
  an `init.lisp` that fails (`lisp_extension.c:1883`); `send` starts from an `init.lisp` that loaded.
- A word that is edited behind a Tab in the same read of the terminal is replaced by the
  next Tab (`main.c:279`; `overtyped`).
- The buffers for the installed paths are static (`lisp_extension.c:551`): an installed
  script that itself loads a file and then fails makes the outer search go on with
  that file's path and report success (`InstalledPaths`; `startup` has such a start, and
  `ScriptsThenFlags` lets a load have read what a load inside it left there). No file in
  the repository does both.
- `terminal_caps.h:87` promises the "closest 256-color palette index". A grey is rounded down
  instead (`terminal_caps.c:473`: 17 becomes 232, whose level is 8, where 233 with 18 is
  nearer), a grey above 243 becomes white (244 gives 231, where 255 with 238 is nearer), and a
  colour that is nearly grey is looked up in the cube alone ((47, 47, 48) becomes 17, the dark
  blue (0, 0, 95), where 236 with 48 is nearer). All three colours occur in `startup`;
  `ShowsStep` asks for the rounding that the code does, not for the closest index.
- With sixteen colours the bright ones are written as `90 + N` and `100 + N`
  (`terminal_caps.c:553`, `:595`), where `terminal_caps.h:109` and `:116` document
  `\033[3N;1m` and `\033[4N;1m`. `ShowsHues` follows the code.
- `tests/init.lisp:141-187` asserts that the completion store keeps one entry for each word in
  lower case. The code keeps case variants apart (`init.lisp:257`), and so do
  `test-case-completion.lisp`, which runs, and `RecentWords`. The older file is not in `TESTS`
  (`tests/Makefile.am:64`) and calls `trie-remove!`, which no longer exists.
- `README.md:195` gives each session "its own telnet connection". The program has one
  `struct Telnet`, given to the first session, and so have `Client` and `Sessions`.
- A filter with more than 16 tags is cut there, a wildcard behind them included
  (`logging.c:55`; `WellFormed`). Truecolor sequences do not clamp their channels
  (`terminal_caps.c:535`).
- A practice that is stopped and started while its command is on the way goes on with
  both, and every retry of theirs is a line more (`practice.lisp:235`; bounded by `MaxSends`).

## Plan

The model is as wide as the runs and properties have room for, and what can be proved of
the runs' properties is proved. Left are:

1. The liveness properties, which stay with TLC.
2. The layers under "Not modelled", of which the TinTin++ execution flag and aliases that
   expand to each other matter most.

## Not modelled

- The libraries boba and ditty: only what mudlark asks of them.
- The TinTin++ layer (`lisp/contrib/tintin*.lisp`) and the spell translator: interpreters
  of another client's language whose substance is matching and rewriting strings. Their
  place in the program (handlers that consume a line, make several of it, or fail) is in
  `TelnetOut` and `Hooks`. That aliases which expand to each other end, and that the
  execution flag is reset, is therefore not checked.
- Slash commands and status modes of `init.lisp`: tables changed by single assignments.
- Cutting texts into words for the completion store (`init.lisp:331-356`): a scan over the
  characters of a text, whose result is the words that `WordStore` is given.
- The queries that ask the terminal for its capabilities (`terminal_caps.c:330-440`):
  nothing in the program enables them.
- The branches for Windows, the crash handlers, drawing (borders, prompt, status text),
  the wording of messages and logs, the Emacs mode, the test server and the build.

`PROJECT.json` lists each part with its reason.
