--------------------------- MODULE StartupProofs ---------------------------
(***************************************************************************)
(* Proofs about module Startup, for every argument list, environment, set  *)
(* of files and set of faults.                                             *)
(***************************************************************************)
EXTENDS Startup, FiniteSetTheorems, WellFoundedInduction, TLAPS

(* What malloc and socket return, and the second pointers to some of it.   *)
Lists == {"load_files", "cli_pending_args"}
Owned == Lists \cup Buffers \cup Completions \cup {"telnet", "runtime", "app", "socket"}
Borrowed == Registered \cup {"session"}

MemoryType ==
  [heap : SUBSET Owned, pointers : SUBSET (Owned \cup Borrowed), misused : SUBSET Owned]

(* Every object has its pointer and every pointer its object.              *)
Sound(mem) ==
  /\ mem \in MemoryType
  /\ mem.misused = {}
  /\ mem.heap = mem.pointers \ Borrowed

Consistent(mem) ==
  /\ Sound(mem)
  /\ \A p \in mem.pointers : Object(p) \in mem.heap

(* What main() has made by each of its stages.                             *)
MemoryInv ==
  /\ Consistent(memory)
  /\ stage \in {"args", "gone"} => memory.heap \subseteq Lists
  /\ stage \in {"runtime", "init", "register"} => "telnet" \in memory.heap

-----------------------------------------------------------------------------
(* Each stage stands once in the list. *)
LEMMA StagesOnce ==
  ASSUME NEW i \in 1 .. 9
  PROVE  Following(Stages[i]) = Stages[i + 1]
<1>1. /\ Len(Stages) = 10
      /\ \A j, k \in 1 .. 10 : Stages[j] = Stages[k] => j = k
  BY DEF Stages
<1>2. DOMAIN Stages = 1 .. 10
  BY <1>1 DEF Stages
<1>3. (CHOOSE j \in DOMAIN Stages : Stages[j] = Stages[i]) = i
  BY <1>1, <1>2
<1>4. 1 + i = i + 1
  OBVIOUS
<1>5. Following(Stages[i]) = Stages[1 + i]
  BY <1>3 DEF Following
<1>6. QED
  BY <1>4, <1>5

(* The order of main(), stage by stage. *)
LEMMA Order ==
  /\ Following("args") = "lisp" /\ Following("lisp") = "telnet"
  /\ Following("telnet") = "runtime" /\ Following("runtime") = "init"
  /\ Following("init") = "register" /\ Following("register") = "scripts"
  /\ Following("scripts") = "flags" /\ Following("flags") = "connect"
  /\ Following("connect") = "loop"
<1>1. /\ Stages[1] = "args" /\ Stages[2] = "lisp" /\ Stages[3] = "telnet"
      /\ Stages[4] = "runtime" /\ Stages[5] = "init" /\ Stages[6] = "register"
      /\ Stages[7] = "scripts" /\ Stages[8] = "flags" /\ Stages[9] = "connect"
      /\ Stages[10] = "loop"
  BY DEF Stages
<1>2. \A i \in 1 .. 9 : Following(Stages[i]) = Stages[i + 1]
  BY StagesOnce
<1>3. /\ Following(Stages[1]) = Stages[2] /\ Following(Stages[2]) = Stages[3]
      /\ Following(Stages[3]) = Stages[4] /\ Following(Stages[4]) = Stages[5]
      /\ Following(Stages[5]) = Stages[6] /\ Following(Stages[6]) = Stages[7]
      /\ Following(Stages[7]) = Stages[8] /\ Following(Stages[8]) = Stages[9]
      /\ Following(Stages[9]) = Stages[10]
  BY <1>2
<1>4. QED
  BY <1>1, <1>3

(* A pointer that is not a second one points to an object of its own name. *)
LEMMA Objects ==
  /\ \A p : p \notin Borrowed => Object(p) = p
  /\ Object("session") = "telnet"
  /\ Object("registered_runtime") = "runtime"
  /\ Object("registered_status_sink") = "app"
  BY DEF Object, Borrowed, Registered

(* Objects that exist, released by their own pointers, are gone with them. *)
LEMMA Release ==
  ASSUME NEW mem \in MemoryType, NEW names \in SUBSET Owned, names \subseteq mem.heap
  PROVE  /\ Released(mem, names) \in MemoryType
         /\ Released(mem, names).heap = mem.heap \ names
         /\ Released(mem, names).pointers = mem.pointers \ names
         /\ Released(mem, names).misused = mem.misused
<1>1. \A p \in names : Object(p) = p
  BY Objects DEF Owned, Borrowed, Registered, Lists, Buffers, Completions
<1>2. { Object(p) : p \in names } = names
  BY <1>1
<1>3. Followed(mem, names) = [mem EXCEPT !.misused = @ \cup (names \ mem.heap)]
  BY <1>2 DEF Followed
<1>4. QED
  BY <1>2, <1>3 DEF Released, MemoryType

(* New objects with their own pointers. *)
LEMMA Allocate ==
  ASSUME NEW mem \in MemoryType, NEW names \in SUBSET Owned
  PROVE  /\ Allocated(mem, names) \in MemoryType
         /\ Allocated(mem, names).heap = mem.heap \cup names
         /\ Allocated(mem, names).pointers = mem.pointers \cup names
         /\ Allocated(mem, names).misused = mem.misused
  BY DEF Allocated, MemoryType
(* Pointers that are not NULL, taken as cleanup() takes them, are released *)
(* with their objects and nothing else is touched.                         *)
LEMMA SoundRelease ==
  ASSUME NEW mem, Sound(mem), NEW names \in SUBSET Owned
  PROVE  /\ Sound(Released(mem, mem.pointers \cap names))
         /\ Released(mem, mem.pointers \cap names).heap = mem.heap \ names
         /\ Released(mem, mem.pointers \cap names).pointers = mem.pointers \ names
<1>1. mem \in MemoryType /\ mem.misused = {} /\ mem.heap = mem.pointers \ Borrowed
  BY DEF Sound
<1>2. mem.pointers \cap names \in SUBSET Owned
  OBVIOUS
<1>3. names \cap Borrowed = {}
  BY DEF Owned, Borrowed, Registered, Lists, Buffers, Completions
<1>4. mem.pointers \cap names \subseteq mem.heap
  BY <1>1, <1>3
<1>5. /\ Released(mem, mem.pointers \cap names) \in MemoryType
      /\ Released(mem, mem.pointers \cap names).heap = mem.heap \ (mem.pointers \cap names)
      /\ Released(mem, mem.pointers \cap names).pointers
           = mem.pointers \ (mem.pointers \cap names)
      /\ Released(mem, mem.pointers \cap names).misused = mem.misused
  BY <1>1, <1>2, <1>4, Release
<1>6. /\ mem.heap \ (mem.pointers \cap names) = mem.heap \ names
      /\ mem.pointers \ (mem.pointers \cap names) = mem.pointers \ names
      /\ mem.heap \ names = (mem.pointers \ names) \ Borrowed
  BY <1>1
<1>7. QED
  BY <1>1, <1>5, <1>6 DEF Sound

(* Nothing borrows the lists that are made from the arguments. *)
LEMMA ConsistentRelease ==
  ASSUME NEW mem, Consistent(mem), NEW names, names \subseteq Lists
  PROVE  Consistent(Released(mem, mem.pointers \cap names))
<1> DEFINE left == Released(mem, mem.pointers \cap names)
<1>1. names \in SUBSET Owned
  BY DEF Owned
<1>2. Sound(left) /\ left.heap = mem.heap \ names /\ left.pointers = mem.pointers \ names
  BY <1>1, SoundRelease DEF Consistent
<1> HIDE DEF left
<1>3. ASSUME NEW p \in left.pointers
      PROVE  Object(p) \in left.heap
  <2>1. p \in mem.pointers /\ p \notin names
    BY <1>2
  <2>2. Object(p) \in mem.heap
    BY <2>1 DEF Consistent
  <2>3. CASE p \in Borrowed
    <3>1. Object(p) \in {"telnet", "runtime", "app"}
      BY <2>3, Objects DEF Borrowed, Registered
    <3>2. QED
      BY <1>2, <2>2, <3>1 DEF Lists
  <2>4. CASE p \notin Borrowed
    BY <1>2, <2>1, <2>2, <2>4, Objects
  <2>5. QED
    BY <2>3, <2>4
<1>4. QED
  BY <1>2, <1>3 DEF Consistent, left

(* What is made has its own pointer. *)
LEMMA ConsistentAllocate ==
  ASSUME NEW mem, Consistent(mem), NEW names \in SUBSET Owned
  PROVE  /\ Consistent(Allocated(mem, names))
         /\ Allocated(mem, names).heap = mem.heap \cup names
<1>1. mem \in MemoryType /\ mem.misused = {} /\ mem.heap = mem.pointers \ Borrowed
  BY DEF Consistent, Sound
<1>2. names \cap Borrowed = {}
  BY DEF Owned, Borrowed, Registered, Lists, Buffers, Completions
<1>3. /\ Allocated(mem, names) \in MemoryType
      /\ Allocated(mem, names).heap = mem.heap \cup names
      /\ Allocated(mem, names).pointers = mem.pointers \cup names
      /\ Allocated(mem, names).misused = mem.misused
  BY <1>1, Allocate
<1>4. Sound(Allocated(mem, names))
  BY <1>1, <1>2, <1>3 DEF Sound
<1>5. \A p \in mem.pointers \cup names : Object(p) \in mem.heap \cup names
  BY <1>2, Objects DEF Consistent
<1>6. QED
  BY <1>3, <1>4, <1>5 DEF Consistent

(* lisp_x_cleanup leaves no pointer to what it does not own. *)
LEMMA ConsistentLispCleanup ==
  ASSUME NEW mem, Sound(mem)
  PROVE  /\ Consistent(LispCleanup(mem))
         /\ LispCleanup(mem).heap = mem.heap \ (Buffers \cup Completions)
<1> DEFINE storage == Buffers \cup Completions
           left == Released(mem, mem.pointers \cap storage)
<1>1. storage \in SUBSET Owned
  BY DEF Owned
<1>2. Sound(left) /\ left.heap = mem.heap \ storage
  BY <1>1, SoundRelease
<1>3. LispCleanup(mem) = [left EXCEPT !.pointers = @ \ Borrowed]
  BY DEF LispCleanup, Borrowed
<1>4. left \in MemoryType /\ left.misused = {} /\ left.heap = left.pointers \ Borrowed
  BY <1>2 DEF Sound
<1> HIDE DEF left
<1>5. /\ LispCleanup(mem) \in MemoryType
      /\ LispCleanup(mem).heap = left.heap
      /\ LispCleanup(mem).pointers = left.pointers \ Borrowed
      /\ LispCleanup(mem).misused = left.misused
  BY <1>3, <1>4 DEF MemoryType
<1>6. Sound(LispCleanup(mem))
  BY <1>4, <1>5 DEF Sound
<1>7. \A p \in LispCleanup(mem).pointers : Object(p) \in LispCleanup(mem).heap
  BY <1>4, <1>5, Objects
<1>8. QED
  BY <1>2, <1>5, <1>6, <1>7 DEF Consistent
(* The cleanup in the order of main.c, whatever exists when it begins.     *)
LEMMA StepCleanup == MemoryInv /\ Cleanup => MemoryInv'
<1> SUFFICES ASSUME MemoryInv, Cleanup
             PROVE  MemoryInv'
  OBVIOUS
<1> DEFINE gone(mem, names) == Released(mem, mem.pointers \cap names)
           one == gone(memory, {"socket"})
           two == gone(one, {"telnet"})
           three == gone(two, {"runtime", "app"})
<1>1. memory' = LispCleanup(three) /\ stage' = "gone"
  BY DEF Cleanup
<1>2. {"socket"} \in SUBSET Owned /\ {"telnet"} \in SUBSET Owned
      /\ {"runtime", "app"} \in SUBSET Owned
  BY DEF Owned
<1>3. Sound(memory)
  BY DEF MemoryInv, Consistent
<1>4. Sound(one) /\ one.heap = memory.heap \ {"socket"}
  BY <1>2, <1>3, SoundRelease
<1> HIDE DEF one
<1>5. Sound(two) /\ two.heap = one.heap \ {"telnet"}
  BY <1>2, <1>4, SoundRelease
<1> HIDE DEF two
<1>6. Sound(three) /\ three.heap = two.heap \ {"runtime", "app"}
  BY <1>2, <1>5, SoundRelease
<1> HIDE DEF three
<1>7. /\ Consistent(LispCleanup(three))
      /\ LispCleanup(three).heap = three.heap \ (Buffers \cup Completions)
  BY <1>6, ConsistentLispCleanup
<1>8. memory.heap \subseteq Owned
  BY <1>3 DEF Sound, MemoryType
<1>9. LispCleanup(three).heap \subseteq Lists
  BY <1>4, <1>5, <1>6, <1>7, <1>8 DEF Owned
<1>10. QED
  BY <1>1, <1>7, <1>9 DEF MemoryInv

(* One step per action that makes, releases or relies on memory. *)
LEMMA StepMemory == MemoryInv /\ [Next]_vars => MemoryInv'
<1> SUFFICES ASSUME MemoryInv, [Next]_vars
             PROVE  MemoryInv'
  OBVIOUS
<1>0. Consistent(memory)
  BY DEF MemoryInv
<1>1. ASSUME memory' = memory, stage' = stage
      PROVE  MemoryInv'
  BY <1>1 DEF MemoryInv
<1>2. CASE RefuseArgs
  <2>1. memory' = memory /\ stage = "args" /\ stage' = "gone"
    BY <1>2 DEF RefuseArgs, Parsing
  <2>2. QED
    BY <2>1 DEF MemoryInv
<1>3. CASE LoadOption
  <2>1. memory' = Allocated(memory, {"load_files"}) /\ stage = "args" /\ stage' = "args"
    BY <1>3 DEF LoadOption, Parsing
  <2>2. {"load_files"} \in SUBSET Owned /\ {"load_files"} \subseteq Lists
    BY DEF Owned, Lists
  <2>3. Consistent(memory') /\ memory'.heap = memory.heap \cup {"load_files"}
    BY <1>0, <2>1, <2>2, ConsistentAllocate
  <2>4. QED
    BY <2>1, <2>2, <2>3 DEF MemoryInv
<1>4. CASE FlagOption
  <2>1. /\ memory' = Allocated(memory, {"cli_pending_args"})
        /\ stage = "args" /\ stage' = "args"
    BY <1>4 DEF FlagOption, Parsing
  <2>2. {"cli_pending_args"} \in SUBSET Owned /\ {"cli_pending_args"} \subseteq Lists
    BY DEF Owned, Lists
  <2>3. Consistent(memory') /\ memory'.heap = memory.heap \cup {"cli_pending_args"}
    BY <1>0, <2>1, <2>2, ConsistentAllocate
  <2>4. QED
    BY <2>1, <2>2, <2>3 DEF MemoryInv
<1>5. CASE DetectTerminal
  <2>1. memory' = memory /\ stage' = "lisp"
    BY <1>5, Order DEF DetectTerminal
  <2>2. QED
    BY <2>1 DEF MemoryInv
<1>6. CASE InitLisp
  <2> DEFINE had == Allocated(memory, Buffers \ faults)
  <2>1. Buffers \ faults \in SUBSET Owned
    BY DEF Owned
  <2>2. Consistent(had)
    BY <1>0, <2>1, ConsistentAllocate
  <2> HIDE DEF had
  <2>3. Consistent(LispCleanup(had))
    BY <2>2, ConsistentLispCleanup DEF Consistent
  <2>4. /\ memory' \in {memory, had, LispCleanup(had)}
        /\ stage' \in {"exit", "telnet"}
    BY <1>6, Order DEF InitLisp, had
  <2>5. Consistent(memory')
    BY <1>0, <2>2, <2>3, <2>4
  <2>6. QED
    BY <2>4, <2>5 DEF MemoryInv
<1>7. CASE CreateTelnet
  <2>1. \/ stage' = "exit" /\ memory' = memory
        \/ stage' = "runtime" /\ memory' = Allocated(memory, {"telnet"})
    BY <1>7, Order DEF CreateTelnet
  <2>2. {"telnet"} \in SUBSET Owned
    BY DEF Owned
  <2>3. /\ Consistent(Allocated(memory, {"telnet"}))
        /\ Allocated(memory, {"telnet"}).heap = memory.heap \cup {"telnet"}
    BY <1>0, <2>2, ConsistentAllocate
  <2>4. QED
    BY <1>0, <2>1, <2>3 DEF MemoryInv
<1>8. CASE CreateRuntime
  <2> DEFINE had == Allocated(memory, {"runtime", "app"})
  <2>1. {"runtime", "app"} \in SUBSET Owned
    BY DEF Owned
  <2>2. Consistent(had) /\ had.heap = memory.heap \cup {"runtime", "app"}
    BY <1>0, <2>1, ConsistentAllocate
  <2>3. \/ stage' = "exit" /\ memory' = memory
        \/ stage' = "init" /\ memory' = [had EXCEPT !.pointers = @ \cup Registered]
    BY <1>8, Order DEF CreateRuntime
  <2> HIDE DEF had
  <2>4. ASSUME memory' = [had EXCEPT !.pointers = @ \cup Registered]
        PROVE  Consistent(memory') /\ memory'.heap = had.heap
    <3>1. had \in MemoryType /\ had.misused = {} /\ had.heap = had.pointers \ Borrowed
      BY <2>2 DEF Consistent, Sound
    <3>2. /\ memory' \in MemoryType /\ memory'.heap = had.heap
          /\ memory'.pointers = had.pointers \cup Registered
          /\ memory'.misused = had.misused
      BY <2>4, <3>1 DEF MemoryType, Borrowed
    <3>3. Sound(memory')
      BY <3>1, <3>2 DEF Sound, Borrowed
    <3>4. \A p \in Registered : Object(p) \in {"runtime", "app"}
      BY Objects DEF Registered
    <3>5. \A p \in had.pointers \cup Registered : Object(p) \in had.heap
      BY <2>2, <3>4 DEF Consistent
    <3>6. QED
      BY <3>2, <3>3, <3>5 DEF Consistent
  <2>5. stage = "runtime"
    BY <1>8 DEF CreateRuntime, At
  <2>6. QED
    BY <1>0, <2>2, <2>3, <2>4, <2>5 DEF MemoryInv
<1>9. CASE LoadInit
  <2>1. memory' = memory /\ stage = "init" /\ stage' = "register"
    BY <1>9, Order DEF LoadInit, At
  <2>2. QED
    BY <2>1 DEF MemoryInv
<1>10. CASE RegisterTelnet
  <2>1. /\ memory' = [memory EXCEPT !.pointers = @ \cup {"session"}]
        /\ stage = "register" /\ stage' = "scripts"
    BY <1>10, Order DEF RegisterTelnet, At
  <2>2. /\ memory \in MemoryType /\ memory.misused = {}
        /\ memory.heap = memory.pointers \ Borrowed
    BY <1>0 DEF Consistent, Sound
  <2>3. /\ memory' \in MemoryType /\ memory'.heap = memory.heap
        /\ memory'.pointers = memory.pointers \cup {"session"}
        /\ memory'.misused = memory.misused
    BY <2>1, <2>2 DEF MemoryType, Borrowed
  <2>4. Sound(memory')
    BY <2>2, <2>3 DEF Sound, Borrowed
  <2>5. Object("session") \in memory.heap
    BY <2>1, Objects DEF MemoryInv
  <2>6. QED
    BY <1>0, <2>1, <2>3, <2>4, <2>5 DEF MemoryInv, Consistent
<1>11. CASE LoadScript
  <2>1. memory' = memory /\ stage = "scripts" /\ stage' \in {"scripts", "flags"}
    BY <1>11, Order DEF LoadScript, At
  <2>2. QED
    BY <2>1 DEF MemoryInv
<1>12. CASE DispatchCliArgs
  <2>1. /\ stage = "flags"
        /\ \/ stage' = stage /\ memory' = memory
           \/ /\ stage' = "connect"
              /\ memory' = Released(memory, memory.pointers \cap {"cli_pending_args"})
    BY <1>12, Order DEF DispatchCliArgs, At
  <2>2. {"cli_pending_args"} \subseteq Lists
    BY DEF Lists
  <2>3. Consistent(Released(memory, memory.pointers \cap {"cli_pending_args"}))
    BY <1>0, <2>2, ConsistentRelease
  <2>4. QED
    BY <1>0, <2>1, <2>3 DEF MemoryInv
<1>13. CASE ConnectToHost
  <2>1. /\ stage' = "loop"
        /\ memory' = memory \/ memory' = Allocated(memory, {"socket"})
    BY <1>13, Order DEF ConnectToHost
  <2>2. {"socket"} \in SUBSET Owned
    BY DEF Owned
  <2>3. Consistent(Allocated(memory, {"socket"}))
    BY <1>0, <2>2, ConsistentAllocate
  <2>4. QED
    BY <1>0, <2>1, <2>3 DEF MemoryInv
<1>14. CASE CompleteWord
  <2>1. /\ stage = "loop" /\ stage' = "loop"
        /\ memory' = Allocated(memory, Completions \ memory.pointers)
    BY <1>14 DEF CompleteWord, At
  <2>2. Completions \ memory.pointers \in SUBSET Owned
    BY DEF Owned
  <2>3. Consistent(memory')
    BY <1>0, <2>1, <2>2, ConsistentAllocate
  <2>4. QED
    BY <2>1, <2>3 DEF MemoryInv
<1>15. CASE LeaveLoop
  <2>1. /\ stage' = "exit"
        /\ memory' = Released(memory, memory.pointers \cap {"load_files"})
    BY <1>15 DEF LeaveLoop
  <2>2. {"load_files"} \subseteq Lists
    BY DEF Lists
  <2>3. Consistent(memory')
    BY <1>0, <2>1, <2>2, ConsistentRelease
  <2>4. QED
    BY <2>1, <2>3 DEF MemoryInv
<1>16. CASE Cleanup
  BY <1>16, StepCleanup
<1>17. CASE \/ LogOption \/ HostOrPort \/ TryPath \/ FileFails \/ FileEnds
            \/ LoadSystemFile \/ RegisterCliHandler \/ SetLogFilter
            \/ AskColor \/ WriteColor \/ ChangeFilter \/ LoadCommand \/ Gone
            \/ UNCHANGED vars
  <2>1. CASE LogOption \/ HostOrPort
    <3>1. CASE LogOption
      BY <1>1, <3>1 DEF LogOption
    <3>2. CASE HostOrPort
      BY <1>1, <3>2 DEF HostOrPort
    <3>3. QED
      BY <2>1, <3>1, <3>2
  <2>2. CASE TryPath \/ FileFails \/ FileEnds
    BY <1>1, <2>2 DEF TryPath, FileFails, FileEnds
  <2>3. CASE LoadSystemFile \/ RegisterCliHandler \/ SetLogFilter
    BY <1>1, <2>3 DEF LoadSystemFile, RegisterCliHandler, SetLogFilter
  <2>4. CASE AskColor \/ WriteColor \/ ChangeFilter \/ LoadCommand
    BY <1>1, <2>4 DEF AskColor, WriteColor, ChangeFilter, LoadCommand
  <2>5. CASE Gone \/ UNCHANGED vars
    BY <1>1, <2>5 DEF Gone, vars
  <2>6. QED
    BY <1>17, <2>1, <2>2, <2>3, <2>4, <2>5
<1>18. QED
  BY <1>2, <1>3, <1>4, <1>5, <1>6, <1>7, <1>8, <1>9, <1>10, <1>11, <1>12, <1>13,
     <1>14, <1>15, <1>16, <1>17 DEF Next
(* The program begins with nothing. *)
LEMMA InitMemory == Init => MemoryInv
<1> SUFFICES ASSUME Init
             PROVE  MemoryInv
  OBVIOUS
<1>1. memory = [heap |-> {}, pointers |-> {}, misused |-> {}] /\ stage = "args"
  BY DEF Init
<1>2. QED
  BY <1>1 DEF MemoryInv, Consistent, Sound, MemoryType

(* Memory is consistent throughout, and main() finds what it relies on.    *)
LEMMA SpecMemory == Spec => []MemoryInv
<1>1. Init => MemoryInv
  BY InitMemory
<1>2. MemoryInv /\ [Next]_vars => MemoryInv'
  BY StepMemory
<1>3. QED
  BY <1>1, <1>2, PTL DEF Spec

(* Whatever fails, nothing is freed twice, nothing is used after it was    *)
(* freed, and what cleanup() knows of is gone when the program is.         *)
THEOREM AlwaysReleasedOnce == Spec => []ReleasedOnce
<1>1. MemoryInv => ReleasedOnce
  BY DEF MemoryInv, Consistent, Sound, ReleasedOnce, Lists
<1>2. QED
  BY <1>1, SpecMemory, PTL

-----------------------------------------------------------------------------
(* Strings, those that the program has in it by name. *)
Word == STRING \cup {"lisp", "..", "contrib", "share", "mudlark", "init"}
File == [dir : Seq(Word), base : Seq(Word)]

FrameType ==
  [path : File, next : Nat, file : File, item : Nat \ {0}, saved : {<<>>, User},
   inner : SUBSET File]

(* The directories of the source tree and of an installation. *)
LEMMA Directories ==
  /\ <<"lisp">> \in Seq(Word) /\ <<"..", "lisp">> \in Seq(Word)
  /\ <<"lisp", "contrib">> \in Seq(Word)
  /\ <<"..", "lisp", "contrib">> \in Seq(Word)
  /\ <<"share", "mudlark">> \in Seq(Word)
<1>1. ASSUME NEW a \in Word, NEW b \in Word, NEW c \in Word
      PROVE  <<a>> \in Seq(Word) /\ <<a, b>> \in Seq(Word) /\ <<a, b, c>> \in Seq(Word)
  OBVIOUS
<1>2. /\ "lisp" \in Word /\ ".." \in Word /\ "contrib" \in Word
      /\ "share" \in Word /\ "mudlark" \in Word
  BY DEF Word
<1>3. QED
  BY <1>1, <1>2

(* What a directory and a path make is the path's file in a directory.     *)
LEMMA FileIn ==
  ASSUME NEW dir \in Seq(Word), NEW path \in File
  PROVE  In(dir, path) \in File /\ IsFile(path, In(dir, path))
<1>1. path.dir \in Seq(Word) /\ path.base \in Seq(Word)
  BY DEF File
<1>2. dir \o path.dir \in Seq(Word)
  BY <1>1
<1> DEFINE whole == dir \o path.dir
<1>a. whole \in Seq(Word) /\ In(dir, path) = [path EXCEPT !.dir = whole]
  BY <1>2 DEF In
<1> HIDE DEF whole
<1>b. /\ In(dir, path).dir = whole /\ In(dir, path).base = path.base
      /\ In(dir, path) \in File
  BY <1>1, <1>a DEF File
<1>3. ASSUME NEW s \in Seq(Word), NEW t \in Seq(Word)
      PROVE  IsSuffix(s, t \o s)
  <2>1. /\ Len(Reverse(s)) = Len(s) /\ Len(Reverse(t \o s)) = Len(t) + Len(s)
        /\ DOMAIN Reverse(s) = 1 .. Len(s)
        /\ DOMAIN Reverse(t \o s) = 1 .. Len(t) + Len(s)
        /\ Reverse(s) \in Seq(Word) /\ Reverse(t \o s) \in Seq(Word)
    BY DEF Reverse
  <2>2. ASSUME NEW i \in 1 .. Len(s)
        PROVE  Reverse(s)[i] = Reverse(t \o s)[i]
    BY DEF Reverse
  <2>3. QED
    BY <2>1, <2>2 DEF IsSuffix, IsPrefix
<1>4. QED
  BY <1>1, <1>b, <1>3 DEF IsFile, whole
(* A path names its own file. *)
LEMMA WholeFile ==
  ASSUME NEW path \in File
  PROVE  IsFile(path, path)
<1>1. path.dir \in Seq(Word)
  BY DEF File
<1>2. ASSUME NEW s \in Seq(Word)
      PROVE  IsSuffix(s, s)
  BY DEF IsSuffix, IsPrefix, Reverse
<1>3. QED
  BY <1>1, <1>2 DEF IsFile

(* The installed path of a file is a path of that file. *)
LEMMA InstalledFile ==
  ASSUME NEW dir \in Seq(Word), NEW sub \in Seq(Word), NEW path \in File
  PROVE  /\ InstalledResource(dir, sub, path) \in File
         /\ InstalledResource(dir, sub, path) # NoPath =>
              IsFile(path, InstalledResource(dir, sub, path))
<1>1. CASE dir # NoDirectory /\ IsInstalledBin(dir)
  <2>1. DataDirectory(dir) \in Seq(Word)
    <3>1. Len(dir) >= 2
      BY <1>1 DEF IsInstalledBin
    <3>2. SubSeq(dir, 1, Len(dir) - 1) \in Seq(Word)
      BY <3>1
    <3>3. QED
      BY <3>2, Directories DEF DataDirectory, Front
  <2>2. DataDirectory(dir) \o sub \in Seq(Word)
    BY <2>1
  <2>3. InstalledResource(dir, sub, path) = In(DataDirectory(dir) \o sub, path)
    BY <1>1 DEF InstalledResource
  <2>4. QED
    BY <2>2, <2>3, FileIn
<1>2. CASE ~(dir # NoDirectory /\ IsInstalledBin(dir))
  <2>1. InstalledResource(dir, sub, path) = NoPath
    BY <1>2 DEF InstalledResource
  <2>2. NoPath \in File
    BY DEF NoPath, File
  <2>3. QED
    BY <2>1, <2>2
<1>3. QED
  BY <1>1, <1>2

(* Each local path of the search list is a path of the file.               *)
LEMMA LocalFiles ==
  ASSUME NEW dir \in Seq(Word), NEW path \in File
  PROVE  /\ LocalPaths(dir, path) \in Seq(File)
         /\ \A i \in 1 .. Len(LocalPaths(dir, path)) : IsFile(path, LocalPaths(dir, path)[i])
<1> DEFINE Files == { p \in File : IsFile(path, p) }
           rest == << In(<<"lisp">>, path), In(<<"..", "lisp">>, path),
                      In(<<"lisp", "contrib">>, path),
                      In(<<"..", "lisp", "contrib">>, path) >>
<1>1. ASSUME NEW d \in Seq(Word)
      PROVE  In(d, path) \in Files
  BY FileIn
<1>3. In(dir, path) \in Files
  BY <1>1
<1>4. /\ In(<<"lisp">>, path) \in Files /\ In(<<"..", "lisp">>, path) \in Files
      /\ In(<<"lisp", "contrib">>, path) \in Files
      /\ In(<<"..", "lisp", "contrib">>, path) \in Files
  BY <1>1, Directories
<1> HIDE DEF Files
<1>5. rest \in Seq(Files)
  BY <1>4
<1>6. ExeRelative(dir, path) \in Seq(Files)
  BY <1>3 DEF ExeRelative
<1> HIDE DEF rest
<1>7. LocalPaths(dir, path) = ExeRelative(dir, path) \o rest
  BY DEF LocalPaths, rest
<1>8. LocalPaths(dir, path) \in Seq(Files)
  BY <1>5, <1>6, <1>7
<1>9. Files \subseteq File /\ \A p \in Files : IsFile(path, p)
  BY DEF Files
<1>10. QED
  BY <1>8, <1>9

-----------------------------------------------------------------------------
(* The two installed paths of a call stand in the static buffers, unless a *)
(* load inside it has put others there.  A call for an absolute path has   *)
(* no list (next is 0).                                                    *)
HasPaths(dir, frame, main, contrib) ==
  \/ frame.next = 0
  \/ InstalledResource(dir, <<"lisp">>, frame.path) = NoPath
  \/ /\ main \in frame.inner \cup {InstalledResource(dir, <<"lisp">>, frame.path)}
     /\ contrib \in
          frame.inner \cup {InstalledResource(dir, <<"lisp", "contrib">>, frame.path)}

RightFile(frame) ==
  frame.file = NoPath \/ IsFile(frame.path, frame.file) \/ frame.file \in frame.inner

FrameOK(dir, frame, main, contrib) ==
  /\ frame \in FrameType
  /\ RightFile(frame)
  /\ HasPaths(dir, frame, main, contrib)
  /\ frame.file = NoPath => frame.next # 0

List(dir, frame, main, contrib) ==
  LocalPaths(dir, frame.path)
    \o (IF InstalledResource(dir, <<"lisp">>, frame.path) = NoPath THEN <<>>
        ELSE <<main, contrib>>)

(* Whatever the search opens is the file of a call, or an inner one's.     *)
LEMMA ListIsRight ==
  ASSUME NEW dir \in Seq(Word), NEW main \in File, NEW contrib \in File,
         NEW frame, FrameOK(dir, frame, main, contrib), frame.next # 0,
         NEW i \in 1 .. Len(List(dir, frame, main, contrib))
  PROVE  /\ List(dir, frame, main, contrib)[i] \in File
         /\ \/ IsFile(frame.path, List(dir, frame, main, contrib)[i])
            \/ List(dir, frame, main, contrib)[i] \in frame.inner
            \/ List(dir, frame, main, contrib)[i] = NoPath
<1> DEFINE local == LocalPaths(dir, frame.path)
           one == InstalledResource(dir, <<"lisp">>, frame.path)
           two == InstalledResource(dir, <<"lisp", "contrib">>, frame.path)
           tail == IF one = NoPath THEN <<>> ELSE <<main, contrib>>
<1>1. frame.path \in File
  BY DEF FrameOK, FrameType
<1>2. local \in Seq(File) /\ \A j \in 1 .. Len(local) : IsFile(frame.path, local[j])
  BY <1>1, LocalFiles
<1>4. (one # NoPath => IsFile(frame.path, one)) /\ (two # NoPath => IsFile(frame.path, two))
  BY <1>1, Directories, InstalledFile
<1>5. List(dir, frame, main, contrib) = local \o tail
  BY DEF List
<1>6. \/ one = NoPath
      \/ main \in frame.inner \cup {one} /\ contrib \in frame.inner \cup {two}
  BY DEF FrameOK, HasPaths
<1> HIDE DEF local, one, two
<1>7. tail \in Seq(File)
  OBVIOUS
<1>8. CASE i <= Len(local)
  <2>1. (local \o tail)[i] = local[i]
    BY <1>2, <1>5, <1>7, <1>8
  <2>2. QED
    BY <1>2, <1>5, <1>8, <2>1
<1>9. CASE i > Len(local)
  <2>1. one # NoPath /\ i - Len(local) \in {1, 2}
    BY <1>2, <1>5, <1>7, <1>9
  <2>2. (local \o tail)[i] = tail[i - Len(local)]
    BY <1>2, <1>5, <1>7, <1>9
  <2>3. tail[i - Len(local)] \in {main, contrib}
    BY <2>1
  <2>4. QED
    BY <1>4, <1>5, <1>6, <2>1, <2>2, <2>3
<1>10. QED
  BY <1>2, <1>8, <1>9

-----------------------------------------------------------------------------
(* The loads under way, and the buffers that they share. *)
Stack(dir, stack, main, contrib) ==
  /\ main \in File /\ contrib \in File
  /\ stack \in Seq(FrameType)
  /\ \A i \in 1 .. Len(stack) : FrameOK(dir, stack[i], main, contrib)

(* Only the outermost load has a package to put back, and it is the user's. *)
PackageKept(stack, current) ==
  /\ stack = <<>> => current = User
  /\ \A i \in 1 .. Len(stack) :
       /\ i < Len(stack) => stack[i].saved = <<>>
       /\ i = Len(stack) /\ stack[i].saved = <<>> => current = User

(* The innermost load returns. *)
LEMMA Pop ==
  ASSUME NEW dir, NEW stack, NEW main, NEW contrib, NEW current,
         Stack(dir, stack, main, contrib), PackageKept(stack, current), stack # <<>>
  PROVE  /\ Stack(dir, Tail(stack), main, contrib)
         /\ PackageKept(Tail(stack),
              IF Head(stack).saved = <<>> THEN current ELSE Head(stack).saved)
<1> DEFINE rest == Tail(stack)
<1>1. /\ stack \in Seq(FrameType) /\ Len(stack) \in Nat /\ Len(stack) >= 1
      /\ Head(stack) = stack[1] /\ stack[1] \in FrameType
  BY DEF Stack
<1>2. /\ rest \in Seq(FrameType) /\ Len(rest) = Len(stack) - 1
      /\ \A i \in 1 .. Len(stack) - 1 : rest[i] = stack[i + 1]
  BY <1>1
<1> HIDE DEF rest
<1>3. Stack(dir, rest, main, contrib)
  BY <1>1, <1>2 DEF Stack
<1>4. stack[1].saved \in {<<>>, User}
  BY <1>1 DEF FrameType
<1>5. CASE Len(stack) = 1
  <2>1. rest = <<>> /\ Len(rest) = 0
    BY <1>1, <1>2, <1>5
  <2>2. stack[1].saved = <<>> => current = User
    BY <1>1, <1>5 DEF PackageKept
  <2>3. PackageKept(rest, IF stack[1].saved = <<>> THEN current ELSE stack[1].saved)
    BY <1>4, <2>1, <2>2 DEF PackageKept
  <2>4. QED
    BY <1>1, <1>3, <2>3 DEF rest
<1>6. CASE Len(stack) > 1
  <2>1. stack[1].saved = <<>>
    BY <1>1, <1>6 DEF PackageKept
  <2>2. rest # <<>>
    BY <1>1, <1>2, <1>6
  <2>3. PackageKept(rest, current)
    <3>1. ASSUME NEW i \in 1 .. Len(rest)
          PROVE  /\ i < Len(rest) => rest[i].saved = <<>>
                 /\ i = Len(rest) /\ rest[i].saved = <<>> => current = User
      <4>1. /\ i + 1 \in 1 .. Len(stack) /\ rest[i] = stack[i + 1]
            /\ i < Len(rest) => i + 1 < Len(stack)
            /\ i = Len(rest) => i + 1 = Len(stack)
        BY <1>1, <1>2
      <4>2. QED
        BY <4>1 DEF PackageKept
    <3>2. QED
      BY <2>2, <3>1 DEF PackageKept
  <2>4. QED
    BY <1>1, <1>3, <2>1, <2>3 DEF rest
<1>7. Len(stack) = 1 \/ Len(stack) > 1
  <2>1. \A n \in Nat : n >= 1 => n = 1 \/ n > 1
    OBVIOUS
  <2>2. QED
    BY <1>1, <2>1, Zenon
<1>8. QED
  BY <1>5, <1>6, <1>7, Zenon

Onward(stack, frame) == <<frame>> \o Tail(stack)

(* Only the first of the stack is another. *)
LEMMA OnwardIs ==
  ASSUME NEW T, NEW stack \in Seq(T), stack # <<>>, NEW frame \in T
  PROVE  Onward(stack, frame) = [stack EXCEPT ![1] = frame]
<1> DEFINE new == Onward(stack, frame)
<1>1. Len(stack) >= 1 /\ Len(stack) \in Nat
  OBVIOUS
<1>2. /\ new \in Seq(T) /\ Len(new) = Len(stack) /\ new[1] = frame
      /\ \A i \in 2 .. Len(stack) : new[i] = stack[i]
  BY <1>1 DEF Onward
<1> HIDE DEF new
<1>3. new = [stack EXCEPT ![1] = frame]
  BY <1>1, <1>2
<1>4. QED
  BY <1>3 DEF new

(* The innermost load goes on. *)
LEMMA Replace ==
  ASSUME NEW dir, NEW stack, NEW main, NEW contrib, NEW current, NEW frame,
         Stack(dir, stack, main, contrib), PackageKept(stack, current), stack # <<>>,
         FrameOK(dir, frame, main, contrib), frame.saved = Head(stack).saved
  PROVE  /\ Onward(stack, frame) # <<>>
         /\ Stack(dir, Onward(stack, frame), main, contrib)
         /\ PackageKept(Onward(stack, frame), current)
<1> DEFINE new == Onward(stack, frame)
<1>1. stack \in Seq(FrameType) /\ Len(stack) >= 1 /\ Head(stack) = stack[1]
  BY DEF Stack
<1>2. frame \in FrameType
  BY DEF FrameOK
<1>3. /\ new \in Seq(FrameType) /\ Len(new) = Len(stack) /\ new[1] = frame
      /\ \A i \in 2 .. Len(stack) : new[i] = stack[i]
  BY <1>1, <1>2 DEF Onward
<1> HIDE DEF new
<1>5. Stack(dir, new, main, contrib)
  <2>1. ASSUME NEW i \in 1 .. Len(new)
        PROVE  FrameOK(dir, new[i], main, contrib)
    <3>1. CASE i = 1
      BY <1>3, <3>1
    <3>2. CASE i # 1
      BY <1>1, <1>3, <3>2 DEF Stack
    <3>3. QED
      BY <3>1, <3>2
  <2>2. QED
    BY <1>3, <2>1 DEF Stack
<1>6. \A i \in 1 .. Len(new) : new[i].saved = stack[i].saved
  BY <1>1, <1>3
<1>7. PackageKept(new, current)
  BY <1>1, <1>3, <1>6 DEF PackageKept
<1>8. QED
  BY <1>1, <1>3, <1>5, <1>7 DEF new

(* What load_lisp_system_file does to the buffers, and to the loads. *)
Moved(dir, path, main, contrib, main2, contrib2) ==
  IF InstalledResource(dir, <<"lisp">>, path) = NoPath
  THEN main2 = main /\ contrib2 = contrib
  ELSE /\ main2 = InstalledResource(dir, <<"lisp">>, path)
       /\ contrib2 = InstalledResource(dir, <<"lisp", "contrib">>, path)

Pushed(dir, stack, path, saved) ==
  <<Frame(path, 1, NoPath, saved)>> \o
    [i \in DOMAIN stack |-> [stack[i] EXCEPT !.inner = @ \cup
      { InstalledResource(dir, <<"lisp">>, path),
        InstalledResource(dir, <<"lisp", "contrib">>, path) }]]

(* A load inside the others takes the static buffers for itself, and they  *)
(* know what it puts there.                                                *)
LEMMA Push ==
  ASSUME NEW dir \in Seq(Word), NEW stack, NEW main, NEW contrib, NEW current,
         Stack(dir, stack, main, contrib), PackageKept(stack, current),
         NEW path \in File, NEW saved \in {<<>>, User}, NEW main2, NEW contrib2,
         NEW next,
         stack # <<>> => saved = <<>> /\ next = current,
         stack = <<>> /\ saved = <<>> => next = User,
         Moved(dir, path, main, contrib, main2, contrib2)
  PROVE  /\ Stack(dir, Pushed(dir, stack, path, saved), main2, contrib2)
         /\ PackageKept(Pushed(dir, stack, path, saved), next)
<1> DEFINE one   == InstalledResource(dir, <<"lisp">>, path)
           two   == InstalledResource(dir, <<"lisp", "contrib">>, path)
           Sub(f) == [f EXCEPT !.inner = @ \cup {one, two}]
           below == [i \in DOMAIN stack |-> Sub(stack[i])]
           frame == Frame(path, 1, NoPath, saved)
           new   == <<frame>> \o below
<1>1. one \in File /\ two \in File
  BY Directories, InstalledFile
<1>2. /\ stack \in Seq(FrameType) /\ main \in File /\ contrib \in File
      /\ \A i \in 1 .. Len(stack) : FrameOK(dir, stack[i], main, contrib)
  BY DEF Stack
<1>3. /\ main2 \in {main, one} /\ contrib2 \in {contrib, two}
      /\ one = NoPath => main2 = main /\ contrib2 = contrib
      /\ one # NoPath => main2 = one /\ contrib2 = two
  BY DEF Moved
<1>4. HasPaths(dir, frame, main2, contrib2) /\ frame.path = path /\ frame.saved = saved
  BY DEF HasPaths, Frame, Moved
<1> HIDE DEF one, two
<1>5. NoPath \in File
  BY DEF NoPath, File
<1>6. frame \in FrameType /\ frame.file = NoPath /\ frame.next = 1
  BY <1>5 DEF Frame, FrameType
<1>7. FrameOK(dir, frame, main2, contrib2)
  BY <1>4, <1>6 DEF FrameOK, RightFile
<1> HIDE DEF frame
<1>8. ASSUME NEW i \in 1 .. Len(stack)
      PROVE  /\ [stack[i] EXCEPT !.inner = @ \cup {one, two}] \in FrameType
             /\ [stack[i] EXCEPT !.inner = @ \cup {one, two}].saved = stack[i].saved
             /\ FrameOK(dir, [stack[i] EXCEPT !.inner = @ \cup {one, two}], main2, contrib2)
  <2> DEFINE old == stack[i]
             f == [old EXCEPT !.inner = @ \cup {one, two}]
  <2>1. old \in FrameType /\ FrameOK(dir, old, main, contrib)
    BY <1>2
  <2> HIDE DEF old
  <2>2. /\ f \in FrameType /\ f.path = old.path /\ f.file = old.file
        /\ f.next = old.next /\ f.saved = old.saved
        /\ f.inner = old.inner \cup {one, two}
    BY <1>1, <2>1 DEF FrameType
  <2> HIDE DEF f
  <2>3. RightFile(f) /\ (f.file = NoPath => f.next # 0)
    BY <2>1, <2>2 DEF FrameOK, RightFile
  <2>4. HasPaths(dir, f, main2, contrib2)
    <3>1. CASE old.next = 0 \/ InstalledResource(dir, <<"lisp">>, old.path) = NoPath
      BY <2>2, <3>1 DEF HasPaths
    <3>2. CASE old.next # 0 /\ InstalledResource(dir, <<"lisp">>, old.path) # NoPath
      <4>1. /\ main \in old.inner \cup {InstalledResource(dir, <<"lisp">>, old.path)}
            /\ contrib \in
                 old.inner \cup {InstalledResource(dir, <<"lisp", "contrib">>, old.path)}
        BY <2>1, <3>2 DEF FrameOK, HasPaths
      <4>2. QED
        BY <1>3, <2>2, <4>1 DEF HasPaths
    <3>3. QED
      BY <3>1, <3>2
  <2>5. FrameOK(dir, f, main2, contrib2)
    BY <2>2, <2>3, <2>4 DEF FrameOK
  <2>6. QED
    BY <2>2, <2>5 DEF f, old
<1> HIDE DEF Sub
<1>9. /\ below \in Seq(FrameType) /\ Len(below) = Len(stack)
      /\ \A i \in 1 .. Len(stack) : below[i] = Sub(stack[i])
  <2>1. DOMAIN stack = 1 .. Len(stack) /\ Len(stack) \in Nat
    BY <1>2
  <2>2. \A i \in 1 .. Len(stack) : Sub(stack[i]) \in FrameType
    BY <1>8 DEF Sub
  <2>3. below = [i \in 1 .. Len(stack) |-> Sub(stack[i])]
    BY <2>1
  <2>4. QED
    BY <2>1, <2>2, <2>3
<1> HIDE DEF below
<1>10. /\ new \in Seq(FrameType) /\ Len(new) = Len(stack) + 1 /\ new[1] = frame
       /\ \A i \in 2 .. Len(stack) + 1 : new[i] = below[i - 1]
  BY <1>2, <1>6, <1>9
<1> HIDE DEF new
<1>11. ASSUME NEW i \in 1 .. Len(new)
       PROVE  /\ FrameOK(dir, new[i], main2, contrib2)
              /\ new[i].saved = IF i = 1 THEN saved ELSE stack[i - 1].saved
  <2>1. CASE i = 1
    BY <1>4, <1>7, <1>10, <2>1
  <2>2. CASE i # 1
    <3>1. i - 1 \in 1 .. Len(stack) /\ new[i] = Sub(stack[i - 1])
      BY <1>2, <1>9, <1>10, <2>2
    <3>2. QED
      BY <1>8, <2>2, <3>1 DEF Sub
  <2>3. QED
    BY <2>1, <2>2
<1>12. Stack(dir, new, main2, contrib2)
  BY <1>1, <1>2, <1>3, <1>10, <1>11 DEF Stack
<1>13. PackageKept(new, next)
  <2>1. new # <<>>
    BY <1>2, <1>10
  <2>2. ASSUME NEW i \in 1 .. Len(new)
        PROVE  /\ i < Len(new) => new[i].saved = <<>>
               /\ i = Len(new) /\ new[i].saved = <<>> => next = User
    <3>1. CASE stack = <<>>
      BY <1>10, <1>11, <3>1
    <3>2. CASE stack # <<>> /\ i = 1
      BY <1>2, <1>10, <1>11, <3>2
    <3>3. CASE stack # <<>> /\ i # 1
      <4>1. /\ i - 1 \in 1 .. Len(stack) /\ new[i].saved = stack[i - 1].saved
            /\ i < Len(new) => i - 1 < Len(stack)
            /\ i = Len(new) => i - 1 = Len(stack)
        BY <1>2, <1>10, <1>11, <3>3
      <4>2. QED
        BY <3>3, <4>1 DEF PackageKept
    <3>4. QED
      BY <3>1, <3>2, <3>3
  <2>3. QED
    BY <2>1, <2>2 DEF PackageKept
<1>14. QED
  BY <1>12, <1>13 DEF Pushed, new, below, frame, one, two, Sub

-----------------------------------------------------------------------------
(* What is looked for, and what has been read.                             *)
FileInv ==
  /\ start \in DOMAIN Given
  /\ argi \in Nat \ {0} /\ load_index \in Nat \ {0}
  /\ load_files \in Seq(File)
  /\ Stack(exe, loading, installed_path, installed_contrib_path)
  /\ PackageKept(loading, package)
  /\ \A l \in loaded : IsFile(l.asked, l.file) \/ l.file \in l.inner

(* The circumstances of a start are as their types say. *)
LEMMA Inputs ==
  ASSUME start \in DOMAIN Given
  PROVE  /\ exe \in Seq(Word)
         /\ \A i \in 1 .. Len(argv) :
              argv[i].path \in File /\ argv[i].text \in STRING /\ argv[i].spec \in FilterSpec
         /\ Len(argv) \in Nat
         /\ \A f \in DOMAIN files :
              /\ Len(files[f]) \in Nat
              /\ \A i \in 1 .. Len(files[f]) :
                   files[f][i].path \in File /\ files[f][i].spec \in FilterSpec
         /\ Names \subseteq File
<1>1. GivenAssumption /\ Names \subseteq Path
  BY StartAssumption
<1>2. STRING \subseteq Word
  BY DEF Word
<1>a. \A S, T : S \subseteq T => Seq(S) \subseteq Seq(T)
  OBVIOUS
<1>b. Seq(STRING) \subseteq Seq(Word)
  BY <1>2, <1>a, Zenon
<1>3. Path \subseteq File
  <2> DEFINE S == Seq(STRING)
             T == Seq(Word)
  <2>1. S \subseteq T
    BY <1>b
  <2> HIDE DEF S, T
  <2>2. [dir : S, base : S] \subseteq [dir : T, base : T]
    BY <2>1
  <2>3. QED
    BY <2>2 DEF Path, File, S, T
<1> DEFINE given == Given[start]
<1>4. given \in { Given[s] : s \in DOMAIN Given }
  OBVIOUS
<1>5. /\ given.exe \in Seq(STRING)
      /\ given.argv \in Seq(ToSet(given.argv))
      /\ \A arg \in ToSet(given.argv) :
           arg.path \in Path /\ arg.text \in STRING /\ arg.spec \in FilterSpec
      /\ \A file \in DOMAIN given.files :
           /\ given.files[file] \in Seq(ToSet(given.files[file]))
           /\ \A item \in ToSet(given.files[file]) :
                item.path \in Path /\ item.spec \in FilterSpec
  BY <1>1, <1>4, Zenon DEF GivenAssumption
<1>6. exe = given.exe /\ argv = given.argv /\ files = given.files
  BY DEF exe, argv, files
<1> HIDE DEF given
<1>7. exe \in Seq(Word)
  BY <1>b, <1>5, <1>6, Zenon
<1>8. ASSUME NEW s, s \in Seq(ToSet(s))
      PROVE  Len(s) \in Nat /\ \A i \in 1 .. Len(s) : s[i] \in ToSet(s)
  BY <1>8 DEF ToSet
<1>9. /\ Len(argv) \in Nat
      /\ \A i \in 1 .. Len(argv) :
           argv[i].path \in File /\ argv[i].text \in STRING /\ argv[i].spec \in FilterSpec
  BY <1>3, <1>5, <1>6, <1>8
<1>10. \A f \in DOMAIN files :
         /\ Len(files[f]) \in Nat
         /\ \A i \in 1 .. Len(files[f]) :
              files[f][i].path \in File /\ files[f][i].spec \in FilterSpec
  BY <1>3, <1>5, <1>6, <1>8
<1>11. QED
  BY <1>1, <1>3, <1>7, <1>9, <1>10

(* load_lisp_system_file, called by main() or by a file. *)
LEMMA SearchStep ==
  ASSUME FileInv, NEW path \in File, NEW saved \in {<<>>, User}, NEW below,
         Stack(exe, below, installed_path, installed_contrib_path),
         NEW current, PackageKept(below, current), NEW next,
         below # <<>> => saved = <<>> /\ next = current,
         below = <<>> /\ saved = <<>> => next = User,
         Search(Frame(path, 1, NoPath, saved), below)
  PROVE  /\ Stack(exe, loading', installed_path', installed_contrib_path')
         /\ PackageKept(loading', next)
<1>1. Frame(path, 1, NoPath, saved).path = path
  BY DEF Frame
<1>2. loading' = Pushed(exe, below, path, saved)
  BY <1>1, Zenon DEF Search, InstalledPaths, Installed, Pushed
<1>3. Moved(exe, path, installed_path, installed_contrib_path,
            installed_path', installed_contrib_path')
  BY <1>1, Zenon DEF Search, Installed, Moved
<1>4. exe \in Seq(Word)
  BY Inputs DEF FileInv
<1>5. QED
  BY <1>2, <1>3, <1>4, Push

(* lisp_x_load_file, from -l or from :load, with no load under way.        *)
LEMMA LoadFileStep ==
  ASSUME FileInv, NEW name \in File, LoadFile(name), loading = <<>>, start' = start
  PROVE  /\ Stack(exe, loading, installed_path, installed_contrib_path)'
         /\ PackageKept(loading, package)'
<1> DEFINE path == Suffixed(name)
<1>1. path \in File
  <2>1. name.base \in Seq(Word) /\ name.dir \in Seq(Word)
    BY DEF File
  <2>2. Append(name.base, "lisp") \in Seq(Word)
    <3>1. "lisp" \in Word
      BY DEF Word
    <3>2. QED
      BY <2>1, <3>1
  <2> DEFINE longer == Append(name.base, "lisp")
  <2>3. path = name \/ path = [name EXCEPT !.base = longer]
    BY DEF Suffixed
  <2>4. longer \in Seq(Word)
    BY <2>2
  <2> HIDE DEF longer, path
  <2>5. QED
    BY <2>3, <2>4 DEF File
<1>2. package = User
  BY DEF FileInv, PackageKept
<1>3. exe' = exe
  BY DEF exe
<1>4. CASE IsAbsolute(path)
  <2> DEFINE frame == Frame(path, 0, path, package)
  <2>1. loading' = <<frame>> /\ UNCHANGED <<installed_path, installed_contrib_path>>
    BY <1>4 DEF LoadFile
  <2>2. path # NoPath
    BY <1>4 DEF IsAbsolute, NoPath
  <2>3. FrameOK(exe, frame, installed_path, installed_contrib_path) /\ frame.saved = User
    <3>1. frame \in FrameType /\ frame.saved = User
      BY <1>1, <1>2 DEF Frame, FrameType
    <3>2. frame.file = path /\ frame.path = path
      BY DEF Frame
    <3>3. IsFile(path, path)
      BY <1>1, WholeFile
    <3>4. RightFile(frame)
      BY <3>2, <3>3 DEF RightFile
    <3>5. HasPaths(exe, frame, installed_path, installed_contrib_path)
      <4>1. frame.next = 0
        BY DEF Frame
      <4>2. QED
        BY <4>1 DEF HasPaths
    <3>6. QED
      BY <2>2, <3>1, <3>2, <3>4, <3>5 DEF FrameOK
  <2> HIDE DEF frame
  <2>4. frame \in FrameType
    BY <2>3 DEF FrameOK
  <2>5. Stack(exe, <<frame>>, installed_path, installed_contrib_path)
    <3>1. <<frame>> \in Seq(FrameType) /\ Len(<<frame>>) = 1 /\ <<frame>>[1] = frame
      BY <2>4
    <3>2. QED
      BY <2>3, <3>1 DEF Stack, FileInv
  <2>6. PackageKept(<<frame>>, package')
    <3>1. <<frame>> # <<>> /\ Len(<<frame>>) = 1 /\ <<frame>>[1] = frame
      OBVIOUS
    <3>2. User # <<>>
      BY DEF User
    <3>3. QED
      BY <2>3, <3>1, <3>2 DEF PackageKept
  <2>7. QED
    BY <1>3, <2>1, <2>5, <2>6
<1>5. CASE ~IsAbsolute(path)
  <2>1. Search(Frame(path, 1, NoPath, User), <<>>)
    BY <1>2, <1>5 DEF LoadFile
  <2>2. User \in {<<>>, User} /\ User # <<>>
    BY DEF User
  <2>3. /\ Stack(exe, <<>>, installed_path, installed_contrib_path)
        /\ PackageKept(<<>>, package)
    BY DEF FileInv
  <2> HIDE DEF path
  <2>4. /\ Stack(exe, loading', installed_path', installed_contrib_path')
        /\ PackageKept(loading', package')
    BY <1>1, <2>1, <2>2, <2>3, SearchStep
  <2>5. QED
    BY <1>3, <2>4
<1>6. QED
  BY <1>4, <1>5

(* The innermost call goes on to its next expression. *)
LEMMA EvaluatedStep ==
  ASSUME FileInv, Expression
  PROVE  /\ Stack(exe, Evaluated, installed_path, installed_contrib_path)
         /\ PackageKept(Evaluated, package) /\ Evaluated # <<>>
<1> DEFINE frame == [Call EXCEPT !.item = @ + 1]
<1>1. loading # <<>> /\ Call.file # NoPath /\ Call = Head(loading)
  BY DEF Expression, Reading, Call
<1>2. FrameOK(exe, Call, installed_path, installed_contrib_path)
  BY <1>1 DEF FileInv, Stack
<1>3. /\ frame \in FrameType /\ frame.path = Call.path /\ frame.file = Call.file
      /\ frame.next = Call.next /\ frame.inner = Call.inner /\ frame.saved = Call.saved
  BY <1>2 DEF FrameOK, FrameType
<1> HIDE DEF frame
<1>4. FrameOK(exe, frame, installed_path, installed_contrib_path)
  BY <1>2, <1>3 DEF FrameOK, RightFile, HasPaths
<1>5. /\ Onward(loading, frame) # <<>>
      /\ Stack(exe, Onward(loading, frame), installed_path, installed_contrib_path)
      /\ PackageKept(Onward(loading, frame), package)
  <2>1. /\ Stack(exe, loading, installed_path, installed_contrib_path)
        /\ PackageKept(loading, package) /\ frame.saved = Head(loading).saved
    BY <1>1, <1>3 DEF FileInv
  <2>2. QED
    BY <1>1, <1>4, <2>1, Replace
<1>6. QED
  BY <1>5 DEF Evaluated, Onward, frame

(* The innermost call returns, having read the right file if it succeeds.  *)
LEMMA ReturnStep ==
  ASSUME FileInv, Reading \/ Searching, NEW success \in BOOLEAN, success => Reading,
         Return(success), UNCHANGED <<start, argi, load_index, load_files>>
  PROVE  FileInv'
<1>1. loading # <<>> /\ Call = Head(loading)
  BY DEF Reading, Searching, Call
<1>2. FrameOK(exe, Call, installed_path, installed_contrib_path)
  BY <1>1 DEF FileInv, Stack
<1>3. /\ loading' = Tail(loading)
      /\ package' = IF Call.saved = <<>> THEN package ELSE Call.saved
      /\ UNCHANGED <<installed_path, installed_contrib_path>>
  BY DEF Return
<1>4. /\ Stack(exe, Tail(loading), installed_path, installed_contrib_path)
      /\ PackageKept(Tail(loading),
           IF Head(loading).saved = <<>> THEN package ELSE Head(loading).saved)
  BY <1>1, Pop DEF FileInv
<1>5. exe' = exe
  BY DEF exe
<1>6. \A l \in loaded' : IsFile(l.asked, l.file) \/ l.file \in l.inner
  <2>1. CASE success
    <3> DEFINE new == [asked |-> Call.path, file |-> Call.file, inner |-> Call.inner]
    <3>1. loaded' = loaded \cup {new}
      BY <2>1 DEF Return
    <3>2. Call.file # NoPath
      BY <2>1 DEF Reading
    <3>3. IsFile(new.asked, new.file) \/ new.file \in new.inner
      BY <1>2, <3>2 DEF FrameOK, RightFile
    <3> HIDE DEF new
    <3>4. QED
      BY <3>1, <3>3 DEF FileInv
  <2>2. CASE ~success
    BY <2>2 DEF Return, FileInv
  <2>3. QED
    BY <2>1, <2>2
<1>7. Stack(exe, loading, installed_path, installed_contrib_path)' /\ PackageKept(loading, package)'
  BY <1>1, <1>3, <1>4, <1>5
<1>8. QED
  BY <1>6, <1>7 DEF FileInv

(* A file is opened, the next path is tried, a file is given up. *)
LEMMA Changed ==
  ASSUME NEW frame \in FrameType, NEW path \in File
  PROVE  LET opened == [frame EXCEPT !.file = path, !.item = 1]
             passed == [frame EXCEPT !.next = @ + 1]
             failed == [frame EXCEPT !.file = path, !.next = @ + 1]
         IN  /\ opened \in FrameType /\ opened.path = frame.path
             /\ opened.inner = frame.inner /\ opened.saved = frame.saved
             /\ opened.next = frame.next /\ opened.file = path
             /\ passed \in FrameType /\ passed.path = frame.path
             /\ passed.inner = frame.inner /\ passed.saved = frame.saved
             /\ passed.next # 0 /\ passed.file = frame.file
             /\ failed \in FrameType /\ failed.path = frame.path
             /\ failed.inner = frame.inner /\ failed.saved = frame.saved
             /\ failed.next # 0 /\ failed.file = path
<1> DEFINE n == frame.next + 1
<1>1. n \in Nat /\ n # 0
  BY DEF FrameType
<1> HIDE DEF n
<1>2. /\ [frame EXCEPT !.file = path, !.item = 1] \in FrameType
      /\ [frame EXCEPT !.next = n] \in FrameType
      /\ [frame EXCEPT !.file = path, !.next = n] \in FrameType
  <2>1. [frame EXCEPT !.file = path, !.item = 1] \in FrameType
    <3> DEFINE first == 1
    <3>1. first \in Nat \ {0}
      OBVIOUS
    <3> HIDE DEF first
    <3>2. [frame EXCEPT !.file = path, !.item = first] \in FrameType
      BY <3>1 DEF FrameType
    <3>3. QED
      BY <3>2 DEF first
  <2>2. [frame EXCEPT !.next = n] \in FrameType
    BY <1>1 DEF FrameType
  <2>3. [frame EXCEPT !.file = path, !.next = n] \in FrameType
    BY <1>1 DEF FrameType
  <2>4. QED
    BY <2>1, <2>2, <2>3
<1>3. /\ [frame EXCEPT !.file = path, !.item = 1].path = frame.path
      /\ [frame EXCEPT !.file = path, !.item = 1].inner = frame.inner
      /\ [frame EXCEPT !.file = path, !.item = 1].saved = frame.saved
      /\ [frame EXCEPT !.file = path, !.item = 1].next = frame.next
      /\ [frame EXCEPT !.file = path, !.item = 1].file = path
  BY DEF FrameType
<1>4. /\ [frame EXCEPT !.next = n].path = frame.path
      /\ [frame EXCEPT !.next = n].inner = frame.inner
      /\ [frame EXCEPT !.next = n].saved = frame.saved
      /\ [frame EXCEPT !.next = n].next = n
      /\ [frame EXCEPT !.next = n].file = frame.file
  BY DEF FrameType
<1>5. /\ [frame EXCEPT !.file = path, !.next = n].path = frame.path
      /\ [frame EXCEPT !.file = path, !.next = n].inner = frame.inner
      /\ [frame EXCEPT !.file = path, !.next = n].saved = frame.saved
      /\ [frame EXCEPT !.file = path, !.next = n].next = n
      /\ [frame EXCEPT !.file = path, !.next = n].file = path
  BY DEF FrameType
<1>6. QED
  BY <1>1, <1>2, <1>3, <1>4, <1>5, Zenon DEF n

(* The innermost call goes on with another place in its list or another    *)
(* file of it.                                                             *)
LEMMA GoOn ==
  ASSUME FileInv, NEW frame, loading # <<>>,
         FrameOK(exe, frame, installed_path, installed_contrib_path),
         frame.saved = Call.saved, loading' = [loading EXCEPT ![1] = frame],
         UNCHANGED <<start, argi, load_index, load_files, installed_path,
                     installed_contrib_path, package, loaded>>
  PROVE  FileInv'
<1>1. /\ Stack(exe, Onward(loading, frame), installed_path, installed_contrib_path)
      /\ PackageKept(Onward(loading, frame), package)
      /\ Onward(loading, frame) = [loading EXCEPT ![1] = frame]
  <2>1. /\ Stack(exe, loading, installed_path, installed_contrib_path)
        /\ PackageKept(loading, package) /\ frame.saved = Head(loading).saved
    BY DEF FileInv, Call
  <2>2. /\ Stack(exe, Onward(loading, frame), installed_path, installed_contrib_path)
        /\ PackageKept(Onward(loading, frame), package)
    BY <2>1, Replace
  <2>3. Onward(loading, frame) = [loading EXCEPT ![1] = frame]
    <3>1. loading \in Seq(FrameType) /\ frame \in FrameType
      BY DEF FileInv, Stack, FrameOK
    <3>2. QED
      BY <3>1, OnwardIs
  <2>4. QED
    BY <2>2, <2>3
<1>2. exe' = exe
  BY DEF exe
<1>3. QED
  BY <1>1, <1>2 DEF FileInv

(* The next path of the list, if it can be opened, is a right one. *)
LEMMA StepTry == FileInv /\ TryPath => FileInv'
<1> SUFFICES ASSUME FileInv, TryPath
             PROVE  FileInv'
  OBVIOUS
<1> DEFINE path == SearchPaths[Call.next]
<1>1. /\ loading # <<>> /\ Call.file = NoPath /\ Call = Head(loading) /\ Searching
      /\ UNCHANGED <<start, argi, load_index, load_files>>
  BY DEF TryPath, Searching, Call, args
<1>2. FrameOK(exe, Call, installed_path, installed_contrib_path) /\ Call = loading[1]
  BY <1>1 DEF FileInv, Stack
<1>3. Call \in FrameType /\ Call.next # 0 /\ Call.next \in Nat
  BY <1>1, <1>2 DEF FrameOK, FrameType
<1>4. CASE Call.next > Len(SearchPaths)
  <2>1. Return(FALSE)
    BY <1>4 DEF TryPath
  <2>2. QED
    BY <1>1, <2>1, ReturnStep
<1>5. CASE ~(Call.next > Len(SearchPaths))
  <2> DEFINE frame == IF path \in DOMAIN files
                      THEN [Call EXCEPT !.file = path, !.item = 1]
                      ELSE [Call EXCEPT !.next = @ + 1]
  <2>1. /\ loading' = [loading EXCEPT ![1] = frame]
        /\ UNCHANGED <<installed_path, installed_contrib_path, package, loaded>>
    <3>1. loading \in Seq(FrameType) /\ loading # <<>> /\ loading[1] \in FrameType
      BY <1>1, <1>2, <1>3 DEF FileInv, Stack
    <3>2. CASE path \in DOMAIN files
      BY <1>2, <1>5, <3>1, <3>2 DEF TryPath
    <3>3. CASE path \notin DOMAIN files
      BY <1>2, <1>5, <3>1, <3>3 DEF TryPath
    <3>4. QED
      BY <3>2, <3>3
  <2>2. SearchPaths = List(exe, Call, installed_path, installed_contrib_path)
    BY DEF SearchPaths, List, Installed
  <2>3. exe \in Seq(Word) /\ installed_path \in File /\ installed_contrib_path \in File
    BY Inputs DEF FileInv, Stack
  <2>4. SearchPaths \in Seq(File)
    <3>1. LocalPaths(exe, Call.path) \in Seq(File)
      BY <1>3, <2>3, LocalFiles DEF FrameType
    <3>2. QED
      BY <2>2, <2>3, <3>1 DEF List
  <2>5. Call.next \in 1 .. Len(SearchPaths)
    BY <1>3, <1>5, <2>4
  <2>6. /\ path \in File
        /\ IsFile(Call.path, path) \/ path \in Call.inner \/ path = NoPath
    BY <1>2, <1>3, <2>2, <2>3, <2>5, ListIsRight
  <2> HIDE DEF path
  <2>7. /\ frame \in FrameType /\ frame.path = Call.path /\ frame.inner = Call.inner
        /\ frame.saved = Call.saved /\ frame.next # 0
        /\ frame.file \in {path, NoPath}
    BY <1>1, <1>3, <2>6, Changed, Zenon DEF frame
  <2> HIDE DEF frame
  <2>8. FrameOK(exe, frame, installed_path, installed_contrib_path)
    BY <1>2, <1>3, <2>6, <2>7 DEF FrameOK, RightFile, HasPaths
  <2>9. QED
    BY <1>1, <2>1, <2>7, <2>8, GoOn
<1>6. QED
  BY <1>4, <1>5

(* A file that fails is left behind. *)
LEMMA StepFails == FileInv /\ FileFails => FileInv'
<1> SUFFICES ASSUME FileInv, FileFails
             PROVE  FileInv'
  OBVIOUS
<1>1. /\ loading # <<>> /\ Call.file # NoPath /\ Call = Head(loading) /\ Reading
      /\ UNCHANGED <<start, argi, load_index, load_files>>
  BY DEF FileFails, Reading, Call, args
<1>2. FrameOK(exe, Call, installed_path, installed_contrib_path) /\ Call = loading[1]
  BY <1>1 DEF FileInv, Stack
<1>3. CASE Call.next = 0
  <2>1. Return(FALSE)
    BY <1>3 DEF FileFails
  <2>2. QED
    BY <1>1, <2>1, ReturnStep
<1>4. CASE Call.next # 0
  <2> DEFINE frame == [Call EXCEPT !.file = NoPath, !.next = @ + 1]
  <2>1. /\ loading' = [loading EXCEPT ![1] = frame]
        /\ UNCHANGED <<installed_path, installed_contrib_path, package, loaded>>
    BY <1>2, <1>4 DEF FileFails, Stack, FileInv
  <2>2. NoPath \in File /\ Call \in FrameType /\ Call.next \in Nat
    BY <1>2 DEF NoPath, File, FrameOK, FrameType
  <2>3. /\ frame \in FrameType /\ frame.path = Call.path /\ frame.inner = Call.inner
        /\ frame.saved = Call.saved /\ frame.next # 0 /\ frame.file = NoPath
    BY <2>2, Changed, Zenon DEF frame
  <2> HIDE DEF frame
  <2>4. FrameOK(exe, frame, installed_path, installed_contrib_path)
    BY <1>2, <1>4, <2>3 DEF FrameOK, RightFile, HasPaths
  <2>5. QED
    BY <1>1, <2>1, <2>3, <2>4, GoOn
<1>5. QED
  BY <1>3, <1>4

(* The search for a file and what it finds, step by step. *)
LEMMA StepFiles == FileInv /\ [Next]_vars => FileInv'
<1> SUFFICES ASSUME FileInv, [Next]_vars
             PROVE  FileInv'
  OBVIOUS
<1>1. /\ exe \in Seq(Word) /\ Len(argv) \in Nat /\ Names \subseteq File
      /\ \A i \in 1 .. Len(argv) : argv[i].path \in File /\ argv[i].text \in STRING
      /\ \A f \in DOMAIN files :
           /\ Len(files[f]) \in Nat
           /\ \A i \in 1 .. Len(files[f]) : files[f][i].path \in File
  BY Inputs DEF FileInv
<1>2. /\ argi \in Nat \ {0} /\ load_index \in Nat \ {0} /\ load_files \in Seq(File)
      /\ Stack(exe, loading, installed_path, installed_contrib_path)
      /\ PackageKept(loading, package)
  BY DEF FileInv
<1>3. ASSUME UNCHANGED <<start, load_index, loading, installed_path,
                         installed_contrib_path, package, loaded>>,
             argi' \in Nat \ {0}, load_files' \in Seq(File)
      PROVE  FileInv'
  BY <1>3 DEF FileInv, exe
<1>4. ASSUME UNCHANGED <<start, load_index, argi, load_files, loading, installed_path,
                         installed_contrib_path, package, loaded>>
      PROVE  FileInv'
  BY <1>2, <1>3, <1>4
<1>5. CASE LoadOption
  <2>1. argi + 1 \in 1 .. Len(argv)
    BY <1>1, <1>2, <1>5 DEF LoadOption
  <2>2. Value.path \in File
    BY <1>1, <2>1 DEF Value
  <2>3. /\ load_files' = Append(load_files, Value.path) /\ argi' = argi + 2
        /\ UNCHANGED <<start, load_index, loading, installed_path,
                       installed_contrib_path, package, loaded>>
    BY <1>5 DEF LoadOption, load
  <2>4. load_files' \in Seq(File) /\ argi' \in Nat \ {0}
    BY <1>2, <2>2, <2>3
  <2>5. QED
    BY <1>3, <2>3, <2>4
<1>6. CASE LogOption
  <2>1. /\ argi' = argi + 2 /\ load_files' = load_files
        /\ UNCHANGED <<start, load_index, loading, installed_path,
                       installed_contrib_path, package, loaded>>
    BY <1>6 DEF LogOption, load
  <2>2. QED
    BY <1>2, <1>3, <2>1
<1>7. CASE FlagOption
  <2>1. /\ argi' = argi + 2 /\ load_files' = load_files
        /\ UNCHANGED <<start, load_index, loading, installed_path,
                       installed_contrib_path, package, loaded>>
    BY <1>7 DEF FlagOption, load
  <2>2. QED
    BY <1>2, <1>3, <2>1
<1>8. CASE HostOrPort
  <2>1. /\ argi' = argi + 1 /\ load_files' = load_files
        /\ UNCHANGED <<start, load_index, loading, installed_path,
                       installed_contrib_path, package, loaded>>
    BY <1>8 DEF HostOrPort, load
  <2>2. QED
    BY <1>2, <1>3, <2>1
<1>9. CASE TryPath
  BY <1>9, StepTry
<1>10. CASE FileFails
  BY <1>10, StepFails
<1>11. CASE FileEnds
  <2>1. /\ Reading /\ Return(TRUE)
        /\ UNCHANGED <<start, argi, load_index, load_files>>
    BY <1>11 DEF FileEnds, args
  <2>2. QED
    BY <2>1, ReturnStep
<1>12. CASE LoadSystemFile
  <2>1. /\ Expression /\ Search(Frame(Item.path, 1, NoPath, <<>>), Evaluated)
        /\ UNCHANGED <<start, argi, load_index, load_files, package, loaded>>
    BY <1>12 DEF LoadSystemFile, args
  <2>2. /\ loading # <<>> /\ Call = Head(loading)
        /\ Call.file \in DOMAIN files /\ Call.item <= Len(files[Call.file])
    BY <2>1 DEF Expression, Reading, Call
  <2>3. Item.path \in File
    <3>1. FrameOK(exe, Call, installed_path, installed_contrib_path)
      BY <1>2, <2>2 DEF Stack
    <3>2. Call.item \in Nat
      BY <3>1 DEF FrameOK, FrameType
    <3>3. Call.item # 0
      BY <3>1 DEF FrameOK, FrameType
    <3>4. Call.item \in 1 .. Len(files[Call.file])
      BY <1>1, <2>2, <3>2, <3>3
    <3>5. QED
      BY <1>1, <2>2, <3>4 DEF Item
  <2>4. /\ Stack(exe, Evaluated, installed_path, installed_contrib_path)
        /\ PackageKept(Evaluated, package) /\ Evaluated # <<>>
    BY <2>1, EvaluatedStep
  <2>5. /\ Stack(exe, loading', installed_path', installed_contrib_path')
        /\ PackageKept(loading', package)
    BY <2>1, <2>3, <2>4, SearchStep
  <2>6. QED
    BY <2>1, <2>5 DEF FileInv, exe
<1>13. CASE RegisterCliHandler \/ SetLogFilter
  <2>1. /\ Expression /\ loading' = Evaluated
        /\ UNCHANGED <<start, argi, load_index, load_files, package, loaded,
                       installed_path, installed_contrib_path>>
    BY <1>13 DEF RegisterCliHandler, SetLogFilter, args
  <2>2. /\ Stack(exe, Evaluated, installed_path, installed_contrib_path)
        /\ PackageKept(Evaluated, package)
    BY <2>1, EvaluatedStep
  <2>3. QED
    BY <2>1, <2>2 DEF FileInv, exe
<1>14. CASE LoadInit
  <2>1. /\ loading = <<>> /\ Search(Frame(InitFile, 1, NoPath, <<>>), <<>>)
        /\ UNCHANGED <<start, argi, load_index, load_files, package, loaded>>
    BY <1>14 DEF LoadInit, At, args
  <2>2. InitFile \in File
    <3>1. ASSUME NEW a \in Word, NEW b \in Word
          PROVE  <<a, b>> \in Seq(Word)
      OBVIOUS
    <3>2. "init" \in Word /\ "lisp" \in Word
      BY DEF Word
    <3>3. <<"init", "lisp">> \in Seq(Word)
      BY <3>1, <3>2
    <3>4. QED
      BY <3>3 DEF InitFile, File
  <2>3. package = User
    BY <1>2, <2>1 DEF PackageKept
  <2>4. /\ Stack(exe, <<>>, installed_path, installed_contrib_path)
        /\ PackageKept(<<>>, package)
    BY <1>2, <2>1
  <2>5. /\ Stack(exe, loading', installed_path', installed_contrib_path')
        /\ PackageKept(loading', package)
    BY <2>1, <2>2, <2>3, <2>4, SearchStep
  <2>6. QED
    BY <2>1, <2>5 DEF FileInv, exe
<1>15. CASE LoadScript
  <2>1. /\ loading = <<>>
        /\ UNCHANGED <<start, argi, load_files>>
    BY <1>15 DEF LoadScript, At, args
  <2>2. CASE load_index > Len(load_files)
    BY <1>4, <1>15, <2>1, <2>2 DEF LoadScript, load
  <2>3. CASE ~(load_index > Len(load_files))
    <3>1. /\ LoadFile(load_files[load_index]) /\ load_index' = load_index + 1
          /\ loaded' = loaded
      BY <1>15, <2>3 DEF LoadScript
    <3>2. load_files[load_index] \in File
      BY <1>2, <2>3
    <3>3. /\ Stack(exe, loading, installed_path, installed_contrib_path)'
          /\ PackageKept(loading, package)'
      BY <2>1, <3>1, <3>2, LoadFileStep
    <3>4. load_index' \in Nat \ {0}
      BY <1>2, <3>1
    <3>5. QED
      BY <1>2, <2>1, <3>1, <3>3, <3>4 DEF FileInv
  <2>4. QED
    BY <2>2, <2>3
<1>16. CASE LoadCommand
  <2>1. /\ loading = <<>> /\ \E name \in Names : LoadFile(name)
        /\ UNCHANGED <<start, argi, load_index, load_files, loaded>>
    BY <1>16 DEF LoadCommand, At, args
  <2>2. PICK name \in Names : LoadFile(name)
    BY <2>1
  <2>3. name \in File
    BY <1>1, <2>2
  <2>4. /\ Stack(exe, loading, installed_path, installed_contrib_path)'
        /\ PackageKept(loading, package)'
    BY <2>1, <2>2, <2>3, LoadFileStep
  <2>5. QED
    BY <1>2, <2>1, <2>4 DEF FileInv
<1>17. CASE RefuseArgs \/ DetectTerminal \/ InitLisp \/ CreateTelnet \/ CreateRuntime
  BY <1>4, <1>17, Zenon DEF RefuseArgs, DetectTerminal, InitLisp, CreateTelnet,
     CreateRuntime, args, load
<1>18. CASE RegisterTelnet \/ DispatchCliArgs \/ ConnectToHost \/ AskColor
            \/ WriteColor
  BY <1>4, <1>18, Zenon DEF RegisterTelnet, DispatchCliArgs, ConnectToHost, AskColor,
     WriteColor, args, load
<1>19. CASE ChangeFilter \/ CompleteWord \/ LeaveLoop \/ Cleanup \/ Gone
            \/ UNCHANGED vars
  BY <1>4, <1>19, Zenon DEF ChangeFilter, CompleteWord, LeaveLoop, Cleanup, Gone, vars,
     args, load
<1>20. QED
  BY <1>5, <1>6, <1>7, <1>8, <1>9, <1>10, <1>11, <1>12, <1>13, <1>14, <1>15, <1>16,
     <1>17, <1>18, <1>19 DEF Next

(* A set that has 0 and the successor of each of its numbers has them all. *)
LEMMA NatSet ==
  ASSUME NEW T, 0 \in T, \A n \in Nat : n \in T => n + 1 \in T
  PROVE  Nat \subseteq T
  <1> DEFINE R == OpToRel(<, Nat)
  <1> SUFFICES ASSUME Nat \ T # {} PROVE FALSE
    OBVIOUS
  <1>1. \A x, y \in Nat : x < y => <<x, y>> \in R
    BY DEF OpToRel
  <1>2. PICK m \in Nat \ T : \A y \in Nat \ T : ~(<<y, m>> \in R)
    <2> HIDE DEF R
    <2>1. IsWellFoundedOn(R, Nat)
      BY NatLessThanWellFounded DEF R
    <2>. QED BY <2>1, WFMin
  <1> HIDE DEF R
  <1>3. m \in Nat /\ m # 0 /\ m - 1 \in Nat /\ m - 1 < m
    OBVIOUS
  <1>4. m - 1 \in T
    <2>1. <<m - 1, m>> \in R
      BY <1>1, <1>3
    <2>. QED BY <1>2, <1>3, <2>1
  <1>. QED BY <1>3, <1>4

FlagType == [flag : STRING, value : STRING]

(* The calls of the first flags are defined, flag by flag. *)
LEMMA CallsAre ==
  ASSUME cli_pending_args \in Seq(FlagType)
  PROVE  /\ CallsFor[0] = <<>>
         /\ \A n \in 1 .. Len(cli_pending_args) :
              CallsFor[n] = IF Known(cli_pending_args[n])
                            THEN Append(CallsFor[n - 1], cli_pending_args[n])
                            ELSE CallsFor[n - 1]
<1> DEFINE pending == cli_pending_args
           Handed(n, before) == IF Known(pending[n]) THEN Append(before, pending[n]) ELSE before
           Good(f, m) == f = [i \in 0 .. m |-> IF i = 0 THEN <<>> ELSE Handed(i, f[i - 1])]
           T == {m \in Nat : \E f : Good(f, m)}
<1> HIDE DEF Handed, pending
<1>1. Nat \subseteq T
  <2>1. 0 \in T
    <3> DEFINE f == [i \in 0 .. 0 |-> <<>>]
    <3>1. f = [i \in 0 .. 0 |-> IF i = 0 THEN <<>> ELSE Handed(i, f[i - 1])]
      OBVIOUS
    <3>2. Good(f, 0)
      BY <3>1
    <3> HIDE DEF f, Good
    <3>3. QED
      BY <3>2
  <2>2. \A m \in Nat : m \in T => m + 1 \in T
    <3> SUFFICES ASSUME NEW m \in Nat, NEW f, Good(f, m)
                 PROVE  m + 1 \in T
      OBVIOUS
    <3> DEFINE g == [i \in 0 .. m + 1 |-> IF i = m + 1 THEN Handed(i, f[m]) ELSE f[i]]
    <3>1. g = [i \in 0 .. m + 1 |-> IF i = 0 THEN <<>> ELSE Handed(i, g[i - 1])]
      <4> SUFFICES ASSUME NEW i \in 0 .. m + 1
                   PROVE  g[i] = IF i = 0 THEN <<>> ELSE Handed(i, g[i - 1])
        OBVIOUS
      <4>1. CASE i = m + 1
        <5>1. g[i - 1] = f[m] /\ g[i] = Handed(i, f[m])
          BY <4>1
        <5>2. QED
          BY <4>1, <5>1
      <4>2. CASE i \in 0 .. m
        <5>1. f[i] = IF i = 0 THEN <<>> ELSE Handed(i, f[i - 1])
          BY <4>2
        <5>2. g[i] = f[i] /\ (i # 0 => g[i - 1] = f[i - 1])
          BY <4>2
        <5>3. QED
          BY <5>1, <5>2
      <4>3. QED
        BY <4>1, <4>2
    <3>2. Good(g, m + 1)
      BY <3>1
    <3> HIDE DEF g, Good
    <3>3. QED
      BY <3>2
  <2> HIDE DEF T
  <2>3. QED
    BY <2>1, <2>2, NatSet
<1>2. Len(cli_pending_args) \in Nat
  OBVIOUS
<1> DEFINE c == CHOOSE f : Good(f, Len(cli_pending_args))
<1>3. Good(c, Len(cli_pending_args))
  <2>1. \E f : Good(f, Len(cli_pending_args))
    BY <1>1, <1>2
  <2> HIDE DEF Good
  <2>2. QED
    BY <2>1
<1>4. CallsFor = c
  BY Zenon DEF CallsFor, Handed, pending
<1> HIDE DEF c
<1>5. \A i \in 0 .. Len(cli_pending_args) :
        c[i] = IF i = 0 THEN <<>> ELSE Handed(i, c[i - 1])
  BY <1>3
<1>6. /\ c[0] = <<>>
      /\ \A n \in 1 .. Len(cli_pending_args) : c[n] = Handed(n, c[n - 1])
  BY <1>2, <1>5
<1>7. QED
  BY <1>4, <1>6 DEF Handed, pending

(* They depend on the flags and the handlers alone. *)
LEMMA CallsStay ==
  ASSUME UNCHANGED <<cli_pending_args, cli_handler_table>>
  PROVE  CallsFor' = CallsFor
  BY DEF CallsFor, Known

-----------------------------------------------------------------------------
(* What main() does before it hands out the flags. *)
Early == {"args", "lisp", "telnet", "runtime", "init", "register", "scripts"}

(* The calls so far are those of the flags so far, and no file is read     *)
(* while the flags are handed out.                                         *)
FlagInv ==
  /\ cli_pending_args \in Seq(FlagType)
  /\ stage \in Early => cli_index = 1 /\ calls = <<>>
  /\ stage \in {"flags", "connect"} => loading = <<>>
  /\ stage = "flags" =>
       /\ cli_index \in 1 .. Len(cli_pending_args) + 1
       /\ calls = CallsFor[cli_index - 1]
  /\ stage = "connect" => calls = CallsFor[Len(cli_pending_args)]

(* One step per action that disturbs the flags, their calls or the order.  *)
LEMMA StepFlags == FileInv /\ FlagInv /\ [Next]_vars => FlagInv'
<1> SUFFICES ASSUME FileInv, FlagInv, [Next]_vars
             PROVE  FlagInv'
  OBVIOUS
<1>1. ASSUME UNCHANGED <<stage, cli_pending_args, cli_index, calls, cli_handler_table>>,
             stage \in {"flags", "connect"} => loading' = loading
      PROVE  FlagInv'
  <2>1. CallsFor' = CallsFor
    BY <1>1, CallsStay
  <2>2. QED
    BY <1>1, <2>1 DEF FlagInv
<1>2. ASSUME cli_pending_args' \in Seq(FlagType), stage' \in Early \cup {"loop", "exit", "gone"},
             stage' \in Early => stage \in Early /\ UNCHANGED <<cli_index, calls>>
      PROVE  FlagInv'
  BY <1>2 DEF FlagInv, Early
<1>3. cli_pending_args \in Seq(FlagType)
  BY DEF FlagInv
<1>4. CASE FlagOption
  <2>1. /\ argi < Len(argv) /\ stage = "args" /\ stage' = stage
        /\ cli_pending_args' =
             Append(cli_pending_args, [flag |-> Arg.text, value |-> Value.text])
        /\ UNCHANGED <<cli_index, calls>>
    BY <1>4 DEF FlagOption, Parsing, flags
  <2>2. /\ argi \in Nat \ {0} /\ Len(argv) \in Nat
        /\ \A i \in 1 .. Len(argv) : argv[i].text \in STRING
    BY Inputs DEF FileInv
  <2>3. argi \in 1 .. Len(argv) /\ argi + 1 \in 1 .. Len(argv)
    BY <2>1, <2>2
  <2>4. Arg.text \in STRING /\ Value.text \in STRING
    BY <2>2, <2>3 DEF Arg, Value
  <2> DEFINE new == [flag |-> Arg.text, value |-> Value.text]
  <2>5. new \in FlagType
    BY <2>4 DEF FlagType
  <2> HIDE DEF new
  <2>6. cli_pending_args' \in Seq(FlagType)
    BY <1>3, <2>1, <2>5 DEF new
  <2>7. QED
    BY <1>2, <2>1, <2>6 DEF Early
<1>5. CASE RefuseArgs \/ LoadOption \/ LogOption \/ HostOrPort
  <2>1. /\ stage' \in {stage, "gone"} /\ stage = "args" /\ cli_pending_args' = cli_pending_args
        /\ UNCHANGED <<cli_index, calls>>
    BY <1>5 DEF RefuseArgs, LoadOption, LogOption, HostOrPort, Parsing, args, flags
  <2>2. QED
    BY <1>2, <1>3, <2>1 DEF Early
<1>6. CASE DetectTerminal \/ InitLisp \/ CreateTelnet \/ CreateRuntime
            \/ LoadInit \/ RegisterTelnet
  <2>1. /\ UNCHANGED <<cli_pending_args, cli_index, calls>>
        /\ stage \in Early /\ stage' \in Early \cup {"exit"}
    BY <1>6, Order, Zenon DEF DetectTerminal, InitLisp, CreateTelnet, CreateRuntime,
       LoadInit, RegisterTelnet, At, Early, args, flags
  <2>2. QED
    BY <1>2, <1>3, <2>1
<1>7. CASE LoadScript
  <2>1. /\ UNCHANGED <<cli_pending_args, cli_index, calls>>
        /\ stage = "scripts" /\ loading = <<>>
        /\ \/ stage' = "scripts"
           \/ stage' = "flags" /\ loading' = loading
    BY <1>7, Order, Zenon DEF LoadScript, At, args, flags, load
  <2>2. CASE stage' = "scripts"
    BY <1>2, <1>3, <2>1, <2>2 DEF Early
  <2>3. CASE stage' = "flags" /\ loading' = loading
    <3>1. cli_index = 1 /\ calls = <<>>
      BY <2>1 DEF FlagInv, Early
    <3>2. UNCHANGED cli_handler_table
      BY <1>7, Zenon DEF LoadScript, load
    <3>3. CallsFor' = CallsFor
      BY <2>1, <3>2, CallsStay
    <3>4. CallsFor[0] = <<>>
      BY <1>3, CallsAre
    <3>5. /\ cli_index' = 1 /\ cli_index' - 1 = 0 /\ calls' = CallsFor'[0]
          /\ loading' = <<>> /\ cli_pending_args' \in Seq(FlagType)
      BY <1>3, <2>1, <2>3, <3>1, <3>3, <3>4
    <3>6. cli_index' \in 1 .. Len(cli_pending_args)' + 1
      BY <3>5
    <3>7. calls' = CallsFor'[cli_index' - 1]
      BY <3>5
    <3>8. QED
      BY <2>3, <3>5, <3>6, <3>7 DEF FlagInv, Early
  <2>4. QED
    BY <2>1, <2>2, <2>3
<1>8. CASE DispatchCliArgs
  <2>1. /\ stage = "flags" /\ loading = <<>> /\ loading' = loading
        /\ UNCHANGED <<cli_pending_args, cli_handler_table>>
    BY <1>8, Zenon DEF DispatchCliArgs, At, args, load
  <2>2. CallsFor' = CallsFor
    BY <2>1, CallsStay
  <2>3. /\ cli_index \in 1 .. Len(cli_pending_args) + 1 /\ calls = CallsFor[cli_index - 1]
        /\ Len(cli_pending_args) \in Nat
    BY <1>3, <2>1 DEF FlagInv
  <2>4. CASE cli_index > Len(cli_pending_args)
    <3>1. stage' = "connect" /\ UNCHANGED <<cli_index, calls>>
      BY <1>8, <2>4, Order DEF DispatchCliArgs, flags
    <3>2. cli_index - 1 = Len(cli_pending_args)
      BY <2>3, <2>4
    <3>3. calls' = CallsFor'[Len(cli_pending_args)]
      BY <2>2, <2>3, <3>1, <3>2
    <3>4. QED
      BY <1>3, <2>1, <3>1, <3>3 DEF FlagInv, Early
  <2>5. CASE ~(cli_index > Len(cli_pending_args))
    <3>1. /\ stage' = stage /\ cli_index' = cli_index + 1
          /\ calls' = IF Known(cli_pending_args[cli_index])
                      THEN Append(calls, cli_pending_args[cli_index]) ELSE calls
      BY <1>8, <2>5 DEF DispatchCliArgs
    <3>2. cli_index \in 1 .. Len(cli_pending_args)
      BY <2>3, <2>5
    <3>3. CallsFor[cli_index] = IF Known(cli_pending_args[cli_index])
            THEN Append(CallsFor[cli_index - 1], cli_pending_args[cli_index])
            ELSE CallsFor[cli_index - 1]
      BY <1>3, <3>2, CallsAre
    <3>4. calls' = CallsFor'[cli_index]
      BY <2>2, <2>3, <3>1, <3>3
    <3>5. cli_index' - 1 = cli_index /\ cli_index' \in 1 .. Len(cli_pending_args) + 1
      BY <3>1, <3>2
    <3>6. calls' = CallsFor'[cli_index' - 1]
      BY <3>4, <3>5
    <3>7. QED
      BY <1>3, <2>1, <3>1, <3>5, <3>6 DEF FlagInv, Early
  <2>6. QED
    BY <2>4, <2>5
<1>9. CASE ConnectToHost \/ LeaveLoop \/ Cleanup
  <2>1. stage' \in {"loop", "exit", "gone"} /\ UNCHANGED cli_pending_args
    BY <1>9, Order, Zenon DEF ConnectToHost, LeaveLoop, Cleanup, args
  <2>2. QED
    BY <1>2, <1>3, <2>1 DEF Early
<1>10. CASE TryPath \/ FileFails \/ FileEnds \/ LoadSystemFile \/ RegisterCliHandler
            \/ SetLogFilter
  <2>1. UNCHANGED <<stage, cli_pending_args, cli_index, calls>> /\ loading # <<>>
    BY <1>10, Zenon DEF TryPath, FileFails, FileEnds, LoadSystemFile, RegisterCliHandler,
       SetLogFilter, Expression, Reading, Searching, args, flags
  <2>2. stage \notin {"flags", "connect"}
    BY <2>1 DEF FlagInv
  <2>3. QED
    BY <1>3, <2>1, <2>2 DEF FlagInv
<1>11. CASE AskColor \/ ChangeFilter \/ LoadCommand \/ CompleteWord
  <2>1. /\ UNCHANGED <<stage, cli_pending_args, cli_index, calls>> /\ stage = "loop"
    BY <1>11, Zenon DEF AskColor, ChangeFilter, LoadCommand, CompleteWord, At, args, flags
  <2>2. QED
    BY <1>2, <1>3, <2>1 DEF Early
<1>12. CASE WriteColor \/ Gone \/ UNCHANGED vars
  <2>1. UNCHANGED <<stage, cli_pending_args, cli_index, calls, cli_handler_table, loading>>
    BY <1>12, Zenon DEF WriteColor, Gone, vars, args, flags, load
  <2>2. QED
    BY <1>1, <2>1
<1>13. QED
  BY <1>4, <1>5, <1>6, <1>7, <1>8, <1>9, <1>10, <1>11, <1>12 DEF Next

(* The program begins with nothing looked for and no flag handed out.      *)
LEMMA InitFiles == Init => FileInv /\ FlagInv
<1> SUFFICES ASSUME Init
             PROVE  FileInv /\ FlagInv
  OBVIOUS
<1>1. NoPath \in File
  BY DEF NoPath, File
<1>2. Stack(exe, <<>>, NoPath, NoPath) /\ PackageKept(<<>>, User)
  BY <1>1 DEF Stack, PackageKept
<1>3. FileInv
  BY <1>2 DEF Init, FileInv
<1>4. FlagInv
  BY DEF Init, FlagInv, Early
<1>5. QED
  BY <1>3, <1>4

(* Every flag of the command line reaches its handler, once and in order,  *)
(* after the scripts; a load that succeeds has read its own file or one    *)
(* that stands in the static buffers; the user's package comes back.       *)
THEOREM AlwaysScriptsThenFlags == Spec => []ScriptsThenFlags
<1>1. Init => FileInv /\ FlagInv
  BY InitFiles
<1>2. FileInv /\ FlagInv /\ [Next]_vars => FileInv' /\ FlagInv'
  BY StepFiles, StepFlags
<1>3. FileInv /\ FlagInv => ScriptsThenFlags
  <2> SUFFICES ASSUME FileInv, FlagInv
               PROVE  ScriptsThenFlags
    OBVIOUS
  <2>1. At("connect") => calls = CallsFor[Len(cli_pending_args)]
    BY DEF At, FlagInv
  <2>2. \A l \in loaded : IsFile(l.asked, l.file) \/ l.file \in l.inner
    BY DEF FileInv
  <2>3. loading = <<>> => package = User
    BY DEF FileInv, PackageKept
  <2>4. QED
    BY <2>1, <2>2, <2>3 DEF ScriptsThenFlags
<1>4. QED
  BY <1>1, <1>2, <1>3, PTL DEF Spec

-----------------------------------------------------------------------------
(* What the loop of mudlark_log_set_filter has made of the first parts is  *)
(* defined, part by part.                                                  *)
Joined(parts, n) == n > 1 /\ parts[n - 1].level = NoColon

LEMMA PartsAre ==
  ASSUME NEW empty, NEW parts, Len(parts) \in Nat
  PROVE  \E f : /\ f[0] = empty
                /\ \A n \in 1 .. Len(parts) : f[n] = AddPart(f[n - 1], parts[n], Joined(parts, n))
                /\ AddParts(empty, parts) = f[Len(parts)]
<1> DEFINE Made(n, before) == AddPart(before, parts[n], n > 1 /\ parts[n - 1].level = NoColon)
           Good(f, m) == f = [i \in 0 .. m |-> IF i = 0 THEN empty ELSE Made(i, f[i - 1])]
           T == {m \in Nat : \E f : Good(f, m)}
<1> HIDE DEF Made
<1>1. Nat \subseteq T
  <2>1. 0 \in T
    <3> DEFINE f == [i \in 0 .. 0 |-> empty]
    <3>1. f = [i \in 0 .. 0 |-> IF i = 0 THEN empty ELSE Made(i, f[i - 1])]
      OBVIOUS
    <3>2. Good(f, 0)
      BY <3>1
    <3> HIDE DEF f, Good
    <3>3. QED
      BY <3>2
  <2>2. \A m \in Nat : m \in T => m + 1 \in T
    <3> SUFFICES ASSUME NEW m \in Nat, NEW f, Good(f, m)
                 PROVE  m + 1 \in T
      OBVIOUS
    <3> DEFINE g == [i \in 0 .. m + 1 |-> IF i = m + 1 THEN Made(i, f[m]) ELSE f[i]]
    <3>1. g = [i \in 0 .. m + 1 |-> IF i = 0 THEN empty ELSE Made(i, g[i - 1])]
      <4> SUFFICES ASSUME NEW i \in 0 .. m + 1
                   PROVE  g[i] = IF i = 0 THEN empty ELSE Made(i, g[i - 1])
        OBVIOUS
      <4>1. CASE i = m + 1
        <5>1. g[i - 1] = f[m] /\ g[i] = Made(i, f[m])
          BY <4>1
        <5>2. QED
          BY <4>1, <5>1
      <4>2. CASE i \in 0 .. m
        <5>1. f[i] = IF i = 0 THEN empty ELSE Made(i, f[i - 1])
          BY <4>2
        <5>2. g[i] = f[i] /\ (i # 0 => g[i - 1] = f[i - 1])
          BY <4>2
        <5>3. QED
          BY <5>1, <5>2
      <4>3. QED
        BY <4>1, <4>2
    <3>2. Good(g, m + 1)
      BY <3>1
    <3> HIDE DEF g, Good
    <3>3. QED
      BY <3>2
  <2> HIDE DEF T
  <2>3. QED
    BY <2>1, <2>2, NatSet
<1> DEFINE c == CHOOSE f : Good(f, Len(parts))
<1>2. Good(c, Len(parts))
  <2>1. \E f : Good(f, Len(parts))
    BY <1>1
  <2> HIDE DEF Good
  <2>2. QED
    BY <2>1
<1>3. AddParts(empty, parts) = c[Len(parts)]
  BY Zenon DEF AddParts, Made
<1> HIDE DEF c
<1>4. \A i \in 0 .. Len(parts) : c[i] = IF i = 0 THEN empty ELSE Made(i, c[i - 1])
  BY <1>2
<1>5. /\ c[0] = empty
      /\ \A n \in 1 .. Len(parts) : c[n] = Made(n, c[n - 1])
  BY <1>4
<1>6. QED
  BY <1>3, <1>5 DEF Made, Joined

-----------------------------------------------------------------------------
(* The places of the parts with a tag of their own. *)
Tagged(parts, n) == {i \in 1 .. n : parts[i].tag # Star}

Entry == [tag : STRING \ {Star}, min : Levels]

(* The first of the first n parts with a tag stands for it in the table.   *)
Stands(parts, n, entries, t) ==
  \/ /\ \A i \in 1 .. n : parts[i].tag # t
     /\ \A j \in 1 .. Len(entries) : entries[j].tag # t
  \/ \E i \in 1 .. n, j \in 1 .. Len(entries) :
       /\ parts[i].tag = t /\ \A k \in 1 .. i - 1 : parts[k].tag # t
       /\ entries[j].tag = t /\ \A k \in 1 .. j - 1 : entries[k].tag # t
       /\ entries[j].min = ParseLevel(parts[i].level)

(* The last wildcard of the first n parts gives the default.               *)
Default(parts, n, default) ==
  \/ (\A i \in 1 .. n : parts[i].tag # Star) /\ default = AboveAll
  \/ \E i \in 1 .. n :
       /\ parts[i].tag = Star /\ \A k \in i + 1 .. n : parts[k].tag # Star
       /\ default = ParseLevel(parts[i].level)

Filter == [active : BOOLEAN, entries : Seq(Entry), default : DEBUG .. AboveAll, open : BOOLEAN]

(* The filter after the first n parts of a specification.                  *)
After(parts, n, f) ==
  /\ f \in Filter
  /\ f.active = TRUE /\ f.open = TRUE
  /\ Len(f.entries) = Cardinality(Tagged(parts, n))
  /\ \A t \in STRING \ {Star} : Stands(parts, n, f.entries, t)
  /\ Default(parts, n, f.default)

LEMMA LevelIs == \A word : ParseLevel(word) \in Levels
  BY DEF ParseLevel, Levels, DEBUG, INFO, WARN, ERROR

(* One more pair. *)
LEMMA OnePart ==
  ASSUME NEW parts \in FilterSpec, WellFormed(parts),
         NEW n \in 1 .. Len(parts), NEW f, After(parts, n - 1, f)
  PROVE  After(parts, n, AddPart(f, parts[n], Joined(parts, n)))
<1> DEFINE part == parts[n]
           g == AddPart(f, part, Joined(parts, n))
           pair == [tag |-> part.tag, min |-> ParseLevel(part.level)]
<1>1. /\ Len(parts) \in Nat /\ DOMAIN parts = 1 .. Len(parts) /\ n \in Nat /\ n - 1 \in Nat
      /\ \A i \in 1 .. Len(parts) : parts[i].level # NoColon /\ parts[i].tag \in STRING
  <2> DEFINE R == [tag : STRING, level : STRING]
  <2>1. parts \in Seq(R)
    BY DEF FilterSpec
  <2>2. \A r \in R : r.tag \in STRING
    OBVIOUS
  <2> HIDE DEF R
  <2>3. /\ Len(parts) \in Nat /\ DOMAIN parts = 1 .. Len(parts)
        /\ \A i \in 1 .. Len(parts) : parts[i] \in R
    BY <2>1
  <2>4. \A i \in DOMAIN parts : parts[i].level # NoColon
    BY DEF WellFormed
  <2>5. QED
    BY <2>2, <2>3, <2>4
<1>2. ~Joined(parts, n)
  BY <1>1 DEF Joined
<1>3. /\ IsFiniteSet(Tagged(parts, n - 1)) /\ IsFiniteSet(Tagged(parts, n))
      /\ IsFiniteSet(Tagged(parts, Len(parts)))
  <2>1. \A m \in Nat : IsFiniteSet(1 .. m)
    BY FS_Interval
  <2>2. \A m : Tagged(parts, m) \subseteq 1 .. m
    BY DEF Tagged
  <2>3. \A m \in Nat : IsFiniteSet(Tagged(parts, m))
    BY <2>1, <2>2, FS_Subset
  <2>4. QED
    BY <1>1, <2>3
<1>4. Cardinality(Tagged(parts, Len(parts))) < MaxEntries
  BY <1>1 DEF WellFormed, Tagged
<1>5. Cardinality(Tagged(parts, n - 1)) <= Cardinality(Tagged(parts, Len(parts)))
  <2>1. Tagged(parts, n - 1) \subseteq Tagged(parts, Len(parts))
    BY <1>1 DEF Tagged
  <2>2. QED
    BY <1>3, <2>1, FS_Subset
<1>6. f.open = TRUE /\ ~(Len(f.entries) >= MaxEntries)
  <2>1. /\ Cardinality(Tagged(parts, n - 1)) \in Nat
        /\ Cardinality(Tagged(parts, Len(parts))) \in Nat
    BY <1>3, FS_CardinalityType
  <2>2. QED
    BY <1>4, <1>5, <2>1, FilterAssumption DEF After
<1>a. part.tag \in STRING /\ ParseLevel(part.level) \in Levels
  BY <1>1, LevelIs
<1>b. \A i : i \in 1 .. n <=> i \in 1 .. n - 1 \/ i = n
  BY <1>1
<1>7. CASE part.tag = Star
  <2>1. g = [f EXCEPT !.default = ParseLevel(part.level)]
    BY <1>1, <1>2, <1>6, <1>7 DEF AddPart
  <2>2. Tagged(parts, n) = Tagged(parts, n - 1)
    BY <1>1, <1>7, <1>b DEF Tagged
  <2>3. ParseLevel(part.level) \in DEBUG .. AboveAll
    BY <1>a DEF Levels, AboveAll, DEBUG, ERROR
  <2>4. /\ g \in Filter /\ g.active = TRUE /\ g.open = TRUE /\ g.entries = f.entries
        /\ g.default = ParseLevel(part.level)
    BY <2>1, <2>3 DEF After, Filter
  <2>5. Default(parts, n, g.default)
    <3>1. n \in 1 .. n /\ ~\E k : k \in n + 1 .. n
      BY <1>1
    <3>2. QED
      BY <1>7, <2>4, <3>1 DEF Default
  <2>6. ASSUME NEW t \in STRING \ {Star}
        PROVE  Stands(parts, n, g.entries, t)
    <3>1. Stands(parts, n - 1, f.entries, t)
      BY DEF After
    <3>2. parts[n].tag # t
      BY <1>7
    <3>3. CASE /\ \A i \in 1 .. n - 1 : parts[i].tag # t
               /\ \A j \in 1 .. Len(f.entries) : f.entries[j].tag # t
      <4>1. \A i \in 1 .. n : parts[i].tag # t
        BY <1>b, <3>2, <3>3
      <4>2. QED
        BY <2>4, <3>3, <4>1, Zenon DEF Stands
    <3>4. CASE \E i \in 1 .. n - 1, j \in 1 .. Len(f.entries) :
                 /\ parts[i].tag = t /\ \A k \in 1 .. i - 1 : parts[k].tag # t
                 /\ f.entries[j].tag = t /\ \A k \in 1 .. j - 1 : f.entries[k].tag # t
                 /\ f.entries[j].min = ParseLevel(parts[i].level)
      BY <1>b, <2>4, <3>4, Zenon DEF Stands
    <3>5. QED
      BY <3>1, <3>3, <3>4, Zenon DEF Stands
  <2>7. Len(g.entries) = Cardinality(Tagged(parts, n))
    BY <2>2, <2>4 DEF After
  <2>8. QED
    BY <2>4, <2>5, <2>6, <2>7, Zenon DEF After
<1>8. CASE part.tag # Star
  <2>1. g = [f EXCEPT !.entries = Append(@, pair)]
    BY <1>1, <1>2, <1>6, <1>8 DEF AddPart
  <2>2. pair \in Entry /\ pair.tag = part.tag /\ pair.min = ParseLevel(part.level)
    BY <1>a, <1>8 DEF Entry
  <2> HIDE DEF pair
  <2>3. /\ g \in Filter /\ g.active = TRUE /\ g.open = TRUE /\ g.entries = Append(f.entries, pair)
        /\ g.default = f.default /\ f.entries \in Seq(Entry)
    <3>1. f.entries \in Seq(Entry)
      BY DEF After, Filter
    <3>2. Append(f.entries, pair) \in Seq(Entry)
      BY <2>2, <3>1
    <3>3. QED
      BY <2>1, <3>1, <3>2 DEF After, Filter
  <2>4. /\ Len(f.entries) \in Nat /\ Len(g.entries) = Len(f.entries) + 1
        /\ g.entries[Len(f.entries) + 1] = pair
        /\ \A j \in 1 .. Len(f.entries) : g.entries[j] = f.entries[j]
    BY <2>2, <2>3
  <2>5. Cardinality(Tagged(parts, n)) = Cardinality(Tagged(parts, n - 1)) + 1
    <3>1. Tagged(parts, n) = Tagged(parts, n - 1) \cup {n}
      BY <1>1, <1>8, <1>b DEF Tagged
    <3>2. n \notin Tagged(parts, n - 1)
      BY <1>1 DEF Tagged
    <3>3. QED
      BY <1>3, <3>1, <3>2, FS_AddElement
  <2>6. Default(parts, n, g.default)
    <3>1. Default(parts, n - 1, f.default)
      BY DEF After
    <3>2. CASE (\A i \in 1 .. n - 1 : parts[i].tag # Star) /\ f.default = AboveAll
      BY <1>8, <1>b, <2>3, <3>2 DEF Default
    <3>3. ASSUME NEW i \in 1 .. n - 1,
                 parts[i].tag = Star, \A k \in i + 1 .. n - 1 : parts[k].tag # Star,
                 f.default = ParseLevel(parts[i].level)
          PROVE  Default(parts, n, g.default)
      <4>1. \A k \in i + 1 .. n : parts[k].tag # Star
        <5>1. \A k \in i + 1 .. n : k \in i + 1 .. n - 1 \/ k = n
          BY <1>1
        <5>2. QED
          BY <1>8, <3>3, <5>1
      <4>2. i \in 1 .. n
        BY <1>1
      <4>3. QED
        BY <2>3, <3>3, <4>1, <4>2, Zenon DEF Default
    <3>4. QED
      BY <3>1, <3>2, <3>3, Zenon DEF Default
  <2>7. ASSUME NEW t \in STRING \ {Star}
        PROVE  Stands(parts, n, g.entries, t)
    <3>1. Stands(parts, n - 1, f.entries, t)
      BY DEF After
    <3>a. \A j : j \in 1 .. Len(g.entries) <=> j \in 1 .. Len(f.entries) \/ j = Len(f.entries) + 1
      BY <2>4
    <3>2. CASE /\ \A i \in 1 .. n - 1 : parts[i].tag # t
               /\ \A j \in 1 .. Len(f.entries) : f.entries[j].tag # t
      <4>1. CASE part.tag = t
        <5> DEFINE last == Len(f.entries) + 1
        <5>1. last \in 1 .. Len(g.entries) /\ n \in 1 .. n
          BY <1>1, <2>4
        <5>2. g.entries[last] = pair
          BY <2>4
        <5>3. \A k \in 1 .. last - 1 : g.entries[k].tag # t
          BY <2>4, <3>2
        <5> HIDE DEF last
        <5>4. QED
          BY <2>2, <3>2, <4>1, <5>1, <5>2, <5>3, Zenon DEF Stands
      <4>2. CASE part.tag # t
        <5>1. \A i \in 1 .. n : parts[i].tag # t
          BY <1>b, <3>2, <4>2
        <5>2. \A j \in 1 .. Len(g.entries) : g.entries[j].tag # t
          BY <2>2, <2>4, <3>2, <3>a, <4>2
        <5>3. QED
          BY <5>1, <5>2, Zenon DEF Stands
      <4>3. QED
        BY <4>1, <4>2
    <3>3. ASSUME NEW i \in 1 .. n - 1, NEW j \in 1 .. Len(f.entries),
                 parts[i].tag = t, \A k \in 1 .. i - 1 : parts[k].tag # t,
                 f.entries[j].tag = t, \A k \in 1 .. j - 1 : f.entries[k].tag # t,
                 f.entries[j].min = ParseLevel(parts[i].level)
          PROVE  Stands(parts, n, g.entries, t)
      <4>1. g.entries[j] = f.entries[j] /\ \A k \in 1 .. j - 1 : g.entries[k] = f.entries[k]
        <5>1. \A k \in 1 .. j - 1 : k \in 1 .. Len(f.entries)
          BY <2>4
        <5>2. QED
          BY <2>4, <5>1
      <4>2. i \in 1 .. n /\ j \in 1 .. Len(g.entries)
        BY <1>b, <3>a
      <4>3. QED
        BY <3>3, <4>1, <4>2, Zenon DEF Stands
    <3>4. QED
      BY <3>1, <3>2, <3>3, Zenon DEF Stands
  <2>8. Len(g.entries) = Cardinality(Tagged(parts, n))
    BY <2>4, <2>5 DEF After
  <2>9. QED
    BY <2>3, <2>6, <2>7, <2>8, Zenon DEF After
<1>9. QED
  BY <1>7, <1>8

(* The whole of a well-formed specification. *)
LEMMA AllParts ==
  ASSUME NEW parts \in FilterSpec, WellFormed(parts), parts # <<>>, NEW old
  PROVE  After(parts, Len(parts), SetFilter(old, parts))
<1> DEFINE empty == [Off EXCEPT !.active = TRUE]
<1>1. Len(parts) \in Nat
  BY DEF FilterSpec
<1>2. PICK f : /\ f[0] = empty
               /\ \A n \in 1 .. Len(parts) : f[n] = AddPart(f[n - 1], parts[n], Joined(parts, n))
               /\ AddParts(empty, parts) = f[Len(parts)]
  <2> HIDE DEF empty
  <2>1. QED
    BY <1>1, PartsAre
<1>3. After(parts, 0, empty)
  <2>1. /\ empty.active = TRUE /\ empty.open = TRUE /\ empty.entries = <<>>
        /\ empty.default = AboveAll
    BY DEF Off
  <2>2. empty \in Filter
    <3>1. <<>> \in Seq(Entry)
      OBVIOUS
    <3>2. AboveAll \in DEBUG .. AboveAll
      BY DEF AboveAll, DEBUG, ERROR
    <3>3. QED
      BY <3>1, <3>2 DEF Off, Filter
  <2>3. Cardinality(Tagged(parts, 0)) = 0 /\ Len(<<>>) = 0
    <3>1. Tagged(parts, 0) = {}
      BY DEF Tagged
    <3>2. QED
      BY <3>1, FS_EmptySet
  <2>4. \A i : i \notin 1 .. 0
    OBVIOUS
  <2> HIDE DEF empty
  <2>5. \A t \in STRING \ {Star} : Stands(parts, 0, empty.entries, t)
    BY <2>1, <2>3, <2>4 DEF Stands
  <2>6. Default(parts, 0, empty.default)
    BY <2>1, <2>4 DEF Default
  <2>7. QED
    BY <2>1, <2>2, <2>3, <2>5, <2>6 DEF After
<1> DEFINE T == {n \in Nat : n <= Len(parts) => After(parts, n, f[n])}
<1>4. Nat \subseteq T
  <2>1. 0 \in T
    <3> HIDE DEF empty
    <3>1. QED
      BY <1>2, <1>3
  <2>2. \A n \in Nat : n \in T => n + 1 \in T
    <3> SUFFICES ASSUME NEW n \in Nat, n \in T, n + 1 <= Len(parts)
                 PROVE  After(parts, n + 1, f[n + 1])
      OBVIOUS
    <3> DEFINE m == n + 1
    <3>1. m \in 1 .. Len(parts) /\ m - 1 = n /\ After(parts, n, f[n])
      BY <1>1
    <3>2. f[m] = AddPart(f[m - 1], parts[m], Joined(parts, m))
      BY <1>2, <3>1
    <3> HIDE DEF T, m, After
    <3>3. After(parts, m, f[m])
      BY <3>1, <3>2, OnePart
    <3>4. QED
      BY <3>3 DEF m
  <2> HIDE DEF T
  <2>3. QED
    BY <2>1, <2>2, NatSet
<1>5. After(parts, Len(parts), f[Len(parts)])
  BY <1>1, <1>4
<1>6. SetFilter(old, parts) = AddParts(empty, parts)
  BY DEF SetFilter
<1> HIDE DEF empty
<1>7. QED
  BY <1>2, <1>5, <1>6

EntryOf(entries, t) == SelectInSeq(entries, LAMBDA e : e.tag = t)

(* The first of the entries with a tag, when it is known where it stands.  *)
LEMMA FirstEntry ==
  ASSUME NEW entries \in Seq(Entry), NEW t,
         NEW j \in 1 .. Len(entries),
         entries[j].tag = t, \A k \in 1 .. j - 1 : entries[k].tag # t
  PROVE  EntryOf(entries, t) = j
<1> DEFINE I == {i \in 1 .. Len(entries) : entries[i].tag = t}
<1>1. j \in I /\ \A i \in I : j <= i
  OBVIOUS
<1>2. I \subseteq Int
  OBVIOUS
<1>3. EntryOf(entries, t) = IF I # {} THEN Min(I) ELSE 0
  BY DEF EntryOf, SelectInSeq
<1> HIDE DEF I
<1>4. Min(I) = j
  <2>1. \A x \in I : (\A y \in I : x <= y) => x = j
    BY <1>1, <1>2
  <2>2. QED
    BY <1>1, <2>1 DEF Min
<1>5. QED
  BY <1>1, <1>3, <1>4

LEMMA NoEntry ==
  ASSUME NEW entries \in Seq(Entry), NEW t,
         \A j \in 1 .. Len(entries) : entries[j].tag # t
  PROVE  EntryOf(entries, t) = 0
<1> DEFINE I == {i \in 1 .. Len(entries) : entries[i].tag = t}
<1>1. I = {}
  OBVIOUS
<1>2. EntryOf(entries, t) = IF I # {} THEN Min(I) ELSE 0
  BY DEF EntryOf, SelectInSeq
<1>3. QED
  BY <1>1, <1>2

(* A filter lets through what its specification says.                      *)
LEMMA FilterAsWritten ==
  ASSUME NEW parts \in FilterSpec, WellFormed(parts), NEW old,
         NEW level \in Levels, NEW tag \in STRING \cup {NoTag}
  PROVE  Allows(SetFilter(old, parts), level, tag) = AsWritten(parts, level, tag)
<1> SUFFICES ASSUME NEW F, F = SetFilter(old, parts)
             PROVE  Allows(F, level, tag) = AsWritten(parts, level, tag)
  BY Zenon
<1> DEFINE of(t) == {i \in DOMAIN parts : parts[i].tag = t}
           own == IF tag \in {NoTag, Star} THEN {} ELSE of(tag)
           entry == EntryOf(F.entries, tag)
           least == IF tag # NoTag /\ entry # 0 THEN F.entries[entry].min ELSE F.default
<1>1. /\ Len(parts) \in Nat /\ DOMAIN parts = 1 .. Len(parts)
      /\ level \in Int
  BY DEF FilterSpec, Levels, DEBUG, ERROR
<1>2. AsWritten(parts, level, tag) =
        IF own # {} THEN level >= ParseLevel(parts[Min(own)].level)
        ELSE IF of(Star) # {} THEN level >= ParseLevel(parts[Max(of(Star))].level)
        ELSE FALSE
  BY DEF AsWritten
<1>3. Allows(F, level, tag) = (F.active /\ level >= least)
  BY DEF Allows, EntryOf
<1>4. CASE parts = <<>>
  <2>1. F = Off
    BY <1>4 DEF SetFilter
  <2>2. of(Star) = {} /\ own = {}
    BY <1>4
  <2>3. Allows(F, level, tag) = FALSE
    <3>1. F.active = FALSE
      BY <2>1 DEF Off
    <3> HIDE DEF least
    <3>2. (F.active /\ level >= least) = FALSE
      BY <3>1
    <3>3. QED
      BY <1>3, <3>2, Zenon
  <2> HIDE DEF own, of, entry
  <2>4. QED
    BY <1>2, <2>2, <2>3
<1>5. CASE parts # <<>>
  <2>1. After(parts, Len(parts), F)
    BY <1>5, AllParts
  <2>2. F.active = TRUE /\ F.entries \in Seq(Entry)
    BY <2>1 DEF After, Filter
  <2>a. Levels \subseteq Int /\ \A word : ParseLevel(word) \in Int
    BY LevelIs DEF Levels, DEBUG, ERROR
  <2>3. CASE own # {}
    <3>1. tag \in STRING \ {Star} /\ tag # NoTag /\ own = of(tag)
      BY <2>3
    <3>2. \E i \in 1 .. Len(parts) : parts[i].tag = tag
      BY <1>1, <2>3, <3>1
    <3>3. Stands(parts, Len(parts), F.entries, tag)
      BY <2>1, <3>1 DEF After
    <3>4. PICK i \in 1 .. Len(parts), j \in 1 .. Len(F.entries) :
            /\ parts[i].tag = tag /\ \A k \in 1 .. i - 1 : parts[k].tag # tag
            /\ F.entries[j].tag = tag /\ \A k \in 1 .. j - 1 : F.entries[k].tag # tag
            /\ F.entries[j].min = ParseLevel(parts[i].level)
      BY <3>2, <3>3, Zenon DEF Stands
    <3>5. Min(own) = i
      <4>1. i \in own /\ (\A k \in own : i <= k) /\ own \subseteq Int
        BY <1>1, <3>1, <3>4
      <4> HIDE DEF own
      <4>2. \A x \in own : (\A y \in own : x <= y) => x = i
        BY <4>1
      <4>3. QED
        BY <4>1, <4>2 DEF Min
    <3>6. entry = j /\ j # 0
      <4> HIDE DEF own, of
      <4>a. /\ F.entries \in Seq(Entry) /\ j \in 1 .. Len(F.entries)
            /\ F.entries[j].tag = tag /\ \A k \in 1 .. j - 1 : F.entries[k].tag # tag
        BY <2>2, <3>4
      <4>1. entry = j
        BY ONLY <4>a, FirstEntry DEF entry
      <4>2. QED
        BY <4>1, <2>2
    <3>b. least = ParseLevel(parts[i].level)
      BY <3>1, <3>4, <3>6
    <3> HIDE DEF own, of, entry, least
    <3>c. (F.active /\ level >= least) = (level >= ParseLevel(parts[i].level))
      BY <1>1, <2>2, <2>a, <3>b
    <3>7. Allows(F, level, tag) = (level >= ParseLevel(parts[i].level))
      BY <1>3, <3>c, Zenon
    <3>8. AsWritten(parts, level, tag) = (level >= ParseLevel(parts[i].level))
      BY <1>2, <2>3, <3>5
    <3>9. QED
      BY <3>7, <3>8, Zenon
  <2>4. CASE own = {}
    <3>1. tag = NoTag \/ entry = 0
      <4> HIDE DEF entry
      <4>a. entry = EntryOf(F.entries, tag)
        BY DEF entry
      <4>1. CASE tag = Star
        <5>1. \A j \in 1 .. Len(F.entries) : F.entries[j].tag # tag
          <6>1. \A e \in Entry : e.tag # Star
            BY DEF Entry
          <6>2. QED
            BY <2>2, <4>1, <6>1
        <5>2. QED
          BY <2>2, <4>a, <5>1, NoEntry
      <4>2. CASE tag \notin {NoTag, Star}
        <5>1. \A i \in 1 .. Len(parts) : parts[i].tag # tag
          BY <1>1, <2>4, <4>2
        <5>2. Stands(parts, Len(parts), F.entries, tag)
          BY <2>1, <4>2 DEF After
        <5>3. \A j \in 1 .. Len(F.entries) : F.entries[j].tag # tag
          BY <5>1, <5>2, Zenon DEF Stands
        <5>4. QED
          BY <2>2, <4>a, <5>3, NoEntry
      <4>3. QED
        BY <4>1, <4>2
    <3>2. Default(parts, Len(parts), F.default)
      BY <2>1 DEF After
    <3>6. least = F.default
      BY <3>1
    <3> HIDE DEF least
    <3>7. Allows(F, level, tag) = (level >= F.default)
      <4>1. F.default \in Int
        BY <2>1 DEF After, Filter, DEBUG, AboveAll, ERROR
      <4>2. (F.active /\ level >= least) = (level >= F.default)
        BY <1>1, <2>2, <3>6, <4>1
      <4>3. QED
        BY <1>3, <4>2, Zenon
    <3>3. CASE (\A i \in 1 .. Len(parts) : parts[i].tag # Star) /\ F.default = AboveAll
      <4>1. of(Star) = {}
        BY <1>1, <3>3
      <4>2. (level >= F.default) = FALSE
        BY <3>3 DEF AboveAll, ERROR, DEBUG, Levels
      <4> HIDE DEF own, of
      <4>3. AsWritten(parts, level, tag) = FALSE
        BY <1>2, <2>4, <4>1
      <4>4. QED
        BY <3>7, <4>2, <4>3, Zenon
    <3>4. ASSUME NEW i \in 1 .. Len(parts), parts[i].tag = Star,
                 \A k \in i + 1 .. Len(parts) : parts[k].tag # Star,
                 F.default = ParseLevel(parts[i].level)
          PROVE  Allows(F, level, tag) = AsWritten(parts, level, tag)
      <4> DEFINE stars == of(Star)
      <4>1. i \in stars /\ (\A k \in stars : i >= k) /\ stars \subseteq Int
        BY <1>1, <3>4
      <4> HIDE DEF stars
      <4>2. Max(stars) = i
        <5>1. \A x \in stars : (\A y \in stars : x >= y) => x = i
          BY <4>1
        <5>2. QED
          BY <4>1, <5>1 DEF Max
      <4> HIDE DEF own
      <4>3. AsWritten(parts, level, tag) = (level >= ParseLevel(parts[i].level))
        <5>1. stars # {}
          BY <4>1
        <5> HIDE DEF of
        <5>2. QED
          BY <1>2, <2>4, <4>2, <5>1, Zenon DEF stars
      <4>4. QED
        BY <3>4, <3>7, <4>3, Zenon
    <3>5. QED
      BY <3>2, <3>3, <3>4, Zenon DEF Default
  <2>5. QED
    BY <2>3, <2>4, Zenon
<1>6. QED
  BY <1>4, <1>5

-----------------------------------------------------------------------------
Channels == 0 .. 255

(* The levels of the colour cube. *)
LEMMA CubeIs ==
  /\ DOMAIN CubeLevel = 1 .. 6
  /\ CubeLevel[1] = 0 /\ CubeLevel[2] = 95 /\ CubeLevel[3] = 135
  /\ CubeLevel[4] = 175 /\ CubeLevel[5] = 215 /\ CubeLevel[6] = 255
  BY DEF CubeLevel

(* A channel's step of the cube is the nearest one. *)
Nearest(level, c) == \A k \in 1 .. 6 : Distance(level, c) <= Distance(CubeLevel[k], c)

Best(level, c) ==
  \A other \in {0, 95, 135, 175, 215, 255} : Distance(level, c) <= Distance(other, c)

LEMMA NearestIs ==
  ASSUME NEW level, NEW c, Best(level, c)
  PROVE  Nearest(level, c)
<1> SUFFICES ASSUME NEW k \in 1 .. 6
             PROVE  Distance(level, c) <= Distance(CubeLevel[k], c)
  BY DEF Nearest
<1>1. CubeLevel[k] \in {0, 95, 135, 175, 215, 255}
  <2>1. k \in {1, 2, 3, 4, 5, 6}
    OBVIOUS
  <2>2. QED
    BY <2>1, CubeIs
<1>2. QED
  BY <1>1 DEF Best

LEMMA CubeNearest ==
  ASSUME NEW c \in Channels
  PROVE  /\ CubeIndex(c) \in 0 .. 5
         /\ CubeLevel[1 + CubeIndex(c)] \in Channels
         /\ Nearest(CubeLevel[1 + CubeIndex(c)], c)
<1> DEFINE i == CubeIndex(c)
           level == CubeLevel[1 + i]
<1> SUFFICES i \in 0 .. 5 /\ level \in Channels /\ Best(level, c)
  BY NearestIs
<1>1. CASE c < 48
  <2>1. i = 0
    BY <1>1 DEF CubeIndex, Channels
  <2>2. Best(0, c)
    BY <1>1 DEF Best, Distance, Channels
  <2> HIDE DEF i
  <2>3. level = 0 /\ 0 \in Channels
    BY <2>1, CubeIs DEF Channels
  <2> HIDE DEF level
  <2>4. QED
    BY <2>1, <2>2, <2>3
<1>2. CASE 48 <= c /\ c < 115
  <2>1. i = 1
    BY <1>2 DEF CubeIndex, Channels
  <2>2. Best(95, c)
    BY <1>2 DEF Best, Distance, Channels
  <2> HIDE DEF i
  <2>3. level = 95 /\ 95 \in Channels
    BY <2>1, CubeIs DEF Channels
  <2> HIDE DEF level
  <2>4. QED
    BY <2>1, <2>2, <2>3
<1>3. CASE 115 <= c /\ c < 155
  <2>1. i = 2
    BY <1>3 DEF CubeIndex, Channels
  <2>2. Best(135, c)
    BY <1>3 DEF Best, Distance, Channels
  <2> HIDE DEF i
  <2>3. level = 135 /\ 135 \in Channels
    BY <2>1, CubeIs DEF Channels
  <2> HIDE DEF level
  <2>4. QED
    BY <2>1, <2>2, <2>3
<1>4. CASE 155 <= c /\ c < 195
  <2>1. i = 3
    BY <1>4 DEF CubeIndex, Channels
  <2>2. Best(175, c)
    BY <1>4 DEF Best, Distance, Channels
  <2> HIDE DEF i
  <2>3. level = 175 /\ 175 \in Channels
    BY <2>1, CubeIs DEF Channels
  <2> HIDE DEF level
  <2>4. QED
    BY <2>1, <2>2, <2>3
<1>5. CASE 195 <= c /\ c < 235
  <2>1. i = 4
    BY <1>5 DEF CubeIndex, Channels
  <2>2. Best(215, c)
    BY <1>5 DEF Best, Distance, Channels
  <2> HIDE DEF i
  <2>3. level = 215 /\ 215 \in Channels
    BY <2>1, CubeIs DEF Channels
  <2> HIDE DEF level
  <2>4. QED
    BY <2>1, <2>2, <2>3
<1>6. CASE 235 <= c
  <2>1. i = 5
    BY <1>6 DEF CubeIndex, Channels
  <2>2. Best(255, c)
    BY <1>6 DEF Best, Distance, Channels
  <2> HIDE DEF i
  <2>3. level = 255 /\ 255 \in Channels
    BY <2>1, CubeIs DEF Channels
  <2> HIDE DEF level
  <2>4. QED
    BY <2>1, <2>2, <2>3
<1>7. QED
  BY <1>1, <1>2, <1>3, <1>4, <1>5, <1>6 DEF Channels

(* How a terminal reads the index of a step of the cube. *)
LEMMA PaletteCube ==
  ASSUME NEW x \in 0 .. 5, NEW y \in 0 .. 5, NEW z \in 0 .. 5
  PROVE  /\ 16 + 36 * x + 6 * y + z \in 16 .. 231
         /\ Palette(16 + 36 * x + 6 * y + z) =
              <<CubeLevel[1 + x], CubeLevel[1 + y], CubeLevel[1 + z]>>
<1> DEFINE i == 16 + 36 * x + 6 * y + z
           n == i - 16
<1>1. i \in 16 .. 231 /\ n \in Int /\ n = 36 * x + 6 * y + z
  OBVIOUS
<1> HIDE DEF n
<1>2. n \div 36 = x
  BY <1>1
<1>3. n \div 6 = 6 * x + y /\ n % 6 = z
  BY <1>1
<1>4. (n \div 6) % 6 = y
  BY <1>3
<1> HIDE DEF i
<1>5. ~(i >= 232)
  BY <1>1
<1>6. Palette(i) = <<CubeLevel[1 + (n \div 36)], CubeLevel[1 + ((n \div 6) % 6)], CubeLevel[1 + (n % 6)]>>
  BY <1>5, Zenon DEF Palette, n
<1>7. QED
  BY <1>1, <1>2, <1>3, <1>4, <1>6, Zenon DEF i

(* A grey is shown as one, rounded down to the ramp. *)
LEMMA GreyShown ==
  ASSUME NEW c \in Channels
  PROVE  /\ GreyIndex(c) \in 16 .. 255
         /\ \E shown \in Channels :
              /\ \A i \in 1 .. 3 : Palette(GreyIndex(c))[i] = shown
              /\ ShowsGrey(shown, c)
<1> DEFINE i == GreyIndex(c)
<1>1. CASE c < 4
  <2>1. i = 16
    BY <1>1 DEF GreyIndex, Channels
  <2>2. Palette(16 + 36 * 0 + 6 * 0 + 0) = <<CubeLevel[1 + 0], CubeLevel[1 + 0], CubeLevel[1 + 0]>>
    BY PaletteCube
  <2>3. Palette(16) = <<0, 0, 0>>
    BY <2>2, CubeIs
  <2>4. ShowsGrey(0, c) /\ 0 \in Channels
    BY <1>1 DEF ShowsGrey, Distance, Channels
  <2> HIDE DEF i
  <2>5. QED
    BY <2>1, <2>3, <2>4 DEF i
<1>2. CASE c > 243
  <2>1. i = 231
    BY <1>2 DEF GreyIndex, Channels
  <2>2. Palette(16 + 36 * 5 + 6 * 5 + 5) = <<CubeLevel[1 + 5], CubeLevel[1 + 5], CubeLevel[1 + 5]>>
    BY PaletteCube
  <2>3. Palette(231) = <<255, 255, 255>>
    BY <2>2, CubeIs
  <2>4. ShowsGrey(255, c) /\ 255 \in Channels
    BY <1>2 DEF ShowsGrey, Distance, Channels
  <2> HIDE DEF i
  <2>5. QED
    BY <2>1, <2>3, <2>4 DEF i
<1>3. ASSUME NEW g \in 0 .. 23, i = 232 + g, ShowsGrey(8 + 10 * g, c)
      PROVE  /\ i \in 16 .. 255
             /\ \E shown \in Channels :
                  (\A k \in 1 .. 3 : Palette(i)[k] = shown) /\ ShowsGrey(shown, c)
  <2> DEFINE shown == 8 + 10 * g
  <2> HIDE DEF i
  <2>1. i >= 232 /\ i - 232 = g /\ i \in 16 .. 255 /\ shown \in Channels
    BY <1>3 DEF Channels
  <2>2. Palette(i) = [k \in 1 .. 3 |-> 8 + 10 * (i - 232)]
    BY <2>1 DEF Palette
  <2>3. \A k \in 1 .. 3 : Palette(i)[k] = shown
    BY <2>1, <2>2
  <2> HIDE DEF shown
  <2>4. QED
    BY <1>3, <2>1, <2>3 DEF shown
<1>4. CASE 4 <= c /\ c < 8
  <2>1. i = 232 + 0 /\ ShowsGrey(8 + 10 * 0, c)
    BY <1>4 DEF GreyIndex, ShowsGrey, Distance, Channels
  <2>2. QED
    BY <1>3, <2>1
<1>5. CASE 8 <= c /\ c <= 243
  <2> DEFINE g == (c - 8) \div 10
  <2>1. g \in 0 .. 23 /\ 10 * g <= c - 8 /\ c - 8 < 10 * g + 10
    BY <1>5 DEF Channels
  <2>2. i = 232 + g
    BY <1>5 DEF GreyIndex, Channels
  <2> HIDE DEF g, i
  <2>3. ShowsGrey(8 + 10 * g, c)
    <3> DEFINE shown == 8 + 10 * g
    <3>1. (shown % 10) = 8 /\ shown <= c /\ c < shown + 10
      BY <2>1 DEF Channels
    <3> HIDE DEF shown
    <3>2. ShowsGrey(shown, c)
      BY <1>5, <3>1 DEF ShowsGrey, Channels
    <3>3. QED
      BY <3>2 DEF shown
  <2>4. QED
    BY <1>3, <2>1, <2>2, <2>3 DEF i
<1>6. QED
  BY <1>1, <1>2, <1>4, <1>5 DEF Channels

LEMMA ClampType ==
  ASSUME NEW x \in Int
  PROVE  Clamp(x) \in Channels
  BY DEF Clamp, Channels

LEMMA RgbTo256Fits ==
  ASSUME NEW r \in Int, NEW g \in Int, NEW b \in Int,
         NEW c, c = <<Clamp(r), Clamp(g), Clamp(b)>>
  PROVE  /\ RgbTo256(r, g, b) \in 16 .. 255
         /\ \A i \in 1 .. 3 :
              IF c[1] = c[2] /\ c[2] = c[3]
              THEN /\ Palette(RgbTo256(r, g, b))[i] = Palette(RgbTo256(r, g, b))[1]
                   /\ ShowsGrey(Palette(RgbTo256(r, g, b))[i], c[i])
              ELSE Nearest(Palette(RgbTo256(r, g, b))[i], c[i])
<1> DEFINE n == RgbTo256(r, g, b)
           R == Clamp(r)
           G == Clamp(g)
           B == Clamp(b)
<1>1. R \in Channels /\ G \in Channels /\ B \in Channels
  BY ClampType
<1>2. c[1] = R /\ c[2] = G /\ c[3] = B
  OBVIOUS
<1>3. n = IF R = G /\ G = B THEN GreyIndex(R)
          ELSE 16 + 36 * CubeIndex(R) + 6 * CubeIndex(G) + CubeIndex(B)
  BY DEF RgbTo256
<1> HIDE DEF n, R, G, B
<1>4. CASE R = G /\ G = B
  <2>1. n = GreyIndex(R)
    BY <1>3, <1>4
  <2>2. n \in 16 .. 255
    BY <1>1, <2>1, GreyShown
  <2>3. PICK shown \in Channels :
          (\A i \in 1 .. 3 : Palette(n)[i] = shown) /\ ShowsGrey(shown, R)
    BY <1>1, <2>1, GreyShown
  <2>4. \A i \in 1 .. 3 : c[i] = R
    BY <1>2, <1>4
  <2>5. QED
    BY <1>2, <1>4, <2>2, <2>3, <2>4 DEF n
<1>5. CASE ~(R = G /\ G = B)
  <2> DEFINE x == CubeIndex(R)
             y == CubeIndex(G)
             z == CubeIndex(B)
  <2>1. x \in 0 .. 5 /\ y \in 0 .. 5 /\ z \in 0 .. 5
    BY <1>1, CubeNearest
  <2>2. /\ Nearest(CubeLevel[1 + x], R) /\ Nearest(CubeLevel[1 + y], G)
        /\ Nearest(CubeLevel[1 + z], B)
    BY <1>1, CubeNearest
  <2> HIDE DEF x, y, z
  <2>3. n = 16 + 36 * x + 6 * y + z
    BY <1>3, <1>5 DEF x, y, z
  <2>4. n \in 16 .. 231 /\ Palette(n) = <<CubeLevel[1 + x], CubeLevel[1 + y], CubeLevel[1 + z]>>
    BY <2>1, <2>3, PaletteCube
  <2>5. \A i \in 1 .. 3 : Nearest(Palette(n)[i], c[i])
    BY <1>2, <2>2, <2>4
  <2>6. QED
    BY <1>2, <1>5, <2>4, <2>5 DEF n
<1>6. QED
  BY <1>4, <1>5

(* The three bits of one of eight colours. *)
LEMMA Bits ==
  ASSUME NEW x \in 0 .. 1, NEW y \in 0 .. 1, NEW z \in 0 .. 1,
         NEW n, n = x + 2 * y + 4 * z
  PROVE  /\ n \in 0 .. 7
         /\ (n % 2) = x /\ ((n \div 2) % 2) = y /\ (n \div 4) = z
         /\ (n % 60) = n /\ ((n + 60) % 60) = n
  OBVIOUS

(* What is known of a terminal once termcaps_init has run. *)
KnownCaps(caps) ==
  /\ caps.on = TRUE /\ caps.dumb \in BOOLEAN
  /\ IF caps.dumb THEN caps.color = NONE
     ELSE caps.color \in {COLOR_8, COLOR_16, COLOR_256, TRUECOLOR}

LEMMA DetectedKnown ==
  ASSUME NEW env
  PROVE  KnownCaps(Detected(env))
<1>1. ColorLevel(env) \in {COLOR_8, COLOR_16, COLOR_256, TRUECOLOR}
  BY DEF ColorLevel
<1> DEFINE dumb == env.TERM \in {Unset, Empty, "dumb"}
           color == IF dumb THEN NONE ELSE ColorLevel(env)
           unicode == UnicodeLevel(env)
<1>2. dumb \in BOOLEAN
  OBVIOUS
<1>3. IF dumb THEN color = NONE ELSE color \in {COLOR_8, COLOR_16, COLOR_256, TRUECOLOR}
  BY <1>1
<1>4. Detected(env) = [on |-> TRUE, dumb |-> dumb, color |-> color, unicode |-> unicode]
  BY DEF Detected
<1> HIDE DEF dumb, color, unicode
<1>5. QED
  BY <1>2, <1>3, <1>4 DEF KnownCaps

(* Whatever the terminal, a colour is rounded as Fits says.                *)
LEMMA ColorFits ==
  ASSUME NEW caps, caps = Nothing \/ KnownCaps(caps), NEW ground \in {30, 40},
         NEW r \in Int, NEW g \in Int, NEW b \in Int
  PROVE  Fits(caps, ground, <<r, g, b>>, FormatColor(caps, ground, r, g, b))
<1> DEFINE rgb == <<r, g, b>>
           seq == FormatColor(caps, ground, r, g, b)
           c == Clamped(rgb)
           bright == caps.color = COLOR_16 /\ \E x \in {r, g, b} : x > 200
<1>1. c = <<Clamp(r), Clamp(g), Clamp(b)>>
  BY DEF Clamped
<1>2. /\ COLOR_256 # TRUECOLOR
      /\ COLOR_8 \notin {NONE, COLOR_256, TRUECOLOR}
      /\ COLOR_16 \notin {NONE, COLOR_256, TRUECOLOR}
      /\ NONE \notin {COLOR_256, TRUECOLOR}
  BY DEF NONE, COLOR_8, COLOR_16, COLOR_256, TRUECOLOR
<1>3. CASE ~caps.on \/ caps.dumb
  <2>1. caps.color = NONE
    BY <1>3 DEF KnownCaps, Nothing
  <2>2. seq = <<>>
    BY <1>2, <2>1 DEF FormatColor
  <2> HIDE DEF seq, rgb
  <2>3. Fits(caps, ground, rgb, seq)
    BY <1>3, <2>2, Zenon DEF Fits
  <2>4. QED
    BY <2>3 DEF seq, rgb
<1>4. CASE caps.on /\ ~caps.dumb /\ caps.color = TRUECOLOR
  <2>1. seq = <<ground + 8, 2, r, g, b>>
    BY <1>2, <1>4 DEF FormatColor
  <2>2. c = rgb => seq = <<ground + 8, 2>> \o rgb
    BY <2>1
  <2> HIDE DEF seq, rgb
  <2>3. Fits(caps, ground, rgb, seq)
    BY <1>2, <1>4, <2>2, Zenon DEF Fits
  <2>4. QED
    BY <2>3 DEF seq, rgb
<1>5. CASE caps.on /\ ~caps.dumb /\ caps.color = COLOR_256
  <2> DEFINE n == RgbTo256(r, g, b)
  <2>1. seq = <<ground + 8, 5, n>>
    BY <1>2, <1>5 DEF FormatColor
  <2>2. /\ n \in 16 .. 255
        /\ \A i \in 1 .. 3 :
              IF c[1] = c[2] /\ c[2] = c[3]
              THEN Palette(n)[i] = Palette(n)[1] /\ ShowsGrey(Palette(n)[i], c[i])
              ELSE Nearest(Palette(n)[i], c[i])
    <3> HIDE DEF c
    <3>1. QED
      BY <1>1, RgbTo256Fits
  <2> HIDE DEF n, seq, c
  <2>3. Len(seq) = 3 /\ seq[1] = ground + 8 /\ seq[2] = 5 /\ seq[3] = n
    BY <2>1
  <2>4. DOMAIN CubeLevel = 1 .. 6
    BY CubeIs
  <2>5. ShowsStep(ground, c, seq)
    BY <2>2, <2>3, <2>4 DEF ShowsStep, Nearest
  <2> HIDE DEF rgb
  <2>6. Fits(caps, ground, rgb, seq)
    BY <1>2, <1>5, <2>5, Zenon DEF Fits, c
  <2>7. QED
    BY <2>6 DEF seq, rgb
<1>6. CASE caps.on /\ ~caps.dumb /\ caps.color \in {COLOR_8, COLOR_16}
  <2> DEFINE n == RgbTo8(r, g, b)
             Bit(v) == IF Clamp(v) >= 128 THEN 1 ELSE 0
             x == Bit(r)
             y == Bit(g)
             z == Bit(b)
  <2>1. seq = <<n + IF bright THEN ground + 60 ELSE ground>>
    BY <1>2, <1>6 DEF FormatColor
  <2>2. n = x + 2 * y + 4 * z
    BY DEF RgbTo8
  <2>3. x \in 0 .. 1 /\ y \in 0 .. 1 /\ z \in 0 .. 1
    OBVIOUS
  <2>4. [i \in 1 .. 3 |-> IF c[i] >= 128 THEN 1 ELSE 0] = <<x, y, z>>
    <3> HIDE DEF c
    <3>1. c[1] = Clamp(r) /\ c[2] = Clamp(g) /\ c[3] = Clamp(b)
      BY <1>1
    <3>2. QED
      BY <3>1
  <2> HIDE DEF n, x, y, z, seq, c, bright
  <2>5. /\ n \in 0 .. 7
        /\ (n % 2) = x /\ ((n \div 2) % 2) = y /\ (n \div 4) = z
        /\ (n % 60) = n /\ ((n + 60) % 60) = n
    BY <2>2, <2>3, Bits
  <2>6. bright => caps.color = COLOR_16
    BY DEF bright
  <2> DEFINE shown == seq[1] - ground
  <2>7. Len(seq) = 1 /\ shown = IF bright THEN n + 60 ELSE n
    BY <2>1, <2>5
  <2>8. shown \in 0 .. 7 \/ (caps.color = COLOR_16 /\ shown \in 60 .. 67)
    <3> HIDE DEF shown
    <3>1. QED
      BY <2>5, <2>6, <2>7
  <2>9. (shown % 60) = n
    BY <2>5, <2>7
  <2> HIDE DEF shown
  <2>10. <<n % 2, (n \div 2) % 2, n \div 4>> = <<x, y, z>>
    BY <2>5
  <2>11. ShowsHues(caps, ground, c, seq)
    BY <2>4, <2>7, <2>8, <2>9, <2>10 DEF ShowsHues, shown
  <2> HIDE DEF rgb
  <2>12. Fits(caps, ground, rgb, seq)
    BY <1>2, <1>6, <2>11, Zenon DEF Fits, c
  <2>13. QED
    BY <2>12 DEF seq, rgb
<1>7. QED
  BY <1>3, <1>4, <1>5, <1>6 DEF KnownCaps, Nothing

-----------------------------------------------------------------------------
(* The filter is the one that was written last. *)
LogInv == spec \in FilterSpec /\ filter = SetFilter(Off, spec)

LEMMA InitLog == Init => LogInv
<1>1. <<>> \in FilterSpec
  BY DEF FilterSpec
<1>2. QED
  BY <1>1 DEF Init, LogInv, SetFilter

LEMMA StepLog == FileInv /\ LogInv /\ [Next]_vars => LogInv'
<1> SUFFICES ASSUME FileInv, LogInv, [Next]_vars
             PROVE  LogInv'
  OBVIOUS
<1>1. /\ Len(argv) \in Nat /\ argi \in Nat \ {0}
      /\ \A i \in 1 .. Len(argv) : argv[i].spec \in FilterSpec
      /\ \A f \in DOMAIN files :
           /\ Len(files[f]) \in Nat
           /\ \A i \in 1 .. Len(files[f]) : files[f][i].spec \in FilterSpec
      /\ Stack(exe, loading, installed_path, installed_contrib_path)
  BY Inputs DEF FileInv
<1>2. ASSUME spec' \in FilterSpec, filter' = SetFilter(filter, spec')
      PROVE  LogInv'
  BY <1>2 DEF LogInv, SetFilter
<1>3. ASSUME UNCHANGED log
      PROVE  LogInv'
  BY <1>3 DEF LogInv, log
<1>4. CASE LogOption
  <2>1. argi + 1 \in 1 .. Len(argv)
    BY <1>1, <1>4 DEF LogOption
  <2>2. Value.spec \in FilterSpec
    BY <1>1, <2>1 DEF Value
  <2>3. spec' = Value.spec /\ filter' = SetFilter(filter, Value.spec)
    BY <1>4 DEF LogOption
  <2>4. QED
    BY <1>2, <2>2, <2>3
<1>5. CASE SetLogFilter
  <2>1. /\ Expression /\ spec' = Item.spec /\ filter' = SetFilter(filter, Item.spec)
    BY <1>5 DEF SetLogFilter
  <2>2. /\ loading # <<>> /\ Call = Head(loading)
        /\ Call.file \in DOMAIN files /\ Call.item <= Len(files[Call.file])
    BY <2>1 DEF Expression, Reading, Call
  <2>3. FrameOK(exe, Call, installed_path, installed_contrib_path)
    BY <1>1, <2>2 DEF Stack
  <2>4. Call.item \in Nat /\ Call.item # 0
    BY <2>3 DEF FrameOK, FrameType
  <2>5. Call.item \in 1 .. Len(files[Call.file])
    BY <1>1, <2>2, <2>4
  <2>6. Item.spec \in FilterSpec
    BY <1>1, <2>2, <2>5 DEF Item
  <2>7. QED
    BY <1>2, <2>1, <2>6
<1>6. CASE ChangeFilter
  <2>1. spec' \in FilterSpec
    BY <1>6, StartAssumption DEF ChangeFilter
  <2>2. QED
    BY <1>2, <1>6, <2>1 DEF ChangeFilter
<1>7. CASE RefuseArgs \/ LoadOption \/ FlagOption \/ HostOrPort \/ DetectTerminal
           \/ InitLisp \/ CreateTelnet \/ CreateRuntime
  BY <1>3, <1>7, Zenon DEF RefuseArgs, LoadOption, FlagOption, HostOrPort, DetectTerminal,
     InitLisp, CreateTelnet, CreateRuntime
<1>8. CASE LoadInit \/ RegisterTelnet \/ LoadScript \/ DispatchCliArgs \/ ConnectToHost
           \/ TryPath \/ FileFails \/ FileEnds \/ LoadSystemFile \/ RegisterCliHandler
  BY <1>3, <1>8, Zenon DEF LoadInit, RegisterTelnet, LoadScript, DispatchCliArgs,
     ConnectToHost, TryPath, FileFails, FileEnds, LoadSystemFile, RegisterCliHandler
<1>9. CASE AskColor \/ WriteColor \/ LoadCommand \/ CompleteWord \/ LeaveLoop \/ Cleanup
           \/ Gone \/ UNCHANGED vars
  BY <1>3, <1>9, Zenon DEF AskColor, WriteColor, LoadCommand, CompleteWord, LeaveLoop,
     Cleanup, Gone, vars
<1>10. QED
  BY <1>4, <1>5, <1>6, <1>7, <1>8, <1>9 DEF Next

(* The terminal's capabilities are those found at the start, and a colour  *)
(* is asked for in the event loop, where they stay.                        *)
ColorInv ==
  /\ g_caps = Nothing \/ KnownCaps(g_caps)
  /\ sequence # Written =>
       /\ stage = "loop" /\ loading = <<>>
       /\ Fits(g_caps, sequence.ground, sequence.rgb, sequence.seq)

LEMMA StepColor == ColorInv /\ [Next]_vars => ColorInv'
<1> SUFFICES ASSUME ColorInv, [Next]_vars
             PROVE  ColorInv'
  OBVIOUS
<1>1. ASSUME sequence' = Written, g_caps' \in {g_caps, Nothing} \/ KnownCaps(g_caps')
      PROVE  ColorInv'
  BY <1>1 DEF ColorInv
<1>2. ASSUME UNCHANGED <<g_caps, sequence>>, stage # "loop" \/ loading # <<>>
      PROVE  ColorInv'
  <2>1. sequence = Written
    BY <1>2 DEF ColorInv
  <2>2. QED
    BY <1>1, <1>2, <2>1
<1>3. CASE RefuseArgs \/ LoadOption \/ LogOption \/ FlagOption \/ HostOrPort
  <2>1. Parsing /\ UNCHANGED <<g_caps, sequence>>
    BY <1>3, Zenon DEF RefuseArgs, LoadOption, LogOption, FlagOption, HostOrPort
  <2>2. QED
    BY <1>2, <2>1 DEF Parsing
<1>4. CASE DetectTerminal
  <2>1. stage = "args" /\ sequence' = sequence /\ g_caps' = Detected(Given[start].env)
    BY <1>4 DEF DetectTerminal, At
  <2>2. KnownCaps(g_caps')
    BY <2>1, DetectedKnown
  <2>3. sequence = Written
    BY <2>1 DEF ColorInv
  <2>4. QED
    BY <1>1, <2>1, <2>2, <2>3
<1>5. CASE InitLisp \/ CreateTelnet \/ CreateRuntime \/ LoadInit \/ RegisterTelnet
           \/ LoadScript \/ DispatchCliArgs \/ ConnectToHost
  <2>1. /\ stage \in {"lisp", "telnet", "runtime", "init", "register", "scripts", "flags",
                       "connect"}
        /\ UNCHANGED <<g_caps, sequence>>
    BY <1>5, Zenon DEF InitLisp, CreateTelnet, CreateRuntime, LoadInit, RegisterTelnet,
       LoadScript, DispatchCliArgs, ConnectToHost, At
  <2>2. QED
    BY <1>2, <2>1
<1>6. CASE TryPath \/ FileFails \/ FileEnds \/ LoadSystemFile \/ RegisterCliHandler
           \/ SetLogFilter
  <2>1. loading # <<>> /\ UNCHANGED <<g_caps, sequence>>
    BY <1>6, Zenon DEF TryPath, FileFails, FileEnds, LoadSystemFile, RegisterCliHandler,
       SetLogFilter, Expression, Searching, Reading
  <2>2. QED
    BY <1>2, <2>1
<1>7. CASE AskColor
  <2>1. At("loop") /\ UNCHANGED <<g_caps, stage, loading>>
    BY <1>7 DEF AskColor, load
  <2>2. PICK r \in Channel, g \in Channel, b \in Channel, ground \in {30, 40} :
          sequence' = [rgb |-> <<r, g, b>>, ground |-> ground,
                       seq |-> FormatColor(g_caps, ground, r, g, b)]
    BY <1>7 DEF AskColor
  <2>3. Fits(g_caps, ground, <<r, g, b>>, FormatColor(g_caps, ground, r, g, b))
    <3>1. r \in Int /\ g \in Int /\ b \in Int
      BY ChannelAssumption
    <3>2. g_caps = Nothing \/ KnownCaps(g_caps)
      BY DEF ColorInv
    <3>3. QED
      BY <3>1, <3>2, ColorFits
  <2> DEFINE rgb == <<r, g, b>>
             seq == FormatColor(g_caps, ground, r, g, b)
  <2> HIDE DEF rgb, seq
  <2>4. sequence'.ground = ground /\ sequence'.rgb = rgb /\ sequence'.seq = seq
    BY <2>2 DEF rgb, seq
  <2>5. Fits(g_caps, ground, rgb, seq)
    BY <2>3 DEF rgb, seq
  <2>6. Fits(g_caps', sequence'.ground, sequence'.rgb, sequence'.seq)
    BY <2>1, <2>4, <2>5
  <2>7. QED
    BY <2>1, <2>6 DEF ColorInv, At
<1>8. CASE WriteColor
  BY <1>1, <1>8 DEF WriteColor
<1>9. CASE ChangeFilter \/ LoadCommand \/ CompleteWord \/ LeaveLoop
  <2>1. sequence = Written /\ UNCHANGED <<g_caps, sequence>>
    BY <1>9, Zenon DEF ChangeFilter, LoadCommand, CompleteWord, LeaveLoop
  <2>2. QED
    BY <1>1, <2>1
<1>10. CASE Cleanup
  <2>1. stage = "exit" /\ g_caps' = Nothing /\ UNCHANGED sequence
    BY <1>10 DEF Cleanup, At
  <2>2. sequence = Written
    BY <2>1 DEF ColorInv
  <2>3. QED
    BY <1>1, <2>1, <2>2
<1>11. CASE Gone \/ UNCHANGED vars
  <2>1. UNCHANGED <<g_caps, sequence, stage, loading>>
    BY <1>11 DEF Gone, vars, load
  <2>2. QED
    BY <2>1 DEF ColorInv
<1>12. QED
  BY <1>3, <1>4, <1>5, <1>6, <1>7, <1>8, <1>9, <1>10, <1>11 DEF Next

(* A message reaches the viewport exactly as the last filter was written,  *)
(* wherever it came from, and a colour is rounded as Fits says: in 256     *)
(* colours down to the ramp for a grey, to the nearest step of the cube in *)
(* each channel for any other, and to its hues in sixteen and in eight.    *)
(* For every filter, every environment and every colour.                   *)
THEOREM AlwaysOutputAsConfigured == Spec => []OutputAsConfigured
<1>1. Init => FileInv /\ FlagInv /\ LogInv /\ ColorInv
  BY InitFiles, InitLog DEF Init, ColorInv
<1>2. (FileInv /\ FlagInv /\ LogInv /\ ColorInv) /\ [Next]_vars
        => (FileInv /\ FlagInv /\ LogInv /\ ColorInv)'
  BY StepFiles, StepFlags, StepLog, StepColor
<1>3. LogInv /\ ColorInv => OutputAsConfigured
  <2> SUFFICES ASSUME LogInv, ColorInv
               PROVE  OutputAsConfigured
    OBVIOUS
  <2>1. sequence # Written => Fits(g_caps, sequence.ground, sequence.rgb, sequence.seq)
    BY DEF ColorInv
  <2>2. ASSUME WellFormed(spec), NEW level \in Levels, NEW tag \in Tags \cup {NoTag}
        PROVE  Allows(filter, level, tag) = AsWritten(spec, level, tag)
    <3>1. tag \in STRING \cup {NoTag}
      BY <2>2, FilterAssumption
    <3>2. spec \in FilterSpec /\ filter = SetFilter(Off, spec)
      BY DEF LogInv
    <3>3. Allows(SetFilter(Off, spec), level, tag) = AsWritten(spec, level, tag)
      BY <2>2, <3>1, <3>2, FilterAsWritten
    <3>4. QED
      BY <3>2, <3>3
  <2>3. QED
    BY <2>1, <2>2 DEF OutputAsConfigured
<1>4. QED
  BY <1>1, <1>2, <1>3, PTL DEF Spec
=============================================================================
