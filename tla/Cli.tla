-------------------------------- MODULE Cli --------------------------------
(***************************************************************************)
(* main() of the NeuronOS command-line tool (src/unnamed/part_000): the    *)
(* option scan, the dispatch on argv[1], and for each command the handles *)
(* it acquires (the model scan, the engine, the model, the tool registry, *)
(* the agent), the failure paths of every call that may fail, the         *)
(* releases before each return, and the exit code.  cmd_generate's       *)
(* grammar file loading is kept with the widths of its integers.           *)
(*                                                                         *)
(* The engine, the agent and the scanner are external here: each call is *)
(* a nondeterministic choice over the results the code tests for.        *)
(***************************************************************************)
EXTENDS Integers, Sequences

CONSTANTS
    Argvs,          \* the command lines tried: argv[1..argc-1] as sequences
    GrammarFiles,   \* the files --grammar may name: [ftell, bytes] or Missing
    Missing,        \* a --grammar path fopen cannot open
    SizeBits,       \* the width of size_t (64 in the builds; smaller here)
    NoPrompt,       \* prompt == NULL
    NoRc            \* rc before main has decided it

ASSUME CliAssumption ==
    /\ SizeBits \in Nat \ {0}
    /\ \A f \in GrammarFiles : f = Missing \/ (f.ftell \in Int /\ f.bytes \in Nat)

-----------------------------------------------------------------------------
(* The option scan (main, lines 188-204): an option that takes a value   *)
(* consumes the next argument when there is one.  ValuePos is the set of *)
(* positions so consumed.                                                 *)
ValueOptions == {"-t", "-n", "-s", "--temp", "--grammar", "--models"}
Options == ValueOptions \cup {"--verbose"}

ValuePos(argv) ==
    LET n == Len(argv)
        vp[i \in 1..(n + 2)] ==
           IF i > n THEN {}
           ELSE IF argv[i] \in ValueOptions /\ i + 1 <= n
                THEN {i + 1} \cup vp[i + 2]
                ELSE vp[i + 1]
    IN  vp[1]

GrammarGiven(argv) == \E i \in ValuePos(argv) : argv[i - 1] = "--grammar"

(* The prompt (lines 267-272 and 350-355): the first argument from       *)
(* argv[3] on that does not start with '-'.                              *)
Prompt(argv) ==
    LET ps == {i \in 3..Len(argv) : argv[i] \notin Options}
    IN  IF ps = {} THEN NoPrompt
        ELSE argv[CHOOSE i \in ps : \A j \in ps : i <= j]

(* The command line the usage text describes: the prompt is the first     *)
(* positional argument after the command, an option's value is not one.  *)
SpecPrompt(argv) ==
    LET ps == {i \in 3..Len(argv) : argv[i] \notin Options /\ i \notin ValuePos(argv)}
    IN  IF ps = {} THEN NoPrompt
        ELSE argv[CHOOSE i \in ps : \A j \in ps : i <= j]

(* argv[1], and for the legacy form argv[2], or "info" when argc == 2.   *)
Command(argv) == IF argv = << >> THEN "none" ELSE argv[1]
SubCommand(argv) == IF Len(argv) >= 2 THEN argv[2] ELSE "none"
LegacyCommand(argv) == IF Len(argv) >= 2 THEN argv[2] ELSE "info"

-----------------------------------------------------------------------------
(* cmd_generate's grammar loading (lines 80-94): size = ftell(fp),       *)
(* malloc((size_t)size + 1), fread of (size_t)size bytes, which stops at *)
(* the end of the file, then grammar[size] = '\0'.  A pipe or another    *)
(* stream fseek cannot move in gives ftell = -1.  The set holds whether  *)
(* a write fell outside the allocation, for every result malloc may      *)
(* give (NULL always; malloc(0) may return a unique pointer).            *)
SizeT(x) == x % 2^SizeBits

GrammarWrites(f, alloc) ==
    LET read == IF SizeT(f.ftell) < f.bytes THEN SizeT(f.ftell) ELSE f.bytes
    IN  read > alloc \/ f.ftell < 0 \/ f.ftell >= alloc

(* Mutant: malloc(size) without room for the terminator.                 *)
GrammarOverflowsNoNul(f) ==
    IF f = Missing THEN {FALSE}
    ELSE {FALSE, GrammarWrites(f, SizeT(f.ftell))}

GrammarOverflows(f) ==
    IF f = Missing THEN {FALSE}
    ELSE {FALSE, GrammarWrites(f, SizeT(SizeT(f.ftell) + 1))}

-----------------------------------------------------------------------------
(* The handles main holds, and what each one uses while it lives: the    *)
(* model is loaded into the engine, the agent holds the model and the   *)
(* registry.                                                              *)
Handles == {"models", "engine", "model", "registry", "agent"}
Needs(h) == CASE h = "model" -> {"engine"}
              [] h = "agent" -> {"model", "registry"}
              [] OTHER -> {}

(* The releases on the success path, in the order of the calls:          *)
(* cmd_agent frees the agent, then the registry (lines 164-165); main    *)
(* frees the model, shuts the engine down and frees the scan (336-338,   *)
(* 425-426).                                                              *)
TeardownOrderEngineFirst == << "agent", "registry", "engine", "model", "models" >>

TeardownOrder == << "agent", "registry", "model", "engine", "models" >>

(* What went wrong, for the exit code: nothing, a usage error, nothing   *)
(* found, a resource (RAM, memory) exhausted, the engine failed, the     *)
(* agent ran out of steps, or the agent failed otherwise.                 *)
Failures == {"none", "usage", "not_found", "resource", "engine", "budget", "agent"}
AgentStatuses == {"ok", "max_steps", "engine_error", "parse_error"}
AgentFailure(st) == CASE st = "ok" -> "none"
                      [] st = "max_steps" -> "budget"
                      [] st = "engine_error" -> "engine"
                      [] OTHER -> "agent"

VARIABLES
    argv,       \* the command line
    pc,         \* where main is
    held,       \* the handles acquired and not released
    rc,         \* the exit code once decided
    failure,    \* the failure that decided it
    overflow    \* a heap write outside its allocation happened

vars == <<argv, pc, held, rc, failure, overflow>>

Init ==
    /\ argv \in Argvs
    /\ pc = "main"
    /\ held = {}
    /\ rc = NoRc
    /\ failure = "none"
    /\ overflow = FALSE

(* return code, after releasing the handles in freed.                    *)
Return(code, why, freed) ==
    /\ held' = held \ freed
    /\ pc' = "exit"
    /\ rc' = code
    /\ failure' = why

Goto(l) == pc' = l /\ UNCHANGED <<held, rc, failure>>

-----------------------------------------------------------------------------
(* main, lines 173-215 and 345: no argument is a usage error, hwinfo     *)
(* only detects and prints, scan and auto have their own paths, and any  *)
(* other argv[1] is a model path.                                        *)
Main ==
    /\ pc = "main"
    /\ CASE Command(argv) = "none" -> Return(1, "usage", {})
         [] Command(argv) = "hwinfo" -> Return(0, "none", {})
         [] Command(argv) = "scan" -> Goto("scan")
         [] Command(argv) = "auto" /\ SubCommand(argv) = "none" -> Return(1, "usage", {})
         [] Command(argv) = "auto" /\ SubCommand(argv) # "none" -> Goto("auto_scan")
         [] OTHER -> Goto("legacy_init")
    /\ UNCHANGED <<argv, overflow>>

(* The scan command (lines 220-254): no model found returns 1; else the *)
(* ranked list is printed and freed.                                      *)
Scan ==
    /\ pc = "scan"
    /\ \/ Return(1, "not_found", {})
       \/ Return(0, "none", {})
    /\ UNCHANGED <<argv, overflow>>

(* auto, lines 280-287: neuronos_model_scan returns NULL or the list.    *)
AutoScan ==
    /\ pc = "auto_scan"
    /\ \/ Return(1, "not_found", {})
       \/ /\ held' = held \cup {"models"}
          /\ pc' = "auto_select"
          /\ UNCHANGED <<rc, failure>>
    /\ UNCHANGED <<argv, overflow>>

(* Lines 289-294: no model fits the budget.                               *)
AutoSelect ==
    /\ pc = "auto_select"
    /\ \/ Return(1, "resource", {"models"})
       \/ Goto("auto_init")
    /\ UNCHANGED <<argv, overflow>>

(* Lines 300-310: neuronos_init.                                          *)
AutoInit ==
    /\ pc = "auto_init"
    /\ \/ Return(1, "engine", {"models"})
       \/ /\ held' = held \cup {"engine"}
          /\ pc' = "auto_load"
          /\ UNCHANGED <<rc, failure>>
    /\ UNCHANGED <<argv, overflow>>

(* Mutant: the load failure path forgets neuronos_model_scan_free.       *)
AutoLoadNoScanFree ==
    /\ pc = "auto_load"
    /\ \/ \E why \in {"not_found", "resource"} : Return(1, why, {"engine"})
       \/ /\ held' = held \cup {"model"}
          /\ pc' = "run"
          /\ UNCHANGED <<rc, failure>>
    /\ UNCHANGED <<argv, overflow>>

(* Lines 313-324: neuronos_model_load fails (file not found, or out of   *)
(* memory) or returns the model.                                          *)
AutoLoad ==
    /\ pc = "auto_load"
    /\ \/ \E why \in {"not_found", "resource"} : Return(1, why, {"engine", "models"})
       \/ /\ held' = held \cup {"model"}
          /\ pc' = "run"
          /\ UNCHANGED <<rc, failure>>
    /\ UNCHANGED <<argv, overflow>>

(* Lines 358-367: neuronos_init on the legacy path.                       *)
LegacyInit ==
    /\ pc = "legacy_init"
    /\ \/ Return(1, "engine", {})
       \/ /\ held' = held \cup {"engine"}
          /\ pc' = "legacy_load"
          /\ UNCHANGED <<rc, failure>>
    /\ UNCHANGED <<argv, overflow>>

(* Lines 370-381 (info) and 403-413: the model load, then info or run.   *)
LegacyLoad ==
    /\ pc = "legacy_load"
    /\ \/ \E why \in {"not_found", "resource"} : Return(1, why, {"engine"})
       \/ /\ held' = held \cup {"model"}
          /\ pc' = IF LegacyCommand(argv) = "info" THEN "info" ELSE "run"
          /\ UNCHANGED <<rc, failure>>
    /\ UNCHANGED <<argv, overflow>>

(* Lines 383-399: print the model and hardware, free, return 0.          *)
Info ==
    /\ pc = "info"
    /\ Return(0, "none", {"model", "engine"})
    /\ UNCHANGED <<argv, overflow>>

(* Mutants: rc starts at 0, or is left uninitialised.                    *)
RunRcZero ==
    /\ pc = "run"
    /\ LET c == IF Command(argv) = "auto" THEN SubCommand(argv) ELSE LegacyCommand(argv)
       IN  /\ pc' = CASE c = "generate" -> "generate"
                      [] c = "agent" -> "agent"
                      [] OTHER -> "teardown"
           /\ failure' = IF c \in {"generate", "agent"} THEN failure ELSE "usage"
    /\ rc' = 0
    /\ UNCHANGED <<argv, held, overflow>>

RunRcUninitialised ==
    /\ pc = "run"
    /\ LET c == IF Command(argv) = "auto" THEN SubCommand(argv) ELSE LegacyCommand(argv)
       IN  /\ pc' = CASE c = "generate" -> "generate"
                      [] c = "agent" -> "agent"
                      [] OTHER -> "teardown"
           /\ failure' = IF c \in {"generate", "agent"} THEN failure ELSE "usage"
    /\ rc' = NoRc
    /\ UNCHANGED <<argv, held, overflow>>

(* Lines 326-334 and 415-423: rc = 1, then generate, agent, or an       *)
(* unknown command that keeps rc = 1.                                     *)
Run ==
    /\ pc = "run"
    /\ LET c == IF Command(argv) = "auto" THEN SubCommand(argv) ELSE LegacyCommand(argv)
       IN  /\ pc' = CASE c = "generate" -> "generate"
                      [] c = "agent" -> "agent"
                      [] OTHER -> "teardown"
           /\ failure' = IF c \in {"generate", "agent"} THEN failure ELSE "usage"
    /\ rc' = 1
    /\ UNCHANGED <<argv, held, overflow>>

(* cmd_generate (lines 72-118): no prompt returns 1; else the grammar    *)
(* file is loaded, the engine generates, the grammar is freed, and the  *)
(* status decides the result.                                             *)
Generate ==
    /\ pc = "generate"
    /\ \/ /\ Prompt(argv) = NoPrompt
          /\ rc' = 1 /\ failure' = "usage"
          /\ UNCHANGED overflow
       \/ /\ Prompt(argv) # NoPrompt
          /\ \E f \in IF GrammarGiven(argv) THEN GrammarFiles ELSE {Missing},
                st \in {"ok", "engine_error"} :
                /\ \E o \in GrammarOverflows(f) : overflow' = (overflow \/ o)
                /\ rc' = IF st = "ok" THEN 0 ELSE 1
                /\ failure' = IF st = "ok" THEN "none" ELSE "engine"
    /\ pc' = "teardown"
    /\ UNCHANGED <<argv, held>>

(* cmd_agent, lines 123-130: no task returns 1; else the registry is     *)
(* created (calloc may fail) and the FILESYSTEM defaults registered.     *)
AgentStart ==
    /\ pc = "agent"
    /\ \/ /\ Prompt(argv) = NoPrompt
          /\ rc' = 1 /\ failure' = "usage"
          /\ pc' = "teardown"
          /\ UNCHANGED held
       \/ /\ Prompt(argv) # NoPrompt
          /\ \E got \in BOOLEAN : held' = IF got THEN held \cup {"registry"} ELSE held
          /\ pc' = "agent_create"
          /\ UNCHANGED <<rc, failure>>
    /\ UNCHANGED <<argv, overflow>>

(* Lines 139-144: neuronos_agent_create fails and the registry is freed, *)
(* or the agent is created.                                               *)
AgentCreate ==
    /\ pc = "agent_create"
    /\ \/ /\ held' = held \ {"registry"}
          /\ rc' = 1 /\ failure' = "resource"
          /\ pc' = "teardown"
       \/ /\ held' = held \cup {"agent"}
          /\ pc' = "agent_run"
          /\ UNCHANGED <<rc, failure>>
    /\ UNCHANGED <<argv, overflow>>

(* Lines 151-166: neuronos_agent_run, and the status decides the result. *)
AgentRun ==
    /\ pc = "agent_run"
    /\ \E st \in AgentStatuses :
          /\ rc' = IF st = "ok" THEN 0 ELSE 1
          /\ failure' = AgentFailure(st)
    /\ pc' = "teardown"
    /\ UNCHANGED <<argv, held, overflow>>

(* The release calls before the final return, one per step: the first   *)
(* handle of TeardownOrder still held (a free of NULL, as of a registry *)
(* calloc did not give, does nothing), then return rc.                    *)
Release ==
    /\ pc = "teardown"
    /\ LET pending == {i \in DOMAIN TeardownOrder : TeardownOrder[i] \in held}
       IN  IF pending = {}
           THEN pc' = "exit" /\ UNCHANGED held
           ELSE /\ held' = held \ {TeardownOrder[CHOOSE i \in pending : \A j \in pending : i <= j]}
                /\ UNCHANGED pc
    /\ UNCHANGED <<argv, rc, failure, overflow>>

(* The process has exited.                                                *)
Exited ==
    /\ pc = "exit"
    /\ UNCHANGED vars

Next ==
    \/ Main \/ Scan \/ AutoScan \/ AutoSelect \/ AutoInit \/ AutoLoad
    \/ LegacyInit \/ LegacyLoad \/ Info \/ Run \/ Generate
    \/ AgentStart \/ AgentCreate \/ AgentRun \/ Release \/ Exited

Spec == Init /\ [][Next]_vars

-----------------------------------------------------------------------------
(* Properties.                                                            *)

Pcs == {"main", "scan", "auto_scan", "auto_select", "auto_init", "auto_load",
        "legacy_init", "legacy_load", "info", "run", "generate", "agent",
        "agent_create", "agent_run", "teardown", "exit"}

(* Every variable has its type, and from the teardown on rc holds an     *)
(* exit code main returns.                                                *)
TypeOK ==
    /\ argv \in Argvs
    /\ pc \in Pcs
    /\ held \subseteq Handles
    /\ rc \in {NoRc, 0, 1}
    /\ pc \in {"teardown", "exit"} => rc \in {0, 1}
    /\ failure \in Failures
    /\ overflow \in BOOLEAN

(* Every handle main acquires is released on every path before the      *)
(* process exits: the scan, the engine, the model, the registry and the *)
(* agent (the spec's scoped acquisition, "releases on all exit paths").  *)
ReleasedOnExit == pc = "exit" => held = {}

(* No handle is released while a handle that uses it is still held:     *)
(* the engine outlives its model, the model and the registry outlive    *)
(* the agent.                                                             *)
ReleaseOrder ==
    [][\A h \in held \ held' : \A d \in held' : h \notin Needs(d)]_vars

(* The exit code is 0 exactly when the command asked for did its work:   *)
(* a usage error, a failed load and a non-OK engine or agent status all *)
(* exit non-zero, and no success does.                                    *)
ExitZeroIffSuccess == pc = "exit" => (rc = 0 <=> failure = "none")

(* cmd_generate never writes the heap outside the grammar buffer it      *)
(* allocated, whatever file --grammar names.                             *)
NoHeapOverflow == ~overflow

(* The prompt handed to generate or the agent is the positional argument *)
(* of the command line, never the value of an option before it.         *)
PromptIsPositional ==
    pc \in {"generate", "agent"} => Prompt(argv) = SpecPrompt(argv)

=============================================================================
