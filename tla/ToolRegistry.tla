---------------------------- MODULE ToolRegistry ----------------------------
(***************************************************************************)
(* The tool registry of src/neuronos/src/agent/neuronos_tool_registry.c:  *)
(* a fixed array of tool descriptors filled by neuronos_tool_register and  *)
(* neuronos_tool_register_defaults, looked up by neuronos_tool_execute,   *)
(* and rendered into two heap buffers by neuronos_tool_grammar_names and  *)
(* neuronos_tool_prompt_description.                                       *)
(*                                                                         *)
(* Data is abstracted to what the properties tell apart: a tool name is a *)
(* string compared for equality, a text is its length, an argument       *)
(* string is one of a few shapes, and a tool result is the kind of its    *)
(* output and error.                                                       *)
(***************************************************************************)
EXTENDS Naturals, Sequences

CONSTANTS
    MaxTools,      \* NEURONOS_MAX_TOOLS (64 in the code)
    Granted,       \* allowed_caps passed to neuronos_tool_register_defaults
    UserDescs,     \* descriptors a host passes to neuronos_tool_register
    Names,         \* the tool names (C strings) in play
    CallNames,     \* tool names the caller may ask neuronos_tool_execute for
    Null           \* a NULL pointer (name, text or executor)

Caps == {"SHELL", "FILESYSTEM", "NETWORK"}

ASSUME MaxToolsAssumption == MaxTools \in Nat \ {0}
ASSUME GrantedAssumption == Granted \subseteq Caps
ASSUME NamesAssumption ==
    /\ {"shell", "read_file", "write_file", "calculate"} \subseteq Names
    /\ Null \notin Names

(* The executors: the four static built-ins, a host-supplied function and *)
(* the NULL executor that neuronos_tool_register rejects.                 *)
Executors == {"shell", "read_file", "write_file", "calculate", "user", Null}

(* A descriptor: name (or NULL), executor, required caps, and the lengths *)
(* of the name, description and args schema (Null for a NULL pointer).    *)
Desc == [name : Names \cup {Null}, exec : Executors, caps : SUBSET Caps,
         nameLen : Nat, descLen : Nat \cup {Null}, schemaLen : Nat \cup {Null}]

ASSUME UserDescsAssumption == UserDescs \subseteq Desc
ASSUME CallNamesAssumption == CallNames \subseteq Names

(* The descriptors built by neuronos_tool_register_defaults.  The lengths *)
(* are those of the string literals in the source.                        *)
ShellDesc == [name |-> "shell", exec |-> "shell", caps |-> {"SHELL"},
              nameLen |-> 5, descLen |-> 46, schemaLen |-> 128]
ReadDesc  == [name |-> "read_file", exec |-> "read_file", caps |-> {"FILESYSTEM"},
              nameLen |-> 9, descLen |-> 39, schemaLen |-> 111]
WriteDesc == [name |-> "write_file", exec |-> "write_file", caps |-> {"FILESYSTEM"},
              nameLen |-> 10, descLen |-> 24, schemaLen |-> 115]
CalcDesc  == [name |-> "calculate", exec |-> "calculate", caps |-> {},
              nameLen |-> 9, descLen |-> 45, schemaLen |-> 142]

(* Shapes of the args_json string as the strstr/strchr parsing sees it:  *)
(* NULL (replaced by "{}"), no key, key without a string value, a value   *)
(* without a single quote, and a value containing a single quote.         *)
ArgShapes == {"null", "nokey", "novalue", "plain", "quoted"}

(* A neuronos_tool_result_t: which executor produced it, success, the   *)
(* kind of output and the kind of error ("none" for NULL).               *)
OutKinds == {"none", "data", "errtext", "zero"}
ErrKinds == {"none", "badargs", "notfound", "missing", "invalid", "exec", "status"}
Result == [by : Executors \cup {"registry"}, ok : BOOLEAN,
           out : OutKinds, err : ErrKinds]
NoResult == [by |-> "registry", ok |-> FALSE, out |-> "none", err |-> "none"]

VARIABLES
    tools,     \* reg->tools[0 .. reg->count - 1], in registration order
    result,    \* the result of the last neuronos_tool_execute
    called,    \* tool_name of the last neuronos_tool_execute, as its caller holds it
    text,      \* what the last text generation did with its buffer
    spawned    \* executors that ran a command string chosen by the model

vars == <<tools, result, called, text, spawned>>

TextStatus == [kind : {"none", "grammar", "prompt", "nomem"},
               overrun : BOOLEAN, truncated : BOOLEAN]

-----------------------------------------------------------------------------
(* Helpers.                                                               *)

IsRegistered(n) == \E i \in 1..Len(tools) : tools[i].name = n

(* The sum of the first k elements of a sequence of lengths.              *)
PrefixSum(s, k) ==
    LET sum[j \in 0..k] == IF j = 0 THEN 0 ELSE sum[j - 1] + s[j]
    IN  sum[k]

(* A text built by successive snprintf(buf + len, cap - len, piece) calls *)
(* with len += return value.  Once len exceeds cap, the size_t cap - len  *)
(* wraps around and the next piece is written past the buffer; the       *)
(* result is truncated when the whole text and its NUL do not fit.        *)
WriteStatus(kind, pieces, cap) ==
    [kind |-> kind,
     overrun |-> \E k \in 1..Len(pieces) : PrefixSum(pieces, k - 1) > cap,
     truncated |-> PrefixSum(pieces, Len(pieces)) >= cap]

(* The pieces neuronos_tool_grammar_names prints for a non-empty registry. *)
GrammarPieces ==
    LET p[k \in 0..Len(tools)] ==
          IF k = 0 THEN <<14>>                          \* "tool-name ::= "
          ELSE p[k - 1] \o (IF k > 1 THEN <<3>> ELSE <<>>)  \* " | "
                        \o <<3, tools[k].nameLen, 3>>   \* "\"\\\"" name "\\\"\""
    IN  p[Len(tools)]

(* The pieces neuronos_tool_prompt_description prints per tool.  A NULL  *)
(* description prints "No description".                                  *)
ToolLine(d) ==
    <<2 + d.nameLen + 2 + (IF d.descLen = Null THEN 14 ELSE d.descLen)>>
    \o (IF d.schemaLen = Null THEN <<>> ELSE <<14 + d.schemaLen>>)
    \o <<1>>

PromptPieces ==
    LET p[k \in 0..Len(tools)] ==
          IF k = 0 THEN <<17>>                          \* "Available tools:\n"
          ELSE p[k - 1] \o ToolLine(tools[k])
    IN  p[Len(tools)]

-----------------------------------------------------------------------------
(* The registry after neuronos_tool_registry_create: calloc'd, count 0.  *)
Init ==
    /\ tools = << >>
    /\ result = NoResult
    /\ called = Null
    /\ text = [kind |-> "none", overrun |-> FALSE, truncated |-> FALSE]
    /\ spawned = {}

(* Mutants: the capacity check written with > instead of >=, and the     *)
(* duplicate-name loop dropped.                                          *)
RegisteredOverCapacity(reg, d) ==
    IF \/ d.name = Null \/ d.exec = Null
       \/ Len(reg) > MaxTools
       \/ \E i \in 1..Len(reg) : reg[i].name = d.name
    THEN reg
    ELSE Append(reg, d)

RegisteredNoDuplicateCheck(reg, d) ==
    IF \/ d.name = Null \/ d.exec = Null
       \/ Len(reg) >= MaxTools
    THEN reg
    ELSE Append(reg, d)

(* neuronos_tool_register: NULL name or executor, a full array and a     *)
(* duplicate name return -1 and leave the registry unchanged; otherwise   *)
(* the descriptor is copied to tools[count] and count is incremented.     *)
Registered(reg, d) ==
    IF \/ d.name = Null \/ d.exec = Null
       \/ Len(reg) >= MaxTools
       \/ \E i \in 1..Len(reg) : reg[i].name = d.name
    THEN reg
    ELSE Append(reg, d)

Register(d) ==
    /\ tools' = Registered(tools, d)
    /\ UNCHANGED <<result, called, text, spawned>>

(* neuronos_tool_register_defaults(reg, Granted): shell if SHELL is      *)
(* granted, read_file then write_file if FILESYSTEM is, calculate always, *)
(* each through neuronos_tool_register.                                  *)
RegisterDefaults ==
    LET r1 == IF "SHELL" \in Granted THEN Registered(tools, ShellDesc) ELSE tools
        r2 == IF "FILESYSTEM" \in Granted
              THEN Registered(Registered(r1, ReadDesc), WriteDesc)
              ELSE r1
    IN  /\ tools' = Registered(r2, CalcDesc)
        /\ UNCHANGED <<result, called, text, spawned>>

(* Mutant: the search loop stops one short, at i < count - 1.           *)
FindToolSkipLast(n) ==
    IF \E i \in 1..(Len(tools) - 1) : tools[i].name = n
    THEN CHOOSE i \in 1..(Len(tools) - 1) :
            /\ tools[i].name = n
            /\ \A j \in 1..(i - 1) : tools[j].name # n
    ELSE 0

(* The index neuronos_tool_execute's linear search stops at: the first   *)
(* tool named n, or 0 when there is none.                                 *)
FindTool(n) ==
    IF \E i \in 1..Len(tools) : tools[i].name = n
    THEN CHOOSE i \in 1..Len(tools) :
            /\ tools[i].name = n
            /\ \A j \in 1..(i - 1) : tools[j].name # n
    ELSE 0

R(e, ok, out, err) == [by |-> e, ok |-> ok, out |-> out, err |-> err]

(* What an executor can return once its argument was extracted, and      *)
(* whether it ran a command string taken from the arguments.  The        *)
(* environment decides whether popen/fopen succeed, the command's exit   *)
(* status, and what bc prints.                                           *)

(* tool_shell: popen fails, or the command ran and its output is kept,   *)
(* with success only for exit status 0.                                   *)
ShellRun ==
    {[res |-> R("shell", FALSE, "none", "exec"), spawn |-> FALSE],
     [res |-> R("shell", TRUE, "data", "none"), spawn |-> TRUE],
     [res |-> R("shell", FALSE, "data", "status"), spawn |-> TRUE]}

(* tool_read_file and tool_write_file: fopen fails, or the file is read  *)
(* or written.                                                            *)
FileRun(e) ==
    {[res |-> R(e, FALSE, "none", "exec"), spawn |-> FALSE],
     [res |-> R(e, TRUE, "data", "none"), spawn |-> FALSE]}

(* tool_calculate: the expression is pasted between single quotes into   *)
(* "echo '...' | bc -l 2>&1"; popen fails, or success with the first     *)
(* line bc printed (a value or an error message), or "0" when it printed *)
(* nothing (sh did not find bc).  A single quote in the expression ends  *)
(* the quoting, and the rest runs as a shell command.                    *)
CalcRun(a) ==
    {[res |-> R("calculate", FALSE, "none", "exec"), spawn |-> FALSE]}
    \cup {[res |-> R("calculate", TRUE, o, "none"), spawn |-> a = "quoted"] :
            o \in {"data", "errtext", "zero"}}

(* A host executor registered through neuronos_tool_register.            *)
UserRun(e) ==
    {[res |-> R(e, TRUE, "data", "none"), spawn |-> FALSE],
     [res |-> R(e, FALSE, "none", "exec"), spawn |-> FALSE]}

(* What executor e returns for arguments of shape a: each built-in first *)
(* looks for its key with strstr and for the opening quote of the value  *)
(* with strchr, and fails without side effect when either is missing.    *)
Outcomes(e, a) ==
    IF e # "user" /\ a \in {"null", "nokey"}
    THEN {[res |-> R(e, FALSE, "none", "missing"), spawn |-> FALSE]}
    ELSE IF e # "user" /\ a = "novalue"
    THEN {[res |-> R(e, FALSE, "none", "invalid"), spawn |-> FALSE]}
    ELSE CASE e = "shell" -> ShellRun
           [] e \in {"read_file", "write_file"} -> FileRun(e)
           [] e = "calculate" -> CalcRun(a)
           [] OTHER -> UserRun(e)

(* neuronos_tool_execute(reg, n, args): a NULL name is rejected, an      *)
(* unknown name gives "Tool not found", otherwise the executor of the    *)
(* tool found runs on the arguments.                                     *)
Execute(n, a) ==
    /\ \/ /\ n = Null
          /\ result' = R("registry", FALSE, "none", "badargs")
          /\ UNCHANGED spawned
       \/ /\ n # Null
          /\ FindTool(n) = 0
          /\ result' = R("registry", FALSE, "none", "notfound")
          /\ UNCHANGED spawned
       \/ /\ n # Null
          /\ FindTool(n) # 0
          /\ \E o \in Outcomes(tools[FindTool(n)].exec, a) :
                /\ result' = o.res
                /\ spawned' = IF o.spawn THEN spawned \cup {o.res.by} ELSE spawned
    /\ called' = n
    /\ UNCHANGED <<tools, text>>

(* neuronos_tool_grammar_names: "noop" for an empty registry, NULL when  *)
(* malloc fails, else the names written into 256 + 40 * count bytes.      *)
GrammarNames ==
    /\ \/ /\ tools = << >>
          /\ text' = [kind |-> "grammar", overrun |-> FALSE, truncated |-> FALSE]
       \/ /\ tools # << >>
          /\ text' = [kind |-> "nomem", overrun |-> FALSE, truncated |-> FALSE]
       \/ /\ tools # << >>
          /\ text' = WriteStatus("grammar", GrammarPieces, 256 + Len(tools) * 40)
    /\ UNCHANGED <<tools, result, called, spawned>>

(* Mutant: the prompt buffer sized with 128 instead of 256 bytes a tool. *)
PromptDescriptionSmallBuffer ==
    /\ \/ /\ tools = << >>
          /\ text' = [kind |-> "prompt", overrun |-> FALSE, truncated |-> FALSE]
       \/ /\ tools # << >>
          /\ text' = [kind |-> "nomem", overrun |-> FALSE, truncated |-> FALSE]
       \/ /\ tools # << >>
          /\ text' = WriteStatus("prompt", PromptPieces, 512 + Len(tools) * 128)
    /\ UNCHANGED <<tools, result, called, spawned>>

(* neuronos_tool_prompt_description: a fixed text for an empty registry, *)
(* NULL when malloc fails, else one line per tool in 512 + 256 * count    *)
(* bytes.                                                                 *)
PromptDescription ==
    /\ \/ /\ tools = << >>
          /\ text' = [kind |-> "prompt", overrun |-> FALSE, truncated |-> FALSE]
       \/ /\ tools # << >>
          /\ text' = [kind |-> "nomem", overrun |-> FALSE, truncated |-> FALSE]
       \/ /\ tools # << >>
          /\ text' = WriteStatus("prompt", PromptPieces, 512 + Len(tools) * 256)
    /\ UNCHANGED <<tools, result, called, spawned>>

Next ==
    \/ \E d \in UserDescs : Register(d)
    \/ RegisterDefaults
    \/ \E n \in CallNames \cup {Null}, a \in ArgShapes : Execute(n, a)
    \/ GrammarNames
    \/ PromptDescription

Spec == Init /\ [][Next]_vars

-----------------------------------------------------------------------------
(* The refinement mapping to the abstract registry of ToolMap: each name *)
(* in the array maps to the executor of a tool with that name (there is  *)
(* one, by NamesUnique), and the answer is the name of the last call    *)
(* with the executor that produced its result.                           *)
RegMap == [n \in {tools[i].name : i \in 1..Len(tools)} |->
             tools[CHOOSE i \in 1..Len(tools) : tools[i].name = n].exec]

TM == INSTANCE ToolMap WITH reg <- RegMap, answer <- [name |-> called, by |-> result.by],
                            Execs <- Executors

-----------------------------------------------------------------------------
(* Properties.                                                            *)

(* Every variable has its type, and the array bound NEURONOS_MAX_TOOLS   *)
(* is never exceeded by neuronos_tool_register's write to tools[count].  *)
TypeOK ==
    /\ tools \in Seq(Desc)
    /\ Len(tools) <= MaxTools
    /\ result \in Result
    /\ called \in Names \cup {Null}
    /\ text \in TextStatus
    /\ spawned \subseteq Executors

(* No two registered tools share a name, whatever sequence of            *)
(* neuronos_tool_register and neuronos_tool_register_defaults calls made *)
(* the registry: a name in the grammar selects exactly one tool.         *)
NamesUnique ==
    \A i, j \in 1..Len(tools) : i # j => tools[i].name # tools[j].name

(* neuronos_tool_grammar_names and neuronos_tool_prompt_description     *)
(* never write past the buffer they allocated.                           *)
NoBufferOverrun == ~text.overrun

(* The array, the linear search and the capacity test together behave  *)
(* as the abstract registry: a name is added once, only while fewer than *)
(* NEURONOS_MAX_TOOLS tools are registered, keeps the executor it was    *)
(* registered with, and every call of neuronos_tool_execute is answered *)
(* by the executor mapped to its name, or by the registry when none is.  *)
ImplementsToolMap == TM!Spec

(* A command string taken from the model's arguments is run by /bin/sh  *)
(* only when the SHELL capability was granted to the registry.           *)
ArbitraryCommandNeedsShellCap == spawned # {} => "SHELL" \in Granted

=============================================================================
