--------------------------- MODULE MC_ToolRegistry ---------------------------
(* Instances of the tool registry for TLC: the registry the CLI's agent  *)
(* command builds (register_defaults with FILESYSTEM) plus descriptors a  *)
(* host may register itself, with a capacity small enough to be reached. *)
EXTENDS ToolRegistry

(* A host tool with a mid-size schema, such as an MCP tool.               *)
FetchDesc == [name |-> "fetch", exec |-> "user", caps |-> {"NETWORK"},
              nameLen |-> 5, descLen |-> 30, schemaLen |-> 600]
(* The same host tool with a large schema (MCP schemas with several      *)
(* described properties run to well over a kilobyte).                    *)
BigFetchDesc == [FetchDesc EXCEPT !.schemaLen = 1500]
(* A host tool whose name clashes with a built-in.                       *)
ClashDesc == [name |-> "calculate", exec |-> "user", caps |-> {},
              nameLen |-> 9, descLen |-> Null, schemaLen |-> Null]
(* Descriptors that neuronos_tool_register must reject.                  *)
NoExecDesc == [FetchDesc EXCEPT !.name = "broken", !.exec = Null]
NoNameDesc == [FetchDesc EXCEPT !.name = Null]

MCUserDescs == {FetchDesc, ClashDesc, NoExecDesc, NoNameDesc}
MCBigUserDescs == {BigFetchDesc}
MCCallNames == {"shell", "calculate", "fetch", "nosuch"}
MCNames == {"shell", "read_file", "write_file", "calculate", "fetch", "broken", "nosuch"}
=============================================================================
