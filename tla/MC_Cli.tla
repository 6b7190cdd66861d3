------------------------------- MODULE MC_Cli -------------------------------
(* The command lines and grammar files the runs of Cli try.               *)
EXTENDS Cli

(* Every command and path of main: no argument, hwinfo, scan, auto with  *)
(* no sub-command, generate and agent with and without a task, an       *)
(* unknown sub-command (the spec's chat), the legacy model-path forms,  *)
(* and --grammar given after the prompt.                                 *)
MCArgvs ==
    { << >>, << "hwinfo" >>, << "scan" >>, << "auto" >>,
      << "auto", "generate" >>,
      << "auto", "generate", "hi", "--grammar", "g.gbnf" >>,
      << "auto", "agent", "hi", "--verbose" >>,
      << "auto", "chat", "hi" >>,
      << "m.gguf" >>, << "m.gguf", "info" >>,
      << "m.gguf", "generate", "hi", "--grammar", "g.gbnf" >>,
      << "m.gguf", "agent" >>, << "m.gguf", "agent", "hi" >> }

(* The same, plus a task given after an option with a value.            *)
MCArgvsOptionFirst == MCArgvs \cup { << "auto", "agent", "-s", "5", "do it" >> }

(* An empty file and a three-byte file, regular files ftell measures.   *)
MCGrammarFiles == { Missing, [ftell |-> 0, bytes |-> 0], [ftell |-> 3, bytes |-> 3] }

(* The same, plus a pipe holding three bytes: ftell returns -1.          *)
MCGrammarFilesPipe == MCGrammarFiles \cup { [ftell |-> -1, bytes |-> 3] }
=============================================================================
