---------------------------- MODULE AgentConfig ----------------------------
(***************************************************************************)
(* install and uninstall: the entry of VectorCode in the configuration of  *)
(* each agent, and the skill files (src/cli/install.rs, uninstall.rs).      *)
(*                                                                         *)
(* A configuration is JSON that the agent and its user write too, or no     *)
(* JSON, or not there.  Of JSON it is kept whether it is an object, what    *)
(* the object has for the agent's key, the entry of VectorCode, and what    *)
(* others put there.  Only what a command reads, writes and renames is a   *)
(* step; the command may be stopped, or fail, between any two.              *)
(***************************************************************************)
EXTENDS Naturals, SequencesExt

CONSTANTS
  Agents,      \* AgentTarget, in order
  Local,       \* agents that have a configuration in the project too
  Projects,    \* projects that are installed for
  Servers,     \* what others write: servers of their own, settings
  Docs,        \* skill files and instructions.md
  MaxEdits     \* bound: times others write

ASSUME AgentAssumption ==
  Agents \in Seq(Range(Agents)) /\ Local \subseteq Range(Agents) /\ MaxEdits \in Nat

Places == (Range(Agents) \X {"home"}) \cup (Local \X {"project"})
NoEntry == [project |-> 0]

Absent == [is |-> "absent"]
Broken(s) == [is |-> "text", others |-> s]
Json(k, e, s) == [is |-> "json", key |-> k, entry |-> e, others |-> s]

VARIABLES
  config,     \* the configuration at each place
  tmp,        \* config_path.with_extension("json.tmp")
  backup,     \* config_path.with_extension("json.bak")
  docs,       \* skill files and instructions
  command,    \* the command that runs
  written,    \* what others wrote last at each place
  excused,    \* places where the command and others met, or that it left half written
  edits       \* how often others have written

agentVars == <<config, tmp, backup, docs, command, written, excused, edits>>

-----------------------------------------------------------------------------
(* JSON, as the commands see it. *)

\* A text that is cut off is no JSON.
Truncated == Broken({})

\* config[mcp_key] is put there when it is missing, and indexing makes an object
\* of null and of nothing else.
CanHaveServers(c) == c.key \in {"none", "null", "object"}

WithEntry(c, e)  == [c EXCEPT !.key = "object", !.entry = e]
WithoutEntry(c)  == [c EXCEPT !.entry = NoEntry]
HasEntry(c)      == c.is = "json" /\ c.entry # NoEntry

\* No command is running, or one is between two agents.
NoArgs == [does |-> "none", project |-> 0, force |-> FALSE]
NoCommand == [pc |-> "idle", args |-> NoArgs, targets |-> <<>>, place |-> <<>>, read |-> Absent]

-----------------------------------------------------------------------------
AgentInit ==
  /\ config = [p \in Places |-> Absent]
  /\ tmp = [p \in Places |-> Absent]
  /\ backup = [p \in Places |-> Absent]
  /\ docs = [d \in Docs |-> "absent"]
  /\ command = NoCommand
  /\ written = [p \in Places |-> Absent]
  /\ excused = {}
  /\ edits = 0

\* The agent, or its user, writes the configuration: what it has already it
\* keeps if it can read it.
Edit(p) ==
  /\ edits < MaxEdits
  /\ edits' = edits + 1
  /\ \E s \in Servers, k \in {"none", "null", "object", "array"} :
       \/ config' = [config EXCEPT ![p] = Broken({s})]
       \/ config' = [config EXCEPT ![p] = Json(k, NoEntry, {s})]
       \/ /\ HasEntry(config[p])
          /\ config' = [config EXCEPT ![p].others = {s}]
  /\ written' = [written EXCEPT ![p] = config'[p]]
  /\ excused' = IF command.place = p THEN excused \cup {p} ELSE excused \ {p}
  /\ UNCHANGED <<tmp, backup, docs, command>>

\* The user writes a skill file.
EditDoc(d) ==
  /\ edits < MaxEdits
  /\ edits' = edits + 1
  /\ docs' = [docs EXCEPT ![d] = "the user's"]
  /\ UNCHANGED <<config, tmp, backup, command, written, excused>>

-----------------------------------------------------------------------------
(* The commands. *)

Begin ==
  /\ command.pc = "idle"
  /\ \E args \in {[NoArgs EXCEPT !.does = "uninstall"]} \cup
                   [does : {"install"}, project : Projects, force : BOOLEAN],
        targets \in {Agents} \cup {<<a>> : a \in Range(Agents)} :
       command' = [NoCommand EXCEPT !.pc = "next", !.args = args, !.targets = targets]
  /\ UNCHANGED <<config, tmp, backup, docs, written, excused, edits>>

\* config_path: the project's own configuration if there is one.
ConfigPath(a) ==
  IF a \in Local /\ config[<<a, "project">>] # Absent THEN <<a, "project">> ELSE <<a, "home">>

NextTarget ==
  [NoCommand EXCEPT !.pc = "next", !.args = command.args, !.targets = Tail(command.targets)]

\* The next agent: its path is determined, and the configuration is read, if it
\* is there.
ReadConfig ==
  /\ command.pc = "next"
  /\ command.targets # <<>>
  /\ LET p == ConfigPath(Head(command.targets))
     IN command' = IF command.args.does = "uninstall" /\ config[p] = Absent THEN NextTarget
                   ELSE [command EXCEPT !.pc = command.args.does, !.place = p, !.read = config[p]]
  /\ UNCHANGED <<config, tmp, backup, docs, written, excused, edits>>

\* Mutant: a configuration that is not JSON is replaced.
ParsedAsEmpty ==
  IF command.read.is = "json" THEN command.read ELSE Json("none", NoEntry, {})

\* What install works on: an absent configuration is {}.
Parsed ==
  IF command.read = Absent THEN Json("none", NoEntry, {}) ELSE command.read

\* install_for_agent: what is not JSON is backed up and left alone; an entry
\* for the same project is left alone; what cannot have servers panics.
InstallForAgent ==
  /\ command.pc = "install"
  /\ CASE Parsed.is # "json" ->
            /\ backup' = [backup EXCEPT ![command.place] = command.read]
            /\ command' = NextTarget
            /\ UNCHANGED tmp
       [] Parsed.is = "json" /\ ~CanHaveServers(Parsed) ->
            /\ command' = NoCommand
            /\ UNCHANGED <<tmp, backup>>
       [] Parsed.is = "json" /\ CanHaveServers(Parsed)
          /\ Parsed.entry = [project |-> command.args.project] ->
            /\ command' = NextTarget
            /\ UNCHANGED <<tmp, backup>>
       [] OTHER ->
            /\ tmp' = [tmp EXCEPT ![command.place] = Truncated]
            /\ command' = [command EXCEPT !.pc = "tmp"]
            /\ UNCHANGED backup
  /\ UNCHANGED <<config, docs, written, excused, edits>>

WriteTmp ==
  /\ command.pc = "tmp"
  /\ tmp' = [tmp EXCEPT ![command.place] = WithEntry(Parsed, [project |-> command.args.project])]
  /\ command' = [command EXCEPT !.pc = "rename"]
  /\ UNCHANGED <<config, backup, docs, written, excused, edits>>

RenameTmp ==
  /\ command.pc = "rename"
  /\ config' = [config EXCEPT ![command.place] = tmp[command.place]]
  /\ tmp' = [tmp EXCEPT ![command.place] = Absent]
  /\ command' = NextTarget
  /\ UNCHANGED <<backup, docs, written, excused, edits>>

\* uninstall_for_agent: the configuration is written in place.
UninstallForAgent ==
  /\ command.pc = "uninstall"
  /\ IF HasEntry(command.read)
     THEN /\ config' = [config EXCEPT ![command.place] = Truncated]
          /\ command' = [command EXCEPT !.pc = "write"]
     ELSE /\ command' = NextTarget
          /\ UNCHANGED config
  /\ UNCHANGED <<tmp, backup, docs, written, excused, edits>>

WriteConfig ==
  /\ command.pc = "write"
  /\ config' = [config EXCEPT ![command.place] = WithoutEntry(command.read)]
  /\ command' = NextTarget
  /\ UNCHANGED <<tmp, backup, docs, written, excused, edits>>

\* write_skill_files, write_instructions: in place, what exists only with
\* --force.
BeginDoc(d) ==
  /\ command.pc = "next" /\ command.targets = <<>>
  /\ command.args.does = "install"
  /\ docs[d] = "absent" \/ (command.args.force /\ docs[d] # "ours")
  /\ docs' = [docs EXCEPT ![d] = "being written"]
  /\ command' = [command EXCEPT !.pc = "doc"]
  /\ UNCHANGED <<config, tmp, backup, written, excused, edits>>

WriteDoc(d) ==
  /\ command.pc = "doc" /\ docs[d] = "being written"
  /\ docs' = [docs EXCEPT ![d] = "ours"]
  /\ command' = [command EXCEPT !.pc = "next"]
  /\ UNCHANGED <<config, tmp, backup, written, excused, edits>>

\* The command is done, is killed, or a write of it fails.
Stop ==
  /\ command.pc # "idle"
  /\ command' = NoCommand
  /\ excused' = IF command.pc = "write" THEN excused \cup {command.place} ELSE excused
  /\ docs' = [d \in Docs |-> IF docs[d] = "being written" THEN "cut off" ELSE docs[d]]
  /\ UNCHANGED <<config, tmp, backup, written, edits>>

AgentNext ==
  \/ \E p \in Places : Edit(p)
  \/ \E d \in Docs : EditDoc(d) \/ BeginDoc(d) \/ WriteDoc(d)
  \/ Begin \/ ReadConfig
  \/ InstallForAgent \/ WriteTmp \/ RenameTmp
  \/ UninstallForAgent \/ WriteConfig
  \/ Stop

AgentSpec == AgentInit /\ [][AgentNext]_agentVars

-----------------------------------------------------------------------------
(* Properties. *)

OthersOf(c) == IF c = Absent THEN {} ELSE c.others

Writing(p) == command.pc = "write" /\ command.place = p

\* However often VectorCode is installed and uninstalled, for whatever projects,
\* and wherever install is stopped, an agent's configuration has what the agent
\* and its user wrote there last, JSON or not.  Excepted are an agent that
\* writes between a command's reading and its writing, whose edit is lost, and
\* an uninstall that is stopped in the middle of its write, which nothing
\* protects as install's is (cli/install.rs:341-403, uninstall.rs:107-109).
OtherServersSurvive ==
  \A p \in Places :
    p \in excused \/ Writing(p) \/
      /\ OthersOf(config[p]) = OthersOf(written[p])
      /\ written[p] # Absent => (config[p].is = written[p].is)
=============================================================================
