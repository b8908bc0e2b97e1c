--------------------------- MODULE CommandProofs ---------------------------
(***************************************************************************)
(* Proofs about commands.  Three change files which others change too:     *)
(* install and uninstall (AgentConfig), upgrade (Upgrade), and the download *)
(* of a model (ModelCache); one reads a file which others write, the       *)
(* regression gate (Bench), and compares what the benchmark has measured   *)
(* (Quality).  They share no state; each has an invariant of its own.      *)
(***************************************************************************)
EXTENDS AgentConfig, Upgrade, ModelCache, Bench, Quality, FiniteSetTheorems,
        SequenceTheorems, WellFoundedInduction, TLAPS

-----------------------------------------------------------------------------
(***************************************************************************)
(* AgentConfig.  What a command has read it writes back with nothing of    *)
(* the others' changed, so the invariant is that what it has read is what  *)
(* others wrote last, unless they wrote since.                             *)
(***************************************************************************)

Entry  == [project : Projects \cup {0}]
IsText == [is : {"text"}, others : SUBSET Servers]
IsJson == [is : {"json"}, key : {"none", "null", "object", "array"}, entry : Entry,
           others : SUBSET Servers]
Config == {Absent} \cup IsText \cup IsJson

Working == {"install", "tmp", "rename", "uninstall", "write"}

AgentCommand ==
  [pc : {"idle", "next", "doc"} \cup Working,
   args : [does : {"none", "install", "uninstall"}, project : Projects \cup {0}, force : BOOLEAN],
   targets : Seq(Range(Agents)), place : Places \cup {<<>>}, read : Config]

\* A configuration has what others wrote, and is JSON if that was.
Keeps(c, w) == OthersOf(c) = OthersOf(w) /\ (w # Absent => c.is = w.is)

AgentTypeOK ==
  /\ config \in [Places -> Config]
  /\ tmp \in [Places -> Config]
  /\ written \in [Places -> Config]
  /\ command \in AgentCommand
  /\ command.pc \in Working => command.place \in Places /\ command.targets # <<>>
  /\ command.pc # "idle" => command.args.does # "none"

\* What the command works on.
AtWork ==
  /\ command.pc \in Working =>
       command.place \in excused \/ Keeps(command.read, written[command.place])
  /\ command.pc \in {"tmp", "rename"} => Parsed \in IsJson
  /\ command.pc = "rename" =>
       tmp[command.place] = WithEntry(Parsed, [project |-> command.args.project])
  /\ command.pc = "write" => command.read \in IsJson

Kept == \A p \in Places : p \in excused \/ Writing(p) \/ Keeps(config[p], written[p])

AgentInv == AgentTypeOK /\ AtWork /\ Kept

-----------------------------------------------------------------------------
\* The three kinds of configuration.
LEMMA Kinds ==
  /\ Absent \in Config /\ OthersOf(Absent) = {}
  /\ \A c \in IsText \cup IsJson : c # Absent /\ OthersOf(c) = c.others
  /\ \A c \in Config : /\ c.is = "absent" <=> c = Absent
                       /\ c.is = "text" <=> c \in IsText
                       /\ c.is = "json" <=> c \in IsJson
BY DEF Config, IsText, IsJson, Absent, OthersOf

\* Nothing is lost of what is left alone.
LEMMA KeepsItself == \A c \in Config : Keeps(c, c)
BY DEF Keeps

\* An entry that is put in or taken out leaves what others wrote.
LEMMA EntriesKeep ==
  ASSUME NEW c \in IsJson, NEW n \in Projects \cup {0}
  PROVE  /\ WithEntry(c, [project |-> n]) \in IsJson /\ WithEntry(c, [project |-> n]).others = c.others
         /\ WithoutEntry(c) \in IsJson /\ WithoutEntry(c).others = c.others
BY DEF IsJson, WithEntry, WithoutEntry, Entry, NoEntry

\* Neither of them changes what a configuration keeps; nor does an entry that is
\* put into one that was not there.
LEMMA RewritingKeeps ==
  ASSUME NEW c \in Config, NEW w \in Config, Keeps(c, w), NEW d \in IsJson,
         c \in IsJson \/ c = Absent, d.others = OthersOf(c)
  PROVE  Keeps(d, w)
BY Kinds DEF Keeps, IsJson

\* When no command runs nothing is being worked on.
LEMMA NoCommandIs ==
  NoCommand \in AgentCommand /\ NoCommand.pc \notin Working /\ NoCommand.pc = "idle"
BY Kinds DEF NoCommand, NoArgs, AgentCommand, Working

\* There are no configurations.
LEMMA AgentInitHolds == AgentInit => AgentInv
<1> SUFFICES ASSUME AgentInit PROVE AgentInv
  OBVIOUS
<1>1. AgentTypeOK
  BY Kinds, NoCommandIs DEF AgentInit, AgentTypeOK
<1>2. AtWork
  BY DEF AgentInit, AtWork, NoCommand, Working
<1>3. Kept
  BY Kinds, KeepsItself DEF AgentInit, Kept
<1> QED
  BY <1>1, <1>2, <1>3 DEF AgentInv

\* What others write is kept of itself; a command that works there is excused.
LEMMA EditKeeps ==
  ASSUME AgentInv, NEW p \in Places, Edit(p) PROVE AgentInv'
<1>1. /\ config' \in [Places -> Config] /\ written' \in [Places -> Config]
      /\ config'[p] = written'[p] /\ written'[p] \in Config
      /\ \A q \in Places : q # p => config'[q] = config[q] /\ written'[q] = written[q]
  <2>1. PICK c \in Config : config' = [config EXCEPT ![p] = c]
    <3>1. PICK s \in Servers, k \in {"none", "null", "object", "array"} :
            \/ config' = [config EXCEPT ![p] = Broken({s})]
            \/ config' = [config EXCEPT ![p] = Json(k, NoEntry, {s})]
            \/ HasEntry(config[p]) /\ config' = [config EXCEPT ![p].others = {s}]
      BY DEF Edit
    <3>2. Broken({s}) \in Config /\ Json(k, NoEntry, {s}) \in Config
      BY DEF Config, IsText, IsJson, Broken, Json, Entry, NoEntry
    <3>3. HasEntry(config[p]) => [config[p] EXCEPT !.others = {s}] \in Config
      BY Kinds DEF AgentInv, AgentTypeOK, HasEntry, Config, IsJson
    <3> QED
      BY <3>1, <3>2, <3>3 DEF AgentInv, AgentTypeOK
  <2> QED
    BY <2>1 DEF Edit, AgentInv, AgentTypeOK
<1>2. /\ command' = command /\ tmp' = tmp
      /\ command.place = p => excused' = excused \cup {p}
      /\ command.place # p => excused' = excused \ {p}
  BY DEF Edit
<1>3. AgentTypeOK'
  BY <1>1, <1>2 DEF AgentInv, AgentTypeOK
<1>4. AtWork'
  BY <1>1, <1>2 DEF AgentInv, AtWork, AgentTypeOK, Parsed
<1>5. Kept'
  BY <1>1, <1>2, KeepsItself DEF AgentInv, Kept, Writing
<1> QED
  BY <1>3, <1>4, <1>5 DEF AgentInv

\* A step of a command that leaves the configurations alone and works on nothing
\* afterwards.
LEMMA RestKeeps ==
  ASSUME AgentInv, UNCHANGED <<config, tmp, written, excused>>, command.pc # "write",
         command' \in AgentCommand, command'.pc \notin Working,
         command'.pc # "idle" => command'.args.does # "none"
  PROVE  AgentInv'
<1>1. AgentTypeOK'
  BY DEF AgentInv, AgentTypeOK
<1>2. AtWork'
  BY DEF AtWork, Working
<1>3. Kept'
  BY DEF AgentInv, Kept, Writing
<1> QED
  BY <1>1, <1>2, <1>3 DEF AgentInv

\* A command that is done with an agent goes to the next.
LEMMA NextTargetIs ==
  ASSUME AgentInv, command.targets # <<>>
  PROVE  /\ NextTarget \in AgentCommand /\ NextTarget.pc = "next" /\ NextTarget.args = command.args
<1>1. Tail(command.targets) \in Seq(Range(Agents))
  BY DEF AgentInv, AgentTypeOK, AgentCommand
<1> QED
  BY <1>1, Kinds DEF NextTarget, NoCommand, AgentCommand, AgentInv, AgentTypeOK

\* A command that begins works on nothing yet.
LEMMA BeginKeeps == ASSUME AgentInv, Begin PROVE AgentInv'
<1>1. PICK args, targets :
        /\ args \in [does : {"install", "uninstall"}, project : Projects \cup {0}, force : BOOLEAN]
        /\ targets \in {Agents} \cup {<<a>> : a \in Range(Agents)}
        /\ command' = [NoCommand EXCEPT !.pc = "next", !.args = args, !.targets = targets]
  BY DEF Begin, NoArgs
<1>2. targets \in Seq(Range(Agents))
  <2>1. CASE targets = Agents
    BY <2>1, AgentAssumption
  <2>2. CASE \E a \in Range(Agents) : targets = <<a>>
    BY <2>2
  <2> QED
    BY <1>1, <2>1, <2>2
<1>3. command' \in AgentCommand /\ command'.pc = "next" /\ command'.args = args
  BY <1>1, <1>2, Kinds DEF NoCommand, AgentCommand
<1> QED
  BY <1>1, <1>3, RestKeeps DEF Begin, Working

\* What is read is what others wrote last, since nothing is being written.
LEMMA ReadConfigKeeps == ASSUME AgentInv, ReadConfig PROVE AgentInv'
<1> PICK p : p = ConfigPath(Head(command.targets))
  OBVIOUS
<1>1. /\ command \in AgentCommand /\ command.pc = "next" /\ command.targets # <<>>
      /\ command.args.does \in {"install", "uninstall"}
      /\ UNCHANGED <<config, tmp, written, excused>>
  BY DEF ReadConfig, AgentInv, AgentTypeOK, AgentCommand
<1>2. CASE command' = NextTarget
  BY <1>1, <1>2, NextTargetIs, RestKeeps DEF Working
<1>3. CASE command' = [command EXCEPT !.pc = command.args.does, !.place = p, !.read = config[p]]
  <2>1. p \in Places
    <3>1. Head(command.targets) \in Range(Agents)
      BY <1>1 DEF AgentCommand
    <3> QED
      BY <3>1 DEF ConfigPath, Places
  <2>2. /\ command' \in AgentCommand /\ command'.pc \in {"install", "uninstall"}
        /\ command'.place = p /\ command'.read = config[p]
        /\ command'.targets = command.targets /\ command'.args = command.args
    BY <1>1, <1>3, <2>1 DEF AgentInv, AgentTypeOK, AgentCommand, Working
  <2>3. p \in excused \/ Keeps(config[p], written[p])
    BY <1>1, <2>1 DEF AgentInv, Kept, Writing
  <2>4. AgentTypeOK'
    BY <1>1, <2>1, <2>2 DEF AgentInv, AgentTypeOK
  <2>5. AtWork'
    BY <1>1, <2>2, <2>3 DEF AtWork
  <2>6. Kept'
    BY <1>1, <2>2 DEF AgentInv, Kept, Writing
  <2> QED
    BY <2>4, <2>5, <2>6 DEF AgentInv
<1> QED
  BY <1>2, <1>3 DEF ReadConfig

\* A step of a command that goes on working on the same configuration, and may
\* write to its temporary file.
LEMMA WorkKeeps ==
  ASSUME AgentInv, NEW pc \in {"tmp", "rename"}, NEW d \in Config,
         UNCHANGED <<config, written, excused>>, command.pc \in {"install", "tmp"},
         command' = [command EXCEPT !.pc = pc], tmp' = [tmp EXCEPT ![command.place] = d],
         Parsed \in IsJson,
         pc = "rename" => d = WithEntry(Parsed, [project |-> command.args.project])
  PROVE  AgentInv'
<1>1. /\ command' \in AgentCommand /\ command'.pc = pc /\ command.place \in Places
      /\ command'.place = command.place /\ command'.read = command.read /\ command'.args = command.args
      /\ command'.targets = command.targets
      /\ command.targets # <<>> /\ command.args.does # "none"
  BY DEF AgentInv, AgentTypeOK, AgentCommand, Working
<1>2. AgentTypeOK'
  BY <1>1 DEF AgentInv, AgentTypeOK
<1>3. Parsed' = Parsed
  BY <1>1 DEF Parsed
<1>4. tmp'[command.place] = d
  BY <1>1 DEF AgentInv, AgentTypeOK
<1>5. AtWork'
  BY <1>1, <1>3, <1>4 DEF AgentInv, AtWork, Working
<1>6. Kept'
  BY <1>1 DEF AgentInv, Kept, Writing
<1> QED
  BY <1>2, <1>5, <1>6 DEF AgentInv

\* install_for_agent leaves the configuration alone, or begins a temporary file.
LEMMA InstallForAgentKeeps == ASSUME AgentInv, InstallForAgent PROVE AgentInv'
<1>1. UNCHANGED <<config, written, excused>> /\ command.pc = "install"
  BY DEF InstallForAgent
<1>2. CASE (command' = NextTarget \/ command' = NoCommand) /\ tmp' = tmp
  <2>1. command.targets # <<>> /\ command.args.does # "none"
    BY <1>1 DEF AgentInv, AgentTypeOK, Working
  <2>2. /\ command' \in AgentCommand /\ command'.pc \notin Working
        /\ command'.pc # "idle" => command'.args.does # "none"
    BY <1>2, <2>1, NextTargetIs, NoCommandIs DEF Working
  <2> QED
    BY <1>1, <1>2, <2>2, RestKeeps
<1>3. CASE /\ Parsed.is = "json"
           /\ tmp' = [tmp EXCEPT ![command.place] = Truncated]
           /\ command' = [command EXCEPT !.pc = "tmp"]
  <2>1. Parsed \in IsJson
    BY <1>3, Kinds DEF Parsed, Json, IsJson, Entry, NoEntry, AgentInv, AgentTypeOK, AgentCommand
  <2>2. Truncated \in Config
    BY DEF Truncated, Broken, Config, IsText
  <2> QED
    BY <1>1, <1>3, <2>1, <2>2, WorkKeeps
<1> QED
  BY <1>1, <1>2, <1>3 DEF InstallForAgent

\* The temporary file has what was read, and the entry.
LEMMA WriteTmpKeeps == ASSUME AgentInv, WriteTmp PROVE AgentInv'
<1>1. command.pc = "tmp" /\ Parsed \in IsJson /\ command.args.project \in Projects \cup {0}
  BY DEF WriteTmp, AgentInv, AtWork, AgentTypeOK, AgentCommand
<1>2. WithEntry(Parsed, [project |-> command.args.project]) \in Config
  BY <1>1, EntriesKeep DEF Config
<1> QED
  BY <1>1, <1>2, WorkKeeps DEF WriteTmp

\* A configuration that is written when the command is done with it keeps what
\* the one that was read kept.
LEMMA WrittenKeeps ==
  ASSUME AgentInv, NEW p \in Places, p = command.place, NEW d \in IsJson,
         command.pc \in {"rename", "write"},
         command.read \in IsJson \/ command.read = Absent, d.others = OthersOf(command.read),
         config' = [config EXCEPT ![p] = d], tmp' \in [Places -> Config],
         UNCHANGED <<written, excused>>, command' = NextTarget
  PROVE  AgentInv'
<1>1. /\ command.targets # <<>> /\ command.args.does # "none"
      /\ command.read \in Config /\ written[p] \in Config
      /\ p \in excused \/ Keeps(command.read, written[p])
  BY DEF AgentInv, AgentTypeOK, AtWork, Working, AgentCommand
<1>2. command' \in AgentCommand /\ command'.pc = "next" /\ command'.args = command.args
  BY <1>1, NextTargetIs
<1>3. AgentTypeOK'
  BY <1>1, <1>2 DEF AgentInv, AgentTypeOK, Working, Config
<1>4. AtWork'
  BY <1>2 DEF AtWork, Working
<1>5. p \in excused \/ Keeps(d, written[p])
  BY <1>1, RewritingKeeps
<1>6. /\ config'[p] = d
      /\ \A q \in Places : q # p => config'[q] = config[q] /\ ~Writing(q)
  BY DEF AgentInv, AgentTypeOK, Writing
<1>7. Kept'
  BY <1>5, <1>6 DEF AgentInv, Kept
<1> QED
  BY <1>3, <1>4, <1>7 DEF AgentInv

\* What is renamed is what was read, with the entry.
LEMMA RenameTmpKeeps == ASSUME AgentInv, RenameTmp PROVE AgentInv'
<1> PICK p, d : p = command.place /\ d = tmp[p]
  OBVIOUS
<1>1. /\ command.pc = "rename" /\ p \in Places /\ Parsed \in IsJson
      /\ d = WithEntry(Parsed, [project |-> command.args.project])
      /\ command.args.project \in Projects \cup {0}
  BY DEF RenameTmp, AgentInv, AgentTypeOK, AtWork, Working, AgentCommand
<1>2. d \in IsJson /\ d.others = Parsed.others
  BY <1>1, EntriesKeep
<1>3. /\ command.read \in IsJson \/ command.read = Absent
      /\ d.others = OthersOf(command.read)
  BY <1>1, <1>2, Kinds DEF Parsed, Json
<1>4. tmp' \in [Places -> Config]
  BY Kinds DEF RenameTmp, AgentInv, AgentTypeOK
<1> QED
  BY <1>1, <1>2, <1>3, <1>4, WrittenKeeps DEF RenameTmp

\* Only where it writes may an uninstall leave less than was there.
LEMMA UninstallForAgentKeeps == ASSUME AgentInv, UninstallForAgent PROVE AgentInv'
<1>1. /\ command.pc = "uninstall" /\ command \in AgentCommand /\ command.place \in Places
      /\ command.targets # <<>> /\ command.args.does # "none"
      /\ UNCHANGED <<tmp, written, excused>>
  BY DEF UninstallForAgent, AgentInv, AgentTypeOK, Working
<1>2. CASE HasEntry(command.read)
  <2>1. /\ config' = [config EXCEPT ![command.place] = Truncated]
        /\ command' = [command EXCEPT !.pc = "write"]
    BY <1>2 DEF UninstallForAgent
  <2>2. /\ command' \in AgentCommand /\ command'.pc = "write" /\ command'.place = command.place
        /\ command'.read = command.read /\ command'.args = command.args
        /\ command'.targets = command.targets
    BY <1>1, <2>1 DEF AgentCommand, Working
  <2>3. Truncated \in Config
    BY DEF Truncated, Broken, Config, IsText
  <2>4. AgentTypeOK'
    BY <1>1, <2>1, <2>2, <2>3 DEF AgentInv, AgentTypeOK
  <2>5. command.read \in IsJson
    BY <1>1, <1>2, Kinds DEF HasEntry, AgentCommand
  <2>6. AtWork'
    BY <1>1, <2>2, <2>5 DEF AgentInv, AtWork, Working
  <2>7. \A q \in Places : q # command.place => config'[q] = config[q]
    BY <1>1, <2>1 DEF AgentInv, AgentTypeOK
  <2>8. ASSUME NEW q \in Places, q # command.place, q \notin excused
        PROVE  Keeps(config'[q], written'[q])
    <3>1. Keeps(config[q], written[q])
      BY <1>1, <2>8 DEF AgentInv, Kept, Writing
    <3> QED
      BY <1>1, <2>7, <2>8, <3>1
  <2>9. \A q \in Places : q \in excused' \/ Writing(q)' \/ Keeps(config'[q], written'[q])
    <3> SUFFICES ASSUME NEW q \in Places
                 PROVE  q \in excused' \/ Writing(q)' \/ Keeps(config'[q], written'[q])
      OBVIOUS
    <3>1. CASE q = command.place
      BY <2>2, <3>1 DEF Writing
    <3>2. CASE q # command.place
      BY <1>1, <2>8, <3>2
    <3> QED
      BY <3>1, <3>2
  <2>10. Kept'
    BY <2>9 DEF Kept
  <2> QED
    BY <2>4, <2>6, <2>10 DEF AgentInv
<1>3. CASE ~HasEntry(command.read)
  <2>1. command' = NextTarget /\ config' = config
    BY <1>3 DEF UninstallForAgent
  <2> QED
    BY <1>1, <2>1, NextTargetIs, RestKeeps DEF Working
<1> QED
  BY <1>2, <1>3

\* What an uninstall writes is what was read, without the entry.
LEMMA WriteConfigKeeps == ASSUME AgentInv, WriteConfig PROVE AgentInv'
<1> PICK p, d : p = command.place /\ d = WithoutEntry(command.read)
  OBVIOUS
<1>1. command.pc = "write" /\ p \in Places /\ command.read \in IsJson
  BY DEF WriteConfig, AgentInv, AgentTypeOK, AtWork, Working
<1>2. d \in IsJson /\ d.others = OthersOf(command.read)
  BY <1>1, EntriesKeep, Kinds
<1>3. tmp' \in [Places -> Config]
  BY DEF WriteConfig, AgentInv, AgentTypeOK
<1> QED
  BY <1>1, <1>2, <1>3, WrittenKeeps DEF WriteConfig

\* Skill files are none of the configurations.
LEMMA DocsKeep ==
  ASSUME AgentInv, NEW d \in Docs, EditDoc(d) \/ BeginDoc(d) \/ WriteDoc(d) PROVE AgentInv'
<1>1. CASE EditDoc(d)
  BY <1>1 DEF EditDoc, AgentInv, AgentTypeOK, AtWork, Kept, Writing, Parsed
<1>2. ASSUME NEW pc \in {"next", "doc"}, command' = [command EXCEPT !.pc = pc],
             command.pc \in {"next", "doc"}, UNCHANGED <<config, tmp, written, excused>>
      PROVE  AgentInv'
  <2>1. command' \in AgentCommand /\ command'.pc = pc /\ command'.args.does # "none"
    BY <1>2 DEF AgentInv, AgentTypeOK, AgentCommand
  <2> QED
    BY <1>2, <2>1, RestKeeps DEF Working
<1>3. CASE BeginDoc(d) \/ WriteDoc(d)
  BY <1>2, <1>3 DEF BeginDoc, WriteDoc
<1> QED
  BY <1>1, <1>3

\* A command that stops in the middle of a write is excused there.
LEMMA StopKeeps == ASSUME AgentInv, Stop PROVE AgentInv'
<1>1. /\ command' = NoCommand /\ UNCHANGED <<config, tmp, written>>
      /\ excused' = IF command.pc = "write" THEN excused \cup {command.place} ELSE excused
  BY DEF Stop
<1>2. AgentTypeOK'
  BY <1>1, NoCommandIs DEF AgentInv, AgentTypeOK
<1>3. AtWork'
  BY <1>1, NoCommandIs DEF AtWork, Working
<1>4. Kept'
  BY <1>1 DEF AgentInv, Kept, Writing
<1> QED
  BY <1>2, <1>3, <1>4 DEF AgentInv

\* Every step keeps the invariant.
LEMMA AgentNextKeeps == AgentInv /\ [AgentNext]_agentVars => AgentInv'
<1> SUFFICES ASSUME AgentInv, [AgentNext]_agentVars PROVE AgentInv'
  OBVIOUS
<1>1. CASE UNCHANGED agentVars
  BY <1>1 DEF agentVars, AgentInv, AgentTypeOK, AtWork, Kept, Writing, Parsed
<1> QED
  BY <1>1, EditKeeps, DocsKeep, BeginKeeps, ReadConfigKeeps, InstallForAgentKeeps, WriteTmpKeeps,
     RenameTmpKeeps, UninstallForAgentKeeps, WriteConfigKeeps, StopKeeps DEF AgentNext

\* Whatever is installed and uninstalled, and wherever that is stopped, what
\* agents and their users wrote stays in their configurations, for any agents,
\* projects and settings and however often they write.
THEOREM OthersSurvive == AgentSpec => []OtherServersSurvive
<1>1. AgentInv => OtherServersSurvive
  BY DEF AgentInv, Kept, Keeps, OtherServersSurvive
<1> QED
  BY <1>1, AgentInitHolds, AgentNextKeeps, PTL DEF AgentSpec

-----------------------------------------------------------------------------
(***************************************************************************)
(* Upgrade.  The invariant says what a command has found out by each of    *)
(* its stages: that the version it goes on with is newer than the one it   *)
(* runs as, or was named; that what it calls listed came whole; and that   *)
(* what it has extracted is a binary.                                      *)
(***************************************************************************)

Checked == {"download", "verify", "extract", "replace"}

UpgradeCommand ==
  [pc : {"idle", "latest", "check", "download", "verify", "extract", "replace", "chmod"},
   check : BOOLEAN, named : BOOLEAN, current : Versions \cup {0}, target : Tags,
   build : Nat, damaged : BOOLEAN, listed : BOOLEAN,
   bytes : {"whole", "damaged", "nothing"},
   outcome : {"none", "told", "error", "up to date", "updated"}]

UpgradeTypeOK ==
  /\ latest \in Tags
  /\ tarball \in [Tags -> Nat]
  /\ builds \in Nat
  /\ upgrade \in [Upgrades -> UpgradeCommand]
  /\ exe.version \in Versions

\* A command that goes on has a newer version, or one that was named.
Newer(c) == c.pc \in Checked => c.named \/ c.current < c.target

\* What a checksum was compared with came whole, and was a binary.
UpgradeSound(c) ==
  /\ c.pc \in {"extract", "replace"} => (c.listed => ~c.damaged)
  /\ c.pc = "replace" => /\ c.bytes \in {"whole", "damaged"}
                         /\ c.listed => c.bytes = "whole"

UpgradeInv ==
  /\ UpgradeTypeOK
  /\ \A u \in Upgrades : Newer(upgrade[u]) /\ UpgradeSound(upgrade[u])
  /\ OnlyVerifiedReplaces

\* The first version is one, and every version is a tag.
LEMMA VersionsAreNumbers ==
  Versions \subseteq Nat /\ Tags \subseteq Nat /\ 1 \in Versions /\ 0 \in Tags /\ Versions \subseteq Tags
BY UpgradeAssumption DEF Versions, Tags

\* A command that rests has found out nothing.
LEMMA RestingIsFine ==
  ASSUME NEW how \in {"none", "told", "error", "up to date", "updated"}
  PROVE  Resting(how) \in UpgradeCommand /\ Newer(Resting(how)) /\ UpgradeSound(Resting(how))
BY VersionsAreNumbers DEF Resting, UpgradeCommand, Newer, UpgradeSound, Checked

\* A tarball holds a binary, an empty one or none.
LEMMA HoldsBytes == \A n : Holds(n) \in {"whole", "empty", "nothing"}
BY UpgradeAssumption DEF Holds

\* The installed binary is the one that was shipped.
LEMMA UpgradeInitHolds == UpgradeInit => UpgradeInv
<1> SUFFICES ASSUME UpgradeInit PROVE UpgradeInv
  OBVIOUS
<1>1. Resting("none") \in UpgradeCommand /\ Newer(Resting("none")) /\ UpgradeSound(Resting("none"))
  BY RestingIsFine
<1>2. UpgradeTypeOK
  BY <1>1, VersionsAreNumbers DEF UpgradeInit, UpgradeTypeOK
<1>3. OnlyVerifiedReplaces
  BY DEF UpgradeInit, OnlyVerifiedReplaces
<1> QED
  BY <1>1, <1>2, <1>3 DEF UpgradeInit, UpgradeInv

\* One step per action; those of a command only replace its record.
LEMMA UpgradeNextKeeps == UpgradeInv /\ [UpgradeNext]_upgradeVars => UpgradeInv'
<1> SUFFICES ASSUME UpgradeInv, [UpgradeNext]_upgradeVars PROVE UpgradeInv'
  OBVIOUS
<1> USE VersionsAreNumbers
<1>1. CASE UNCHANGED upgradeVars
  BY <1>1 DEF upgradeVars, UpgradeInv, UpgradeTypeOK, OnlyVerifiedReplaces
<1>2. CASE PublishTag
  BY <1>2 DEF PublishTag, UpgradeInv, UpgradeTypeOK, OnlyVerifiedReplaces
<1>3. ASSUME NEW t \in Tags, UploadTarball(t) \/ UploadSums(t) PROVE UpgradeInv'
  BY <1>3 DEF UploadTarball, UploadSums, UpgradeInv, UpgradeTypeOK, OnlyVerifiedReplaces
<1>4. ASSUME NEW u \in Upgrades, NEW c \in UpgradeCommand, Newer(c), UpgradeSound(c),
             upgrade' = [upgrade EXCEPT ![u] = c],
             UNCHANGED <<builds, latest, tarball, sums, exe>>
      PROVE  UpgradeInv'
  BY <1>4 DEF UpgradeInv, UpgradeTypeOK, OnlyVerifiedReplaces
<1>5. ASSUME NEW u \in Upgrades, StartUpgrade(u) PROVE UpgradeInv'
  <2>1. PICK check \in BOOLEAN :
          LET it == [Resting("none") EXCEPT !.check = check, !.current = exe.version]
          IN \/ upgrade' = [upgrade EXCEPT ![u] = [it EXCEPT !.pc = "latest"]]
             \/ \E t \in Tags : upgrade' = [upgrade EXCEPT ![u] =
                  [it EXCEPT !.pc = "check", !.named = TRUE, !.target = t]]
    BY <1>5 DEF StartUpgrade
  <2> DEFINE it == [Resting("none") EXCEPT !.check = check, !.current = exe.version]
  <2>2. exe.version \in Versions
    BY DEF UpgradeInv, UpgradeTypeOK
  <2>3. /\ [it EXCEPT !.pc = "latest"] \in UpgradeCommand
        /\ Newer([it EXCEPT !.pc = "latest"]) /\ UpgradeSound([it EXCEPT !.pc = "latest"])
    BY <2>2 DEF Resting, UpgradeCommand, Newer, UpgradeSound, Checked
  <2>4. \A t \in Tags :
          LET c == [it EXCEPT !.pc = "check", !.named = TRUE, !.target = t]
          IN c \in UpgradeCommand /\ Newer(c) /\ UpgradeSound(c)
    BY <2>2 DEF Resting, UpgradeCommand, Newer, UpgradeSound, Checked
  <2> QED
    BY <1>4, <1>5, <2>1, <2>3, <2>4 DEF StartUpgrade
<1>6. ASSUME NEW u \in Upgrades, UNCHANGED <<builds, latest, tarball, sums, exe>>,
             NEW how \in {"none", "told", "error", "up to date", "updated"}, Ended(u, how)
      PROVE  UpgradeInv'
  BY <1>4, <1>6, RestingIsFine DEF Ended
<1>7. ASSUME NEW u \in Upgrades, FetchLatest(u) PROVE UpgradeInv'
  <2> DEFINE c == [upgrade[u] EXCEPT !.pc = "check", !.target = latest]
  <2>1. c \in UpgradeCommand /\ Newer(c) /\ UpgradeSound(c)
    BY DEF UpgradeInv, UpgradeTypeOK, UpgradeCommand, Newer, UpgradeSound, Checked
  <2>2. CASE upgrade' = [upgrade EXCEPT ![u].pc = "check", ![u].target = latest]
    <3>1. upgrade' = [upgrade EXCEPT ![u] = c]
      BY <2>2 DEF UpgradeInv, UpgradeTypeOK, UpgradeCommand
    <3> QED
      BY <1>4, <1>7, <2>1, <3>1 DEF FetchLatest
  <2> QED
    BY <1>6, <1>7, <2>2 DEF FetchLatest
<1>8. ASSUME NEW u \in Upgrades, Check(u) PROVE UpgradeInv'
  <2> DEFINE c == [upgrade[u] EXCEPT !.pc = "download"]
  <2>1. CASE /\ upgrade' = [upgrade EXCEPT ![u].pc = "download"]
             /\ upgrade[u].named \/ IsUpdateAvailable(upgrade[u].current, upgrade[u].target)
    <3>1. c \in UpgradeCommand /\ Newer(c) /\ UpgradeSound(c)
      BY <2>1 DEF UpgradeInv, UpgradeTypeOK, UpgradeCommand, Newer, UpgradeSound, Checked, IsUpdateAvailable
    <3>2. upgrade' = [upgrade EXCEPT ![u] = c]
      BY <2>1 DEF UpgradeInv, UpgradeTypeOK, UpgradeCommand
    <3> QED
      BY <1>4, <1>8, <3>1, <3>2 DEF Check
  <2>2. \/ Ended(u, "error") \/ Ended(u, "told") \/ Ended(u, "up to date")
        \/ /\ upgrade' = [upgrade EXCEPT ![u].pc = "download"]
           /\ upgrade[u].named \/ IsUpdateAvailable(upgrade[u].current, upgrade[u].target)
    BY <1>8 DEF Check, UpgradeInv, UpgradeTypeOK, UpgradeCommand
  <2> QED
    BY <1>6, <1>8, <2>1, <2>2 DEF Check
<1>9. ASSUME NEW u \in Upgrades, DownloadBinary(u) PROVE UpgradeInv'
  <2>1. ASSUME NEW damaged \in BOOLEAN,
               upgrade' = [upgrade EXCEPT ![u].pc = "verify",
                             ![u].build = tarball[upgrade[u].target], ![u].damaged = damaged]
        PROVE  UpgradeInv'
    <3> DEFINE c == [upgrade[u] EXCEPT !.pc = "verify", !.build = tarball[upgrade[u].target],
                                       !.damaged = damaged]
    <3>1. c \in UpgradeCommand /\ Newer(c) /\ UpgradeSound(c)
      BY <1>9 DEF DownloadBinary, UpgradeInv, UpgradeTypeOK, UpgradeCommand, Newer, UpgradeSound, Checked
    <3>2. upgrade' = [upgrade EXCEPT ![u] = c]
      BY <2>1 DEF UpgradeInv, UpgradeTypeOK, UpgradeCommand
    <3> QED
      BY <1>4, <1>9, <3>1, <3>2 DEF DownloadBinary
  <2> QED
    BY <1>6, <1>9, <2>1 DEF DownloadBinary
<1>10. ASSUME NEW u \in Upgrades, Verify(u) PROVE UpgradeInv'
  <2>1. ASSUME NEW listed \in BOOLEAN, Verified(u, listed), listed => ~upgrade[u].damaged
        PROVE  UpgradeInv'
    <3> DEFINE c == [upgrade[u] EXCEPT !.pc = "extract", !.listed = listed]
    <3>1. c \in UpgradeCommand /\ Newer(c) /\ UpgradeSound(c)
      BY <1>10, <2>1 DEF Verify, UpgradeInv, UpgradeTypeOK, UpgradeCommand, Newer, UpgradeSound, Checked
    <3>2. upgrade' = [upgrade EXCEPT ![u] = c]
      BY <2>1 DEF Verified, UpgradeInv, UpgradeTypeOK, UpgradeCommand
    <3> QED
      BY <1>4, <1>10, <3>1, <3>2 DEF Verify
  <2> QED
    BY <1>6, <1>10, <2>1 DEF Verify
<1>11. ASSUME NEW u \in Upgrades, Extract(u) PROVE UpgradeInv'
  <2>1. ASSUME NEW bytes \in {"whole", "damaged"}, ~upgrade[u].damaged => bytes = "whole",
               upgrade' = [upgrade EXCEPT ![u].pc = "replace", ![u].bytes = bytes]
        PROVE  UpgradeInv'
    <3> DEFINE c == [upgrade[u] EXCEPT !.pc = "replace", !.bytes = bytes]
    <3>1. c \in UpgradeCommand /\ Newer(c) /\ UpgradeSound(c)
      BY <1>11, <2>1 DEF Extract, UpgradeInv, UpgradeTypeOK, UpgradeCommand, Newer, UpgradeSound, Checked
    <3>2. upgrade' = [upgrade EXCEPT ![u] = c]
      BY <2>1 DEF UpgradeInv, UpgradeTypeOK, UpgradeCommand
    <3> QED
      BY <1>4, <1>11, <3>1, <3>2 DEF Extract
  <2> QED
    BY <1>6, <1>11, <2>1, HoldsBytes DEF Extract
<1>12. ASSUME NEW u \in Upgrades, SelfReplace(u) PROVE UpgradeInv'
  <2>1. CASE Ended(u, "error") /\ UNCHANGED exe
    BY <1>6, <1>12, <2>1 DEF SelfReplace
  <2>2. CASE ~(Ended(u, "error") /\ UNCHANGED exe)
    <3> DEFINE c == [upgrade[u] EXCEPT !.pc = "chmod"]
    <3>1. PICK v \in IF upgrade[u].target = 0 THEN Versions ELSE {upgrade[u].target} :
            exe' = [version |-> v, bytes |-> upgrade[u].bytes, named |-> upgrade[u].named,
                    over |-> upgrade[u].current, listed |-> upgrade[u].listed]
      BY <1>12, <2>2 DEF SelfReplace
    <3>2. upgrade[u] \in UpgradeCommand /\ Newer(upgrade[u]) /\ UpgradeSound(upgrade[u]) /\ upgrade[u].pc = "replace"
      BY <1>12 DEF SelfReplace, UpgradeInv, UpgradeTypeOK
    <3>3. /\ upgrade[u].target \in 0 .. MaxVersion /\ upgrade[u].current \in Nat
          /\ upgrade[u].named \/ upgrade[u].current < upgrade[u].target
      BY <3>2 DEF Newer, Checked, UpgradeCommand, Tags
    <3>4. v \in Versions
      <4>1. CASE upgrade[u].target = 0
        BY <3>1, <4>1
      <4>2. CASE upgrade[u].target # 0
        BY <3>1, <3>3, <4>2, UpgradeAssumption DEF Versions
      <4> QED
        BY <4>1, <4>2
    <3>5. upgrade[u].named \/ v > upgrade[u].current
      <4>1. CASE upgrade[u].target = 0
        BY <3>3, <4>1
      <4>2. CASE upgrade[u].target # 0
        BY <3>1, <3>3, <4>2
      <4> QED
        BY <4>1, <4>2
    <3>6. OnlyVerifiedReplaces'
      BY <3>1, <3>2, <3>5 DEF UpgradeSound, OnlyVerifiedReplaces, UpgradeCommand
    <3>7. c \in UpgradeCommand /\ Newer(c) /\ UpgradeSound(c)
      BY <3>2 DEF UpgradeCommand, Newer, UpgradeSound, Checked
    <3>8. upgrade' = [upgrade EXCEPT ![u] = c]
      BY <1>12, <2>2, <3>2 DEF SelfReplace, UpgradeInv, UpgradeTypeOK, UpgradeCommand
    <3> QED
      BY <1>12, <3>1, <3>4, <3>6, <3>7, <3>8 DEF SelfReplace, UpgradeInv, UpgradeTypeOK
  <2> QED
    BY <2>1, <2>2
<1>13. ASSUME NEW u \in Upgrades, Chmod(u) PROVE UpgradeInv'
  BY <1>6, <1>13 DEF Chmod
<1> QED
  BY <1>1, <1>2, <1>3, <1>5, <1>7, <1>8, <1>9, <1>10, <1>11, <1>12, <1>13 DEF UpgradeNext

\* Whatever is published when and however many commands run, what replaces the
\* binary is a binary, newer than the one that asked unless it was named, and
\* whole if its checksum was listed.
THEOREM OnlyVerified == UpgradeSpec => []OnlyVerifiedReplaces
<1>1. UpgradeInit => UpgradeInv
  BY UpgradeInitHolds
<1>2. UpgradeInv /\ [UpgradeNext]_upgradeVars => UpgradeInv'
  BY UpgradeNextKeeps
<1>3. UpgradeInv => OnlyVerifiedReplaces
  BY DEF UpgradeInv
<1> QED
  BY <1>1, <1>2, <1>3, PTL DEF UpgradeSpec

-----------------------------------------------------------------------------
(***************************************************************************)
(* ModelCache.  A file is covered when it is whole, or when a process that *)
(* writes it has all to write that is missing; the invariant is that the   *)
(* names of the cache are only of covered files, except for what an        *)
(* interrupted download left under a temporary name that nobody is about   *)
(* to rename.                                                              *)
(***************************************************************************)

Loader ==
  [pc : {"idle", "fetch", "create", "write", "rename", "remove", "load", "open", "ready"},
   part : Parts, file : Numbers \cup {0}, at : Nat, read : Seq(SUBSET Whole)]

\* A process has a file open while it writes, and no longer.
OpenWhileWriting(l) ==
  IF l.pc = "write" THEN l.file \in Numbers /\ l.at \in Whole ELSE l.file = 0

CacheTypeOK ==
  /\ dir \in [Names -> Numbers \cup {0}]
  /\ disk \in [Numbers -> SUBSET Whole]
  /\ loader \in [Process -> Loader]
  /\ met \subseteq Process
  /\ disturbed \in BOOLEAN
  /\ \A p \in Process : OpenWhileWriting(loader[p])

Covers(p, i) ==
  loader[p].pc = "write" /\ loader[p].file = i /\ Whole \ (loader[p].at .. Pieces) \subseteq disk[i]

Covered(i) == disk[i] = Whole \/ \E p \in Process : Covers(p, i)

\* Nobody is about to rename the temporary file of a part.
Inactive(part) ==
  \A p \in Process : loader[p].part = part => loader[p].pc \notin {"write", "rename"}

NamesDiffer == \A m, n \in Names : dir[m] = dir[n] /\ dir[m] # 0 => m = n

TmpIsCovered ==
  \A part \in Parts : dir[Tmp(part)] # 0 => Covered(dir[Tmp(part)]) \/ Inactive(part)

FinalIsCovered == \A part \in Parts : dir[Final(part)] # 0 => Covered(dir[Final(part)])

\* Downloads that go on at the same time have met.
AllMet == \A p, q \in Process : p # q /\ Downloading(p) /\ Downloading(q) => p \in met

\* Nobody renames the file of a download that has met no other.
OwnFile ==
  \A p \in Process \ met : loader[p].pc = "write" =>
    \A part \in Parts : dir[Final(part)] # loader[p].file

CacheSound == NamesDiffer /\ TmpIsCovered /\ FinalIsCovered /\ AllMet /\ OwnFile

CacheInv == CacheTypeOK /\ (~disturbed => CacheSound)

\* The names of the cache are a temporary and a final one for each part.
LEMMA NamesAre ==
  /\ \A part \in Parts : Tmp(part) \in Names /\ Final(part) \in Names
  /\ \A s, t \in Parts : Tmp(s) # Final(t) /\ (s # t => Tmp(s) # Tmp(t) /\ Final(s) # Final(t))
  /\ \A n \in Names : \E part \in Parts : n \in {Tmp(part), Final(part)}
BY DEF Tmp, Final, Names, Parts

\* An image is no greater than the set it is of.
LEMMA ImageIsFinite ==
  ASSUME NEW S, IsFiniteSet(S), NEW f
  PROVE  LET T == {f[x] : x \in S} IN IsFiniteSet(T) /\ Cardinality(T) <= Cardinality(S)
<1> DEFINE T == {f[x] : x \in S}
           g == [x \in S |-> f[x]]
<1>1. g \in Surjection(S, T)
  BY DEF Surjection
<1> QED
  BY <1>1, FS_Surjection

\* There are finitely many names and processes.
LEMMA NamesAndProcesses ==
  IsFiniteSet(Names) /\ Cardinality(Names) \in Nat /\ Cardinality(Process) \in Nat
<1>1. IsFiniteSet({1}) /\ IsFiniteSet({"tmp"})
  BY FS_Singleton
<1>2. IsFiniteSet({1} \cup {2}) /\ IsFiniteSet({"tmp"} \cup {"final"})
  BY <1>1, FS_AddElement
<1>3. Parts = {1} \cup {2} /\ {"tmp", "final"} = {"tmp"} \cup {"final"}
  BY DEF Parts
<1> QED
  BY <1>2, <1>3, FS_Product, FS_CardinalityType, CacheAssumption DEF Names

\* There is always a number that no file has.
LEMMA NewFileIsNew == NewFile \in Numbers /\ NewFile \notin Files
<1> DEFINE file  == [p \in Process |-> loader[p].file]
           named == {dir[n] : n \in Names}
           open  == {file[p] : p \in Process}
           k     == Cardinality(Names) + Cardinality(Process)
<1>1. IsFiniteSet(named) /\ Cardinality(named) <= Cardinality(Names)
  BY NamesAndProcesses, ImageIsFinite
<1>2. IsFiniteSet(open) /\ Cardinality(open) <= Cardinality(Process)
  <2> HIDE DEF file
  <2> QED
    BY CacheAssumption, ImageIsFinite
<1>3. Files = named \cup open
  BY DEF Files
<1> HIDE DEF named, open
<1>4. IsFiniteSet(Files) /\ Cardinality(Files) <= Cardinality(named) + Cardinality(open)
  <2>1. /\ IsFiniteSet(named \cup open)
        /\ Cardinality(named \cup open) = Cardinality(named) + Cardinality(open) - Cardinality(named \cap open)
    BY <1>1, <1>2, FS_Union
  <2>2. /\ Cardinality(named) \in Nat /\ Cardinality(open) \in Nat
        /\ Cardinality(named \cap open) \in Nat
    BY <1>1, <1>2, FS_Intersection, FS_CardinalityType
  <2> QED
    BY <1>3, <2>1, <2>2
<1>5. k \in Nat /\ Numbers = 1 .. k + 1
  BY NamesAndProcesses DEF Numbers
<1>6. Cardinality(Numbers) = k + 1
  BY <1>5, FS_Interval
<1>7. Cardinality(Files) \in Nat /\ Cardinality(named) \in Nat /\ Cardinality(open) \in Nat
  BY <1>1, <1>2, <1>4, FS_CardinalityType
<1>8. Cardinality(Files) <= k
  BY <1>1, <1>2, <1>4, <1>7, NamesAndProcesses
<1>9. ~(Numbers \subseteq Files)
  BY <1>4, <1>5, <1>6, <1>7, <1>8, FS_Subset
<1> QED
  BY <1>9 DEF NewFile

-----------------------------------------------------------------------------
\* An empty cache satisfies the invariant.
LEMMA CacheInitHolds == CacheInit => CacheInv
<1> SUFFICES ASSUME CacheInit PROVE CacheInv
  OBVIOUS
<1>1. Idle \in Loader /\ OpenWhileWriting(Idle) /\ Idle.pc = "idle"
  BY DEF Idle, Loader, OpenWhileWriting, Parts
<1>2. CacheTypeOK
  BY <1>1 DEF CacheInit, CacheTypeOK
<1>3. CacheSound
  BY <1>1, NamesAre
     DEF CacheInit, CacheSound, NamesDiffer, TmpIsCovered, FinalIsCovered, AllMet, OwnFile, Downloading
<1> QED
  BY <1>2, <1>3 DEF CacheInv

\* A step that changes no file and no name, and of one process only what it does
\* besides writing and renaming.
LEMMA OthersKeep ==
  ASSUME CacheInv, ~disturbed, UNCHANGED <<dir, disk, disturbed>>,
         NEW p \in Process, NEW l \in Loader,
         loader' = [loader EXCEPT ![p] = l],
         loader[p].pc # "write", l.pc \notin {"write", "rename"}, l.file = 0,
         met' \subseteq Process, AllMet', met \ {p} \subseteq met'
  PROVE  CacheInv'
<1>1. CacheTypeOK /\ CacheSound
  BY DEF CacheInv
<1>2. /\ \A q \in Process : q # p => loader'[q] = loader[q]
      /\ loader'[p] = l
  BY <1>1 DEF CacheTypeOK
<1>3. CacheTypeOK'
  BY <1>1, <1>2 DEF CacheTypeOK, OpenWhileWriting
<1>4. \A i : Covered(i) => Covered(i)'
  BY <1>2 DEF Covered, Covers
<1>5. \A part : Inactive(part) => Inactive(part)'
  BY <1>2 DEF Inactive
<1>6. NamesDiffer' /\ TmpIsCovered' /\ FinalIsCovered'
  BY <1>1, <1>4, <1>5 DEF CacheSound, NamesDiffer, TmpIsCovered, FinalIsCovered, Tmp, Final
<1>7. OwnFile'
  BY <1>1, <1>2 DEF CacheSound, OwnFile, Final
<1> QED
  BY <1>3, <1>6, <1>7 DEF CacheInv, CacheSound

\* A process that begins a download meets those that go on.
LEMMA BeginLoadingKeeps ==
  ASSUME CacheInv, ~disturbed, NEW p \in Process, BeginLoading(p) PROVE CacheInv'
<1> DEFINE l == [loader[p] EXCEPT !.pc = IF IsDownloaded THEN "load" ELSE "fetch"]
<1>1. CacheTypeOK /\ CacheSound
  BY DEF CacheInv
<1>2. l \in Loader /\ l.pc \in {"load", "fetch"} /\ l.file = 0 /\ loader' = [loader EXCEPT ![p] = l]
  BY <1>1 DEF BeginLoading, CacheTypeOK, Loader, OpenWhileWriting
<1>3. /\ met' \subseteq Process /\ met \ {p} \subseteq met'
      /\ ~IsDownloaded => \A q \in Process : Downloading(q) => q \in met' /\ p \in met'
  BY <1>1 DEF BeginLoading, CacheTypeOK
<1>4. \A q \in Process : Downloading(q)' => Downloading(q) \/ (q = p /\ ~IsDownloaded)
  BY <1>1, <1>2 DEF Downloading, CacheTypeOK, BeginLoading
<1>5. AllMet'
  BY <1>1, <1>3, <1>4 DEF AllMet, CacheSound, BeginLoading, Downloading
<1> QED
  BY <1>2, <1>3, <1>5, OthersKeep DEF BeginLoading

\* A request changes no file.
LEMMA FetchKeeps ==
  ASSUME CacheInv, ~disturbed, NEW p \in Process, Fetch(p) PROVE CacheInv'
<1> DEFINE l == [loader[p] EXCEPT !.pc = "create"]
<1>1. CacheTypeOK /\ CacheSound
  BY DEF CacheInv
<1>2. l \in Loader /\ l.pc = "create" /\ l.file = 0 /\ loader' = [loader EXCEPT ![p] = l]
  BY <1>1 DEF Fetch, CacheTypeOK, Loader, OpenWhileWriting
<1>3. AllMet'
  BY <1>1, <1>2 DEF AllMet, CacheSound, Downloading, Fetch, CacheTypeOK
<1> QED
  BY <1>1, <1>2, <1>3, OthersKeep DEF Fetch, CacheTypeOK

\* The file a process empties is covered by the process itself, and no final
\* name is of it.
LEMMA CreateTmpKeeps ==
  ASSUME CacheInv, ~disturbed, NEW p \in Process, CreateTmp(p) PROVE CacheInv'
<1>1. CacheTypeOK /\ CacheSound
  BY DEF CacheInv
<1> PICK name, file, l :
      /\ name = Tmp(loader[p].part)
      /\ file = IF dir[name] = 0 THEN NewFile ELSE dir[name]
      /\ l = [loader[p] EXCEPT !.pc = "write", !.file = file, !.at = 1]
  OBVIOUS
<1>2. name \in Names /\ loader[p].part \in Parts /\ file \in Numbers /\ 0 \notin Numbers
  BY <1>1, NamesAre, NewFileIsNew, NamesAndProcesses DEF CacheTypeOK, Loader, Numbers
<1>3. l \in Loader /\ loader' = [loader EXCEPT ![p] = l]
  BY <1>1, <1>2 DEF CreateTmp, CacheTypeOK, Loader
<1>4. /\ \A q \in Process : q # p => loader'[q] = loader[q]
      /\ loader'[p] = l /\ l.pc = "write" /\ l.file = file /\ l.at = 1
      /\ l.part = loader[p].part
  BY <1>1, <1>3 DEF CacheTypeOK, Loader
<1>5. /\ \A n \in Names : n # name => dir'[n] = dir[n]
      /\ dir'[name] = file
      /\ \A i \in Numbers : i # file => disk'[i] = disk[i]
      /\ disk'[file] = {}
  BY <1>1, <1>2 DEF CreateTmp, CacheTypeOK
<1>6. \A n \in Names : n # name => dir[n] # file
  BY <1>1, <1>2, NewFileIsNew DEF CacheSound, NamesDiffer, Files
<1>7. CacheTypeOK'
  <2>1. 1 \in Whole
    BY CacheAssumption DEF Whole
  <2>2. \A q \in Process : OpenWhileWriting(loader'[q])
    BY <1>1, <1>2, <1>4, <2>1 DEF CacheTypeOK, OpenWhileWriting
  <2> QED
    BY <1>1, <1>2, <1>3, <2>2 DEF CreateTmp, CacheTypeOK, OpenWhileWriting
<1>8. \A i \in Numbers \ {file} : Covered(i) => Covered(i)'
  BY <1>4, <1>5 DEF Covered, Covers, CreateTmp
<1>9. Covered(file)'
  <2>1. Covers(p, file)'
    BY <1>4, <1>5 DEF Covers, Whole
  <2> QED
    BY <2>1 DEF Covered
<1>10. NamesDiffer'
  BY <1>1, <1>2, <1>5, <1>6 DEF CacheSound, NamesDiffer
<1>11. ASSUME NEW part \in Parts, dir'[Tmp(part)] # 0
       PROVE  Covered(dir[Tmp(part)])' \/ Inactive(part)'
  <2>1. CASE Tmp(part) = name
    BY <1>5, <1>9, <2>1 DEF Tmp
  <2>2. CASE Tmp(part) # name
    <3>1. part # loader[p].part /\ dir'[Tmp(part)] = dir[Tmp(part)] /\ dir[Tmp(part)] \in Numbers \ {file}
      BY <1>1, <1>5, <1>6, <1>11, <2>2, NamesAre DEF CacheTypeOK
    <3>2. Inactive(part) => Inactive(part)'
      BY <1>4, <3>1 DEF Inactive
    <3> QED
      BY <1>1, <1>8, <1>11, <3>1, <3>2 DEF CacheSound, TmpIsCovered, Tmp
  <2> QED
    BY <2>1, <2>2
<1>12. ASSUME NEW part \in Parts, dir'[Final(part)] # 0
       PROVE  Covered(dir[Final(part)])'
  <2>1. Final(part) # name /\ Final(part) \in Names
    BY <1>2, NamesAre
  <2>2. dir'[Final(part)] = dir[Final(part)] /\ dir[Final(part)] \in Numbers \ {file}
    BY <1>1, <1>5, <1>6, <1>12, <2>1 DEF CacheTypeOK
  <2> QED
    BY <1>1, <1>8, <1>12, <2>2 DEF CacheSound, FinalIsCovered, Final
<1>13. AllMet'
  BY <1>1, <1>4 DEF CacheSound, AllMet, Downloading, CreateTmp
<1>14. ASSUME NEW q \in Process, q \notin met', loader'[q].pc = "write", NEW part \in Parts
       PROVE  dir'[Final(part)] # loader'[q].file
  <2>1. dir'[Final(part)] = dir[Final(part)] /\ dir[Final(part)] # file
    BY <1>2, <1>5, <1>6, NamesAre
  <2>2. CASE q = p
    BY <1>4, <2>1, <2>2
  <2>3. CASE q # p
    <3>1. loader'[q] = loader[q] /\ met' = met
      BY <1>4, <2>3 DEF CreateTmp
    <3> QED
      BY <1>1, <1>14, <2>1, <3>1 DEF CacheSound, OwnFile
  <2> QED
    BY <2>2, <2>3
<1>15. OwnFile'
  BY <1>14 DEF OwnFile, Final
<1> QED
  BY <1>7, <1>10, <1>11, <1>12, <1>13, <1>15 DEF CacheInv, CacheSound, TmpIsCovered, FinalIsCovered

\* With the last piece a file that was covered by its writer is whole.
LEMMA WritePieceKeeps ==
  ASSUME CacheInv, ~disturbed, NEW p \in Process, WritePiece(p) PROVE CacheInv'
<1>1. CacheTypeOK /\ CacheSound
  BY DEF CacheInv
<1> PICK i, at, l :
      /\ i = loader[p].file /\ at = loader[p].at
      /\ l = [loader[p] EXCEPT !.at = at + 1,
                               !.pc = IF at = Pieces THEN "rename" ELSE "write",
                               !.file = IF at = Pieces THEN 0 ELSE i]
  OBVIOUS
<1>2. i \in Numbers /\ at \in Whole /\ loader[p].pc = "write"
  BY <1>1 DEF CacheTypeOK, OpenWhileWriting, WritePiece
<1>3. l \in Loader /\ loader' = [loader EXCEPT ![p] = l]
  <2>1. at + 1 \in Nat
    BY <1>2, CacheAssumption DEF Whole
  <2> QED
    BY <1>1, <1>2, <2>1 DEF WritePiece, CacheTypeOK, Loader
<1>4. /\ \A q \in Process : q # p => loader'[q] = loader[q]
      /\ loader'[p] = l /\ l.part = loader[p].part /\ l.at = at + 1
      /\ at = Pieces => l.pc = "rename" /\ l.file = 0
      /\ at # Pieces => l.pc = "write" /\ l.file = i
  BY <1>1, <1>3 DEF CacheTypeOK, Loader
<1>5. /\ disk' = [disk EXCEPT ![i] = disk[i] \cup {at}]
      /\ disk' \in [Numbers -> SUBSET Whole]
      /\ \A j \in Numbers : disk[j] \subseteq disk'[j]
      /\ at \in disk'[i]
  BY <1>1, <1>2 DEF WritePiece, CacheTypeOK
<1>6. CacheTypeOK'
  <2>1. at # Pieces => at + 1 \in Whole
    BY <1>2, CacheAssumption DEF Whole
  <2>2. \A q \in Process : OpenWhileWriting(loader'[q])
    BY <1>1, <1>2, <1>4, <2>1 DEF CacheTypeOK, OpenWhileWriting
  <2> QED
    BY <1>1, <1>3, <1>5, <2>2 DEF WritePiece, CacheTypeOK, OpenWhileWriting
<1>7. ASSUME NEW j \in Numbers, Covered(j) PROVE Covered(j)'
  <2>1. CASE disk[j] = Whole
    BY <1>5, <2>1 DEF Covered, Whole
  <2>2. CASE Covers(p, j)
    <3>1. j = i /\ Whole \ (at .. Pieces) \subseteq disk[i]
      BY <2>2 DEF Covers
    <3>2. Whole \ (at + 1 .. Pieces) \subseteq disk'[i]
      BY <1>2, <1>5, <3>1, CacheAssumption DEF Whole
    <3>3. CASE at = Pieces
      <4>1. Whole \ (at + 1 .. Pieces) = Whole
        BY <3>3, CacheAssumption DEF Whole
      <4>2. disk'[i] = Whole
        BY <1>2, <1>5, <3>2, <4>1
      <4> QED
        BY <3>1, <4>2 DEF Covered, Whole
    <3>4. CASE at # Pieces
      BY <1>4, <3>1, <3>2, <3>4 DEF Covered, Covers, Whole
    <3> QED
      BY <3>3, <3>4
  <2>3. ASSUME NEW q \in Process, q # p, Covers(q, j) PROVE Covered(j)'
    BY <1>4, <1>5, <2>3 DEF Covered, Covers, Whole
  <2> QED
    BY <1>7, <2>1, <2>2, <2>3 DEF Covered
<1>8. ASSUME NEW part, Inactive(part) PROVE Inactive(part)'
  <2>1. loader[p].part # part /\ loader'[p].part # part
    BY <1>2, <1>4, <1>8 DEF Inactive
  <2>2. ASSUME NEW q \in Process, loader'[q].part = part PROVE loader'[q].pc \notin {"write", "rename"}
    BY <1>4, <1>8, <2>1, <2>2 DEF Inactive
  <2> QED
    BY <2>2 DEF Inactive
<1>9. \A n \in Names : dir'[n] = dir[n] /\ (dir[n] # 0 => dir[n] \in Numbers)
  BY <1>1 DEF WritePiece, CacheTypeOK
<1>10. NamesDiffer'
  BY <1>1, <1>9 DEF CacheSound, NamesDiffer
<1>11. ASSUME NEW part \in Parts, dir'[Tmp(part)] # 0
       PROVE  Covered(dir[Tmp(part)])' \/ Inactive(part)'
  BY <1>1, <1>7, <1>8, <1>9, <1>11, NamesAre DEF CacheSound, TmpIsCovered, Tmp, WritePiece
<1>12. ASSUME NEW part \in Parts, dir'[Final(part)] # 0
       PROVE  Covered(dir[Final(part)])'
  BY <1>1, <1>7, <1>9, <1>12, NamesAre DEF CacheSound, FinalIsCovered, Final, WritePiece
<1>13. AllMet'
  BY <1>1, <1>2, <1>4 DEF CacheSound, AllMet, Downloading, WritePiece
<1>14. ASSUME NEW q \in Process, q \notin met', loader'[q].pc = "write", NEW part \in Parts
       PROVE  dir'[Final(part)] # loader'[q].file
  <2>1. dir'[Final(part)] = dir[Final(part)] /\ met' = met
    BY DEF WritePiece
  <2>2. loader[q].pc = "write" /\ loader'[q].file = loader[q].file
    BY <1>2, <1>4, <1>14
  <2> QED
    BY <1>1, <1>14, <2>1, <2>2 DEF CacheSound, OwnFile
<1>15. OwnFile'
  BY <1>14 DEF OwnFile, Final
<1> QED
  BY <1>6, <1>10, <1>11, <1>12, <1>13, <1>15 DEF CacheInv, CacheSound, TmpIsCovered, FinalIsCovered, WritePiece

\* What is renamed is covered, since somebody was about to rename it; that of
\* another download is only renamed when the two have met.
LEMMA RenameKeeps ==
  ASSUME CacheInv, ~disturbed, NEW p \in Process, Rename(p) PROVE CacheInv'
<1>1. CacheTypeOK /\ CacheSound
  BY DEF CacheInv
<1> PICK part, i : part = loader[p].part /\ i = dir[Tmp(part)]
  OBVIOUS
<1>2. /\ part \in Parts /\ loader[p].pc = "rename" /\ loader[p].file = 0
      /\ Tmp(part) \in Names /\ Final(part) \in Names /\ Tmp(part) # Final(part)
  BY <1>1, NamesAre DEF CacheTypeOK, Loader, Rename, OpenWhileWriting
<1>3. CASE i = 0
  <2> PICK l : l = [loader[p] EXCEPT !.pc = "remove"]
    OBVIOUS
  <2>1. /\ l \in Loader /\ l.pc = "remove" /\ l.file = 0
        /\ loader' = [loader EXCEPT ![p] = l] /\ UNCHANGED <<dir, disk, met, disturbed>>
    BY <1>1, <1>2, <1>3 DEF Rename, CacheTypeOK, Loader
  <2>2. AllMet'
    BY <1>1, <1>2, <2>1 DEF CacheSound, AllMet, Downloading, CacheTypeOK
  <2> QED
    BY <1>1, <1>2, <2>1, <2>2, OthersKeep DEF CacheTypeOK
<1>4. CASE i # 0
  <2> PICK l : l = [loader[p] EXCEPT !.pc = IF part = 1 THEN "fetch" ELSE "load",
                                     !.part = IF part = 1 THEN 2 ELSE 1]
    OBVIOUS
  <2>1. /\ l \in Loader /\ l.pc \in {"fetch", "load"} /\ l.file = 0
        /\ loader' = [loader EXCEPT ![p] = l] /\ UNCHANGED <<disk, met, disturbed>>
        /\ dir' = [dir EXCEPT ![Final(part)] = i, ![Tmp(part)] = 0]
    BY <1>1, <1>2, <1>4 DEF Rename, CacheTypeOK, Loader, Parts
  <2>2. \A q \in Process : IF q = p THEN loader'[q] = l ELSE loader'[q] = loader[q]
    BY <1>1, <2>1 DEF CacheTypeOK
  <2>3. /\ dir'[Final(part)] = i /\ dir'[Tmp(part)] = 0 /\ i \in Numbers
        /\ \A n \in Names : n \notin {Tmp(part), Final(part)} => dir'[n] = dir[n]
    BY <1>1, <1>2, <1>4, <2>1 DEF CacheTypeOK
  <2>4. CacheTypeOK'
    BY <1>1, <1>2, <2>1, <2>2, <2>3 DEF CacheTypeOK, OpenWhileWriting
  <2>5. \A j : Covered(j) => Covered(j)'
    BY <1>2, <2>1, <2>2 DEF Covered, Covers
  <2>6. \A s : Inactive(s) => Inactive(s)'
    BY <2>1, <2>2 DEF Inactive
  <2>7. Covered(i)
    <3>1. ~Inactive(part)
      BY <1>2 DEF Inactive
    <3> QED
      BY <1>1, <1>2, <1>4, <3>1 DEF CacheSound, TmpIsCovered
  <2>8. NamesDiffer'
    BY <1>1, <1>2, <2>3 DEF CacheSound, NamesDiffer
  <2>9. ASSUME NEW s \in Parts, dir'[Tmp(s)] # 0
        PROVE  Covered(dir[Tmp(s)])' \/ Inactive(s)'
    <3>1. dir'[Tmp(s)] = dir[Tmp(s)]
      BY <1>2, <2>3, <2>9, NamesAre
    <3> QED
      BY <1>1, <2>5, <2>6, <2>9, <3>1 DEF CacheSound, TmpIsCovered, Tmp
  <2>10. ASSUME NEW s \in Parts, dir'[Final(s)] # 0
         PROVE  Covered(dir[Final(s)])'
    <3>1. CASE s = part
      BY <2>3, <2>5, <2>7, <3>1 DEF Final
    <3>2. CASE s # part
      <4>1. dir'[Final(s)] = dir[Final(s)]
        BY <1>2, <2>3, <3>2, NamesAre
      <4> QED
        BY <1>1, <2>5, <2>10, <4>1 DEF CacheSound, FinalIsCovered, Final
    <3> QED
      BY <3>1, <3>2
  <2>11. AllMet'
    BY <1>1, <1>2, <2>1, <2>2 DEF CacheSound, AllMet, Downloading
  <2>12. ASSUME NEW q \in Process, loader'[q].pc = "write" PROVE q \in met'
    BY <1>1, <1>2, <2>1, <2>2, <2>12 DEF CacheSound, AllMet, Downloading
  <2>13. OwnFile'
    BY <2>12 DEF OwnFile
  <2> QED
    BY <2>4, <2>8, <2>9, <2>10, <2>11, <2>13 DEF CacheInv, CacheSound, TmpIsCovered, FinalIsCovered
<1> QED
  BY <1>3, <1>4

\* The clean-up takes a temporary name away and nothing else.
LEMMA RemoveTmpKeeps ==
  ASSUME CacheInv, ~disturbed, NEW p \in Process, RemoveTmp(p) PROVE CacheInv'
<1>1. CacheTypeOK /\ CacheSound
  BY DEF CacheInv
<1> PICK part : part = loader[p].part
  OBVIOUS
<1>2. part \in Parts /\ Tmp(part) \in Names /\ loader[p].pc = "remove"
  BY <1>1, NamesAre DEF CacheTypeOK, Loader, RemoveTmp
<1>3. Idle \in Loader /\ OpenWhileWriting(Idle) /\ Idle.pc = "idle"
  BY DEF Idle, Loader, OpenWhileWriting, Parts
<1>4. \A q \in Process : IF q = p THEN loader'[q] = Idle ELSE loader'[q] = loader[q]
  BY <1>1 DEF CacheTypeOK, RemoveTmp
<1>5. /\ dir'[Tmp(part)] = 0 /\ \A n \in Names : n # Tmp(part) => dir'[n] = dir[n]
      /\ UNCHANGED <<disk, met, disturbed>>
  BY <1>1, <1>2 DEF CacheTypeOK, RemoveTmp
<1>6. CacheTypeOK'
  BY <1>1, <1>3, <1>4, <1>5 DEF CacheTypeOK, RemoveTmp, OpenWhileWriting
<1>7. /\ \A j : Covered(j) => Covered(j)'
      /\ \A s : Inactive(s) => Inactive(s)'
  BY <1>2, <1>3, <1>4, <1>5 DEF Covered, Covers, Inactive
<1>8. NamesDiffer'
  BY <1>1, <1>2, <1>5 DEF CacheSound, NamesDiffer
<1>9. ASSUME NEW s \in Parts, dir'[Tmp(s)] # 0
      PROVE  Covered(dir[Tmp(s)])' \/ Inactive(s)'
  <2>1. dir'[Tmp(s)] = dir[Tmp(s)]
    BY <1>2, <1>5, <1>9, NamesAre
  <2> QED
    BY <1>1, <1>7, <1>9, <2>1 DEF CacheSound, TmpIsCovered, Tmp
<1>10. ASSUME NEW s \in Parts
       PROVE  dir'[Final(s)] = dir[Final(s)]
  BY <1>2, <1>5, NamesAre
<1>11. FinalIsCovered'
  BY <1>1, <1>7, <1>10 DEF CacheSound, FinalIsCovered, Final
<1>12. AllMet'
  BY <1>1, <1>2, <1>3, <1>4, <1>5 DEF CacheSound, AllMet, Downloading
<1>13. OwnFile'
  BY <1>1, <1>3, <1>4, <1>5, <1>10 DEF CacheSound, OwnFile, Final
<1> QED
  BY <1>6, <1>8, <1>9, <1>11, <1>12, <1>13 DEF CacheInv, CacheSound, TmpIsCovered

\* A reader changes no file.
LEMMA ReadPartKeeps ==
  ASSUME CacheInv, ~disturbed, NEW p \in Process, ReadPart(p) PROVE CacheInv'
<1>1. CacheTypeOK /\ CacheSound
  BY DEF CacheInv
<1> PICK part, l :
      /\ part = loader[p].part
      /\ l = [loader[p] EXCEPT !.read = Append(loader[p].read, disk[dir[Final(part)]]),
                               !.pc = IF part = 1 THEN "load" ELSE "open",
                               !.part = 3 - part]
  OBVIOUS
<1>2. loader[p].pc = "load" /\ loader[p].file = 0 /\ part \in Parts /\ 3 - part \in Parts
  BY <1>1 DEF ReadPart, CacheTypeOK, Loader, OpenWhileWriting, Parts
<1>3. disk[dir[Final(part)]] \in SUBSET Whole
  <2>1. dir[Final(part)] \in Numbers
    BY <1>1, <1>2, NamesAre DEF ReadPart, CacheTypeOK
  <2> QED
    BY <1>1, <2>1 DEF CacheTypeOK
<1>4. l \in Loader /\ l.pc \in {"load", "open"} /\ l.file = 0 /\ loader' = [loader EXCEPT ![p] = l]
  <2>1. loader[p] \in Loader /\ loader[p].read \in Seq(SUBSET Whole)
    BY <1>1 DEF CacheTypeOK, Loader
  <2>2. Append(loader[p].read, disk[dir[Final(part)]]) \in Seq(SUBSET Whole)
    BY <1>3, <2>1
  <2>3. l \in Loader /\ l.pc \in {"load", "open"} /\ l.file = 0
    BY <1>2, <2>1, <2>2 DEF Loader
  <2> QED
    BY <2>3 DEF ReadPart
<1>5. AllMet'
  BY <1>1, <1>2, <1>4 DEF CacheSound, AllMet, Downloading, ReadPart, CacheTypeOK
<1>6. UNCHANGED <<dir, disk, met, disturbed>> /\ met \subseteq Process
  BY <1>1 DEF ReadPart, CacheTypeOK
<1> QED
  BY <1>2, <1>4, <1>5, <1>6, OthersKeep

\* Nor does the thread that makes the session.
LEMMA OpenSessionKeeps ==
  ASSUME CacheInv, ~disturbed, NEW p \in Process, OpenSession(p) PROVE CacheInv'
<1> DEFINE l == [Idle EXCEPT !.pc = "ready"]
<1>1. CacheTypeOK /\ CacheSound
  BY DEF CacheInv
<1>2. l \in Loader /\ l.pc = "ready" /\ l.file = 0 /\ loader' = [loader EXCEPT ![p] = l]
  <2>1. <<>> \in Seq(SUBSET Whole)
    OBVIOUS
  <2> QED
    BY <2>1 DEF OpenSession, Idle, Loader, Parts
<1>3. AllMet'
  BY <1>1, <1>2 DEF CacheSound, AllMet, Downloading, OpenSession, CacheTypeOK
<1> QED
  BY <1>1, <1>2, <1>3, OthersKeep DEF OpenSession, CacheTypeOK

\* A download that is stopped and has met no other leaves no final name without
\* its cover.
LEMMA InterruptKeeps ==
  ASSUME CacheInv, ~disturbed, NEW p \in Process, Interrupt(p) PROVE CacheInv'
<1>1. CacheTypeOK /\ CacheSound
  BY DEF CacheInv
<1>2. Idle \in Loader /\ OpenWhileWriting(Idle) /\ Idle.pc = "idle" /\ Idle.file = 0
  BY DEF Idle, Loader, OpenWhileWriting, Parts
<1>3. /\ UNCHANGED <<dir, disk, met>>
      /\ \A q \in Process : IF q = p THEN loader'[q] = Idle ELSE loader'[q] = loader[q]
      /\ disturbed' = (p \in met /\ Downloading(p))
  BY <1>1 DEF CacheTypeOK, Interrupt
<1>4. CacheTypeOK'
  BY <1>1, <1>2, <1>3 DEF CacheTypeOK, Interrupt, OpenWhileWriting
<1>5. CASE disturbed'
  BY <1>4, <1>5 DEF CacheInv
<1>6. CASE ~Downloading(p)
  <2>1. AllMet'
    BY <1>1, <1>2, <1>3 DEF CacheSound, AllMet, Downloading
  <2>2. loader[p].pc # "write"
    BY <1>6 DEF Downloading
  <2> QED
    BY <1>1, <1>2, <1>3, <1>6, <2>1, <2>2, OthersKeep DEF Interrupt, CacheTypeOK
<1>7. CASE Downloading(p) /\ ~disturbed'
  <2>1. p \notin met
    BY <1>3, <1>7
  <2>2. \A q \in Process : ~Downloading(q)'
    BY <1>1, <1>2, <1>3, <1>7, <2>1 DEF CacheSound, AllMet, Downloading
  <2>3. \A part : Inactive(part)'
    BY <2>2 DEF Inactive, Downloading
  <2>4. AllMet' /\ OwnFile' /\ TmpIsCovered'
    BY <2>2, <2>3 DEF AllMet, OwnFile, TmpIsCovered, Downloading
  <2>5. NamesDiffer'
    BY <1>1, <1>3 DEF CacheSound, NamesDiffer
  <2>6. ASSUME NEW part \in Parts, dir[Final(part)] # 0 PROVE disk[dir[Final(part)]] = Whole
    <3>1. ASSUME NEW q \in Process PROVE ~Covers(q, dir[Final(part)])
      BY <1>1, <1>7, <2>1, <3>1 DEF CacheSound, AllMet, OwnFile, Covers, Downloading
    <3> QED
      BY <1>1, <2>6, <3>1 DEF CacheSound, FinalIsCovered, Covered
  <2>7. FinalIsCovered'
    BY <1>3, <2>6 DEF FinalIsCovered, Covered, Final, Whole
  <2> QED
    BY <1>4, <2>4, <2>5, <2>7 DEF CacheInv, CacheSound
<1> QED
  BY <1>5, <1>6, <1>7

\* The invariant is inductive.
LEMMA CacheNextKeeps == CacheInv /\ [CacheNext]_cacheVars => CacheInv'
<1>1. ASSUME CacheInv, CacheNext PROVE CacheInv'
  <2>1. ~disturbed
    BY <1>1 DEF CacheNext
  <2>2. PICK p \in Process :
          \/ BeginLoading(p) \/ Fetch(p) \/ CreateTmp(p) \/ WritePiece(p) \/ Rename(p)
          \/ RemoveTmp(p) \/ ReadPart(p) \/ OpenSession(p) \/ Interrupt(p)
    BY <1>1 DEF CacheNext
  <2> QED
    BY <1>1, <2>1, <2>2, BeginLoadingKeeps, FetchKeeps, CreateTmpKeeps, WritePieceKeeps, RenameKeeps,
       RemoveTmpKeeps, ReadPartKeeps, OpenSessionKeeps, InterruptKeeps
<1>2. ASSUME CacheInv, UNCHANGED cacheVars PROVE CacheInv'
  BY <1>2 DEF cacheVars, CacheInv, CacheTypeOK, OpenWhileWriting, CacheSound, NamesDiffer, TmpIsCovered, FinalIsCovered,
     AllMet, OwnFile, Covered, Covers, Inactive, Downloading, Tmp, Final, Whole
<1> QED
  BY <1>1, <1>2

\* What the cache has under the name of a model is whole, or is being written
\* by a download that goes on, wherever a download was stopped, for every number
\* of processes and of pieces.
THEOREM CacheIsWhole == CacheSpec => []CachedIsWhole
<1>1. CacheInv => CachedIsWhole
  BY DEF CacheInv, CacheSound, FinalIsCovered, Covered, Covers, CachedIsWhole, Downloading
<1> QED
  BY <1>1, CacheInitHolds, CacheNextKeeps, PTL DEF CacheSpec

-----------------------------------------------------------------------------
(***************************************************************************)
(* Bench.  A comparison passes if the values are inside the tolerances of  *)
(* the documentation, and only if none is beyond them; and what was        *)
(* compared so far and what is left are the corpora that were asked for.   *)
(***************************************************************************)

QualityMetrics == IrMetrics \cup SymbolMetrics

Metrics(store) == IF store THEN StoreMetrics ELSE QualityMetrics

BenchArgs ==
  [store : BOOLEAN, compare : BOOLEAN, mock : BOOLEAN, allModes : BOOLEAN,
   corpora : SUBSET Corpora]

Gating == bench.args.compare /\ ~bench.args.allModes

Verdicts == {c[2] : c \in compared}

\* A command that has not ended, before it has a result and with one.
Preparing ==
  [pc : {"config", "embedder", "validate", "run"}, args : BenchArgs, corpora : Seq(Corpora),
   worst : BOOLEAN]

Judging ==
  [pc : {"output", "compare"}, args : BenchArgs, corpora : Seq(Corpora), worst : BOOLEAN,
   result : [StoreMetrics -> Nat] \cup [QualityMetrics -> Nat]]

\* The corpora a gate has compared and those it will compare are those it was
\* asked for; one that does not gate compares nothing, and the worst result is
\* that of a comparison.
Accounted ==
  /\ bench.args.store => /\ ~bench.args.allModes /\ compared = {}
                         /\ bench.corpora # <<>>
                         /\ {Head(bench.corpora)} = bench.args.corpora
  /\ ~bench.args.store =>
       /\ bench.worst => Verdicts \ {"inside"} # {}
       /\ ~bench.worst => "outside" \notin Verdicts
       /\ Gating => {c[1] : c \in compared} \cup Range(bench.corpora) = bench.args.corpora
       /\ ~Gating => compared = {}

GateInv ==
  /\ baseline \in Baselines
  /\ \/ bench = [pc |-> "idle"] /\ compared = {}
     \/ bench \in Preparing /\ Accounted
     \/ /\ bench \in Judging /\ Accounted
        /\ bench.corpora # <<>> /\ bench.result \in [Metrics(bench.args.store) -> Nat]
        /\ bench.pc = "compare" => Gating
     \/ bench.pc = "exited" /\ ExitTellsTheComparison

-----------------------------------------------------------------------------
\* One metric: less than its tolerance passes, more does not, whatever f64
\* makes of the values right at it.
LEMMA ToleranceIsKept ==
  ASSUME NEW store \in BOOLEAN, NEW m \in Metrics(store), NEW x \in Nat, NEW y \in Nat
  PROVE  /\ WithinTolerance(m, x, y) => EvaluateMetric(x, y, Tolerance(m))
         /\ EvaluateMetric(x, y, Tolerance(m)) => ~BeyondTolerance(m, x, y)
<1>1. CASE m \in QualityMetrics
  <2>1. m \notin StoreMetrics /\ Tolerance(m) = [absolute |-> 10]
    BY <1>1 DEF QualityMetrics, IrMetrics, SymbolMetrics, StoreMetrics, Tolerance
  <2>2. /\ -10 < x - y /\ x - y < 10 => EvaluateMetric(x, y, [absolute |-> 10])
        /\ EvaluateMetric(x, y, [absolute |-> 10]) => -10 <= x - y /\ x - y <= 10
    BY DEF EvaluateMetric
  <2>3. /\ x \in y - 9 .. y + 9 => -10 < x - y /\ x - y < 10
        /\ -10 <= x - y /\ x - y <= 10 => x \in y - 10 .. y + 10
    OBVIOUS
  <2> QED
    BY <2>1, <2>2, <2>3 DEF WithinTolerance, BeyondTolerance
<1>2. CASE m \in StoreMetrics
  <2>1. ASSUME NEW n \in Nat
        PROVE  /\ (IF y = 0 THEN x = 0 ELSE (x - y) * 100 < y * n) =>
                    EvaluateMetric(x, y, [relative |-> n])
               /\ EvaluateMetric(x, y, [relative |-> n]) =>
                    (IF y = 0 THEN x = 0 ELSE (x - y) * 100 <= y * n)
    BY DEF EvaluateMetric
  <2>2. /\ m = "indexing_secs" => Tolerance(m) = [relative |-> 50] /\ Tenths[m] = 15
        /\ m = "query_p95_ms" => Tolerance(m) = [relative |-> 100] /\ Tenths[m] = 20
        /\ m \in {"peak_rss_bytes", "disk_size_bytes"} =>
             Tolerance(m) = [relative |-> 20] /\ Tenths[m] = 12
    BY DEF IrMetrics, SymbolMetrics, Tolerance, Tenths
  <2>3. /\ x * 10 < y * 15 \/ (x = 0 /\ y = 0) =>
             (IF y = 0 THEN x = 0 ELSE (x - y) * 100 < y * 50)
        /\ (IF y = 0 THEN x = 0 ELSE (x - y) * 100 <= y * 50) => ~(x * 10 > y * 15)
        /\ x * 10 < y * 20 \/ (x = 0 /\ y = 0) =>
             (IF y = 0 THEN x = 0 ELSE (x - y) * 100 < y * 100)
        /\ (IF y = 0 THEN x = 0 ELSE (x - y) * 100 <= y * 100) => ~(x * 10 > y * 20)
        /\ x * 10 < y * 12 \/ (x = 0 /\ y = 0) =>
             (IF y = 0 THEN x = 0 ELSE (x - y) * 100 < y * 20)
        /\ (IF y = 0 THEN x = 0 ELSE (x - y) * 100 <= y * 20) => ~(x * 10 > y * 12)
    OBVIOUS
  <2>4. CASE m = "indexing_secs"
    BY <1>2, <2>1, <2>2, <2>3, <2>4 DEF WithinTolerance, BeyondTolerance
  <2>5. CASE m = "query_p95_ms"
    BY <1>2, <2>1, <2>2, <2>3, <2>5 DEF WithinTolerance, BeyondTolerance
  <2>6. CASE m \in {"peak_rss_bytes", "disk_size_bytes"}
    BY <1>2, <2>1, <2>2, <2>3, <2>6 DEF WithinTolerance, BeyondTolerance
  <2> QED
    BY <1>2, <2>4, <2>5, <2>6 DEF StoreMetrics
<1> QED
  BY <1>1, <1>2 DEF Metrics

\* All metrics: what is inside its tolerances passes, and what passes is not
\* beyond one of them.
LEMMA PassedIsClose ==
  ASSUME NEW store \in BOOLEAN, NEW current \in [Metrics(store) -> Nat],
         NEW base \in [Metrics(store) -> Nat]
  PROVE  /\ HowClose(current, base) = "inside" => Passed(current, base)
         /\ Passed(current, base) => HowClose(current, base) # "outside"
<1>1. DOMAIN current = Metrics(store) /\ DOMAIN base = Metrics(store)
  OBVIOUS
<1>2. ASSUME NEW m \in Metrics(store)
      PROVE  /\ WithinTolerance(m, current[m], base[m]) =>
                  EvaluateMetric(current[m], base[m], Tolerance(m))
             /\ EvaluateMetric(current[m], base[m], Tolerance(m)) =>
                  ~BeyondTolerance(m, current[m], base[m])
  <2>1. current[m] \in Nat /\ base[m] \in Nat
    OBVIOUS
  <2> QED
    BY <2>1, ToleranceIsKept
<1> DEFINE within == \A m \in Metrics(store) : WithinTolerance(m, current[m], base[m])
           beyond == \E m \in Metrics(store) : BeyondTolerance(m, current[m], base[m])
<1>3. HowClose(current, base) = CASE within -> "inside" [] beyond -> "outside" [] OTHER -> "boundary"
  BY <1>1 DEF HowClose
<1>4. Passed(current, base) <=>
        \A m \in Metrics(store) : EvaluateMetric(current[m], base[m], Tolerance(m))
  BY <1>1 DEF Passed
<1>5. (within => Passed(current, base)) /\ (Passed(current, base) => ~beyond)
  BY <1>2, <1>4
<1> HIDE DEF within, beyond
<1>6. CASE within /\ beyond
  BY <1>5, <1>6
<1>7. CASE ~(within /\ beyond)
  <2>1. HowClose(current, base) = IF within THEN "inside" ELSE IF beyond THEN "outside" ELSE "boundary"
    BY <1>3, <1>7
  <2> QED
    BY <1>5, <2>1
<1> QED
  BY <1>6, <1>7

\* What a run measures, and what a baseline is read as.
LEMMA ValuesAre ==
  /\ BenchmarkResults \subseteq [QualityMetrics -> Nat]
  /\ StoreReports \subseteq [StoreMetrics -> Nat]
  /\ \A b \in Baselines : /\ b.is \in {"ir", "structural"} =>
                               ToBenchmarkResult(b) \in [QualityMetrics -> Nat]
                          /\ b.is = "store" => b.values \in [StoreMetrics -> Nat]
<1>1. ASSUME NEW metrics, NEW v \in Bases
      PROVE  Uniform(metrics, v) \in [metrics -> Nat] /\ OffIn(metrics, v) \subseteq [metrics -> Nat]
  <2>1. v \in Nat /\ \A o \in Offsets : v + o >= 0 => v + o \in Nat
    BY BenchAssumption
  <2> QED
    BY <2>1 DEF Uniform, OffIn
<1>2. ASSUME NEW metrics \in SUBSET QualityMetrics, NEW r \in [metrics -> Nat]
      PROVE  WithZeros(r) \in [QualityMetrics -> Nat]
  BY DEF WithZeros, QualityMetrics
<1>3. IrMetrics \in SUBSET QualityMetrics /\ SymbolMetrics \in SUBSET QualityMetrics
  BY DEF QualityMetrics
<1>4. BenchmarkResults \subseteq [QualityMetrics -> Nat]
  <2>1. ASSUME NEW v \in Bases, NEW metrics \in {IrMetrics, SymbolMetrics},
               NEW r \in OffIn(metrics, v)
        PROVE  WithZeros(r) \in [QualityMetrics -> Nat]
    BY <1>1, <1>2, <1>3
  <2> QED
    BY <2>1 DEF BenchmarkResults
<1>5. StoreReports \subseteq [StoreMetrics -> Nat]
  BY <1>1 DEF StoreReports
<1>6. ASSUME NEW b \in Baselines
      PROVE  /\ b.is \in {"ir", "structural"} =>
                  ToBenchmarkResult(b) \in [QualityMetrics -> Nat]
             /\ b.is = "store" => b.values \in [StoreMetrics -> Nat]
  <2>1. /\ b.is = "ir" => b.values \in [IrMetrics -> Nat]
        /\ b.is = "structural" => b.values \in [SymbolMetrics -> Nat]
        /\ b.is = "store" => b.values \in [StoreMetrics -> Nat]
    BY <1>1 DEF Baselines
  <2> QED
    BY <1>2, <1>3, <2>1 DEF ToBenchmarkResult
<1> QED
  BY <1>4, <1>5, <1>6

\* What is left after the next corpus.
LEMMA HeadAndTail ==
  ASSUME NEW S, NEW q \in Seq(S), q # <<>>
  PROVE  /\ Head(q) \in S /\ Tail(q) \in Seq(S)
         /\ Range(q) = {Head(q)} \cup Range(Tail(q))
<1>1. /\ Head(q) \in S /\ Tail(q) \in Seq(S) /\ Len(q) \in Nat /\ Len(q) > 0
      /\ Head(q) = q[1] /\ Len(Tail(q)) = Len(q) - 1
      /\ \A i \in 1 .. Len(q) - 1 : Tail(q)[i] = q[i + 1]
  OBVIOUS
<1>2. DOMAIN q = 1 .. Len(q) /\ DOMAIN Tail(q) = 1 .. Len(q) - 1
  BY <1>1
<1>3. Range(q) = {q[i] : i \in 1 .. Len(q)} /\ Range(Tail(q)) = {Tail(q)[i] : i \in 1 .. Len(q) - 1}
  BY <1>2 DEF Range
<1>4. ASSUME NEW x \in Range(q) PROVE x \in {Head(q)} \cup Range(Tail(q))
  <2>1. PICK i \in 1 .. Len(q) : x = q[i]
    BY <1>3, <1>4
  <2>2. CASE i = 1
    BY <1>1, <2>1, <2>2
  <2>3. CASE i # 1
    <3>1. i - 1 \in 1 .. Len(q) - 1 /\ Tail(q)[i - 1] = x
      BY <1>1, <2>1, <2>3
    <3> QED
      BY <1>3, <3>1
  <2> QED
    BY <2>2, <2>3
<1>5. ASSUME NEW x \in {Head(q)} \cup Range(Tail(q)) PROVE x \in Range(q)
  <2>1. CASE x = Head(q)
    BY <1>1, <1>3, <2>1
  <2>2. CASE x \in Range(Tail(q))
    <3>1. PICK i \in 1 .. Len(q) - 1 : x = Tail(q)[i]
      BY <1>3, <2>2
    <3>2. x = q[i + 1] /\ i + 1 \in 1 .. Len(q)
      BY <1>1, <3>1
    <3> QED
      BY <1>3, <3>2
  <2> QED
    BY <1>5, <2>1, <2>2
<1> QED
  BY <1>1, <1>4, <1>5

\* Nothing is compared before a command begins.
LEMMA GateInitHolds == BenchInit => GateInv
  BY DEF BenchInit, GateInv

\* The corpora of a command are those it is asked to run on.
LEMMA BeginBenchKeeps == GateInv /\ BeginBench => GateInv'
<1> SUFFICES ASSUME GateInv, BeginBench PROVE GateInv'
  OBVIOUS
<1>1. PICK store \in BOOLEAN, compare \in BOOLEAN, mock \in BOOLEAN, allModes \in BOOLEAN,
           cs \in {<<c>> : c \in Corpora} \cup SetToSeqs(Corpora) :
        /\ store => ~allModes /\ Len(cs) = 1
        /\ bench' = [pc |-> "config", corpora |-> cs, worst |-> FALSE,
                     args |-> [store |-> store, compare |-> compare, mock |-> mock,
                               allModes |-> allModes, corpora |-> Range(cs)]]
  BY DEF BeginBench
<1>2. cs \in Seq(Corpora)
  <2>1. Cardinality(Corpora) \in Nat
    BY BenchAssumption, FS_CardinalityType
  <2>2. CASE cs \in {<<c>> : c \in Corpora}
    <3>1. PICK c \in Corpora : cs = <<c>>
      BY <2>2
    <3>2. <<c>> \in Seq(Corpora)
      OBVIOUS
    <3> QED
      BY <3>1, <3>2
  <2>3. CASE cs \in SetToSeqs(Corpora)
    <3>1. cs \in [1 .. Cardinality(Corpora) -> Corpora]
      BY <2>3 DEF SetToSeqs
    <3> QED
      BY <2>1, <3>1, SeqDef
  <2> QED
    BY <2>2, <2>3
<1>3. Len(cs) \in Nat /\ DOMAIN cs = 1 .. Len(cs) /\ \A i \in 1 .. Len(cs) : cs[i] \in Corpora
  BY <1>2
<1>4. Range(cs) \in SUBSET Corpora
  BY <1>3 DEF Range
<1>5. bench' \in Preparing /\ bench'.pc = "config"
  BY <1>1, <1>2, <1>4 DEF Preparing, BenchArgs
<1>6. baseline' \in Baselines /\ compared' = {} /\ compared = {}
  BY DEF BeginBench, GateInv, Preparing, Judging
<1>7. store => cs # <<>> /\ Range(cs) = {Head(cs)}
  <2>1. ASSUME store PROVE cs # <<>>
    <3>1. Len(cs) = 1 /\ Len(<<>>) = 0
      BY <1>1, <2>1
    <3> QED
      BY <3>1
  <2>2. ASSUME store PROVE Range(cs) = {Head(cs)}
    <3>1. Len(cs) = 1 /\ Head(cs) = cs[1]
      BY <1>1, <1>2, <2>2
    <3> QED
      BY <1>3, <3>1 DEF Range
  <2> QED
    BY <2>1, <2>2
<1>8. Accounted'
  BY <1>1, <1>6, <1>7 DEF Accounted, Gating, Verdicts
<1> QED
  BY <1>5, <1>6, <1>8 DEF GateInv

\* A command that fails says nothing of the corpora.
LEMMA FailureKeeps ==
  ASSUME GateInv, Exit(1), UNCHANGED baseline
  PROVE  GateInv'
  BY DEF GateInv, Exit, ExitTellsTheComparison

\* Nothing is compared on the way to the first corpus.
LEMMA AdvanceKeeps ==
  ASSUME GateInv, bench \in Preparing, NEW pc \in {"embedder", "validate", "run"},
         Goto(pc), UNCHANGED <<baseline, compared>>
  PROVE  GateInv'
<1>1. Accounted
  BY DEF GateInv, Preparing, Judging
<1>2. /\ bench' \in Preparing /\ bench'.args = bench.args /\ bench'.corpora = bench.corpora
      /\ bench'.worst = bench.worst
  BY DEF Goto, Preparing
<1> QED
  BY <1>1, <1>2 DEF GateInv, Accounted, Gating, Verdicts

\* Where a command is, is the form of its state.
LEMMA GateForms ==
  ASSUME GateInv
  PROVE  /\ bench.pc \in {"config", "embedder", "validate", "run"} =>
              bench \in Preparing /\ Accounted
         /\ bench.pc \in {"output", "compare"} =>
              /\ bench \in Judging /\ Accounted /\ bench.corpora # <<>>
              /\ bench.result \in [Metrics(bench.args.store) -> Nat]
              /\ bench.pc = "compare" => Gating
  BY DEF GateInv, Preparing, Judging

LEMMA LoadCorpusConfigKeeps == GateInv /\ LoadCorpusConfig => GateInv'
  BY GateForms, FailureKeeps, AdvanceKeeps DEF LoadCorpusConfig

LEMMA MakeEmbedderKeeps == GateInv /\ MakeEmbedder => GateInv'
  BY GateForms, FailureKeeps, AdvanceKeeps DEF MakeEmbedder

LEMMA ValidateUpFrontKeeps == GateInv /\ ValidateUpFront => GateInv'
  BY GateForms, FailureKeeps, AdvanceKeeps DEF ValidateUpFront

\* A file that is written anew is a baseline as well.
LEMMA WriteBaselineKeeps == GateInv /\ WriteBaseline => GateInv'
  BY DEF WriteBaseline, GateInv, ExitTellsTheComparison, Accounted, Gating, Verdicts

\* What is measured is measured in the metrics of the command.
LEMMA MeasuredKeeps ==
  ASSUME GateInv, bench.pc = "run", bench.corpora # <<>>,
         NEW r \in [Metrics(bench.args.store) -> Nat], bench' = Measured(r),
         UNCHANGED <<baseline, compared>>
  PROVE  GateInv'
<1>1. bench \in Preparing /\ Accounted
  BY GateForms
<1>2. bench.args.store \in BOOLEAN
  BY <1>1 DEF Preparing, BenchArgs
<1>3. r \in [StoreMetrics -> Nat] \cup [QualityMetrics -> Nat]
  BY <1>2 DEF Metrics
<1>4. /\ bench' \in Judging /\ bench'.pc = "output" /\ bench'.args = bench.args
      /\ bench'.corpora = bench.corpora /\ bench'.worst = bench.worst /\ bench'.result = r
  BY <1>1, <1>3 DEF Measured, Preparing, Judging
<1> QED
  BY <1>1, <1>4 DEF GateInv, Accounted, Gating, Verdicts

LEMMA RunBenchmarkKeeps == GateInv /\ RunBenchmark => GateInv'
<1> SUFFICES ASSUME GateInv, RunBenchmark PROVE GateInv'
  OBVIOUS
<1>1. Metrics(bench.args.store) = QualityMetrics
  BY DEF RunBenchmark, Metrics
<1> QED
  BY <1>1, ValuesAre, MeasuredKeeps, FailureKeeps DEF RunBenchmark

LEMMA RunStoreBenchmarkKeeps == GateInv /\ RunStoreBenchmark => GateInv'
<1> SUFFICES ASSUME GateInv, RunStoreBenchmark PROVE GateInv'
  OBVIOUS
<1>1. Metrics(bench.args.store) = StoreMetrics
  BY DEF RunStoreBenchmark, Metrics
<1>2. bench.corpora # <<>>
  BY GateForms DEF RunStoreBenchmark, Accounted
<1> QED
  BY <1>1, <1>2, ValuesAre, MeasuredKeeps, FailureKeeps DEF RunStoreBenchmark

\* A result is to be compared where the command is a gate.
LEMMA CompareKeeps ==
  ASSUME GateInv, bench.pc = "output", Gating, Goto("compare"), UNCHANGED <<baseline, compared>>
  PROVE  GateInv'
<1>1. /\ bench \in Judging /\ Accounted /\ bench.corpora # <<>>
      /\ bench.result \in [Metrics(bench.args.store) -> Nat]
  BY GateForms
<1>2. /\ bench' \in Judging /\ bench'.pc = "compare" /\ bench'.args = bench.args
      /\ bench'.corpora = bench.corpora /\ bench'.worst = bench.worst
      /\ bench'.result = bench.result
  BY <1>1 DEF Goto, Judging
<1> QED
  BY <1>1, <1>2 DEF GateInv, Accounted, Gating, Verdicts

LEMMA OutputResultKeeps == GateInv /\ OutputResult => GateInv'
<1> SUFFICES ASSUME GateInv, OutputResult PROVE GateInv'
  OBVIOUS
<1>1. bench \in Judging /\ Accounted /\ bench.corpora # <<>>
  BY GateForms DEF OutputResult
<1>2. CASE Gating /\ Goto("compare")
  BY <1>2, CompareKeeps DEF OutputResult
<1>3. CASE ~Gating /\ NextCorpus(bench.worst)
  <2>1. bench.corpora \in Seq(Corpora) /\ bench.worst \in BOOLEAN /\ bench.args \in BenchArgs
    BY <1>1 DEF Judging
  <2>2. /\ bench' \in Preparing /\ bench'.args = bench.args /\ bench'.worst = bench.worst
    BY <1>1, <1>3, <2>1, HeadAndTail DEF NextCorpus, Preparing
  <2> QED
    BY <1>1, <1>3, <2>2 DEF OutputResult, GateInv, Accounted, Gating, Verdicts
<1> QED
  BY <1>2, <1>3, FailureKeeps DEF OutputResult, Gating

\* The worst result is that of a comparison, and the corpus compared is the next.
LEMMA RunIrComparisonKeeps == GateInv /\ RunIrComparison => GateInv'
<1> SUFFICES ASSUME GateInv, RunIrComparison PROVE GateInv'
  OBVIOUS
<1>1. /\ bench \in Judging /\ Accounted /\ bench.corpora # <<>> /\ Gating
      /\ bench.result \in [QualityMetrics -> Nat]
  BY GateForms DEF RunIrComparison, Metrics
<1> DEFINE base == ToBenchmarkResult(baseline)
           close == HowClose(bench.result, base)
           passed == Passed(bench.result, base)
           head == Head(bench.corpora)
           new == <<head, close>>
<1>2. CASE /\ baseline.is \in {"ir", "structural"}
           /\ compared' = compared \cup {new}
           /\ NextCorpus(Worst(~passed))
  <2>1. base \in [QualityMetrics -> Nat]
    BY <1>2, ValuesAre DEF GateInv
  <2>2. (close = "inside" => passed) /\ (passed => close # "outside")
    <3>1. Metrics(FALSE) = QualityMetrics
      BY DEF Metrics
    <3> QED
      BY <1>1, <2>1, <3>1, PassedIsClose
  <2>3. passed \in BOOLEAN
    BY DEF Passed
  <2>4. new[1] = head /\ new[2] = close
    OBVIOUS
  <2> HIDE DEF base, close, head, passed, new
  <2>6. bench.corpora \in Seq(Corpora) /\ bench.worst \in BOOLEAN /\ bench.args \in BenchArgs
    BY <1>1 DEF Judging
  <2>7. /\ bench' \in Preparing /\ bench'.args = bench.args
        /\ bench'.corpora = Tail(bench.corpora)
        /\ bench'.worst <=> bench.worst \/ ~passed
    <3>1. Worst(~passed) \in BOOLEAN /\ (Worst(~passed) <=> bench.worst \/ ~passed)
      BY <2>6, <2>3 DEF Worst
    <3> QED
      BY <1>1, <1>2, <2>6, <3>1, HeadAndTail DEF NextCorpus, Preparing
  <2>8. Verdicts' = Verdicts \cup {close}
    BY <1>2, <2>4 DEF Verdicts
  <2>9. {c[1] : c \in compared'} = {c[1] : c \in compared} \cup {Head(bench.corpora)}
    BY <1>2, <2>4 DEF head
  <2>10. {c[1] : c \in compared'} \cup Range(bench'.corpora) = bench.args.corpora
    BY <1>1, <2>6, <2>7, <2>9, HeadAndTail DEF RunIrComparison, Accounted
  <2>11. /\ bench'.worst => Verdicts' \ {"inside"} # {}
         /\ ~bench'.worst => "outside" \notin Verdicts'
    BY <1>1, <2>2, <2>7, <2>8 DEF RunIrComparison, Accounted
  <2>12. Accounted'
    BY <1>1, <2>7, <2>10, <2>11 DEF RunIrComparison, Accounted, Gating
  <2> QED
    BY <2>7, <2>12 DEF RunIrComparison, GateInv
<1> QED
  BY <1>2, FailureKeeps DEF RunIrComparison

LEMMA FinishBenchmarkKeeps == GateInv /\ FinishBenchmark => GateInv'
<1> SUFFICES ASSUME GateInv, FinishBenchmark PROVE GateInv'
  OBVIOUS
<1>1. Accounted
  BY GateForms DEF FinishBenchmark
<1>2. Range(bench.corpora) = {}
  BY DEF FinishBenchmark, Range
<1> QED
  BY <1>1, <1>2 DEF FinishBenchmark, Exit, GateInv, ExitTellsTheComparison, Accounted, Gating, Verdicts

\* The SLO is missed before anything is compared.
LEMMA SloVerdictKeeps == GateInv /\ SloVerdict => GateInv'
<1> SUFFICES ASSUME GateInv, SloVerdict PROVE GateInv'
  OBVIOUS
<1>1. bench.pc = "output" /\ bench.args.store
  BY DEF SloVerdict
<1>2. Accounted /\ bench.args \in BenchArgs
  BY <1>1, GateForms DEF Judging
<1>3. CASE bench.args.compare /\ Goto("compare")
  BY <1>1, <1>2, <1>3, CompareKeeps DEF SloVerdict, Accounted, Gating
<1>4. CASE \/ Exit(2) /\ bench.args.compare
           \/ Exit(75) /\ ~bench.args.compare
           \/ Exit(0) /\ ~bench.args.compare
  BY <1>1, <1>2, <1>4 DEF SloVerdict, Exit, GateInv, ExitTellsTheComparison, Accounted
<1> QED
  BY <1>2, <1>3, <1>4 DEF SloVerdict, BenchArgs

LEMMA RunStoreComparisonKeeps == GateInv /\ RunStoreComparison => GateInv'
<1> SUFFICES ASSUME GateInv, RunStoreComparison PROVE GateInv'
  OBVIOUS
<1>1. /\ Accounted /\ Gating /\ bench.result \in [StoreMetrics -> Nat]
  BY GateForms DEF RunStoreComparison, Metrics
<1> DEFINE close == HowClose(bench.result, baseline.values)
<1>2. CASE /\ baseline.is = "store"
           /\ compared' = compared \cup {<<Head(bench.corpora), close>>}
           /\ Exit(IF Passed(bench.result, baseline.values) THEN 0 ELSE 2)
  <2>1. /\ close = "inside" => Passed(bench.result, baseline.values)
        /\ Passed(bench.result, baseline.values) => close # "outside"
    <3>1. Metrics(TRUE) = StoreMetrics /\ baseline.values \in [StoreMetrics -> Nat]
      BY <1>2, ValuesAre DEF GateInv, Metrics
    <3> QED
      BY <1>1, <3>1, PassedIsClose
  <2> HIDE DEF close
  <2>2. /\ compared' = {<<Head(bench.corpora), close>>}
        /\ {Head(bench.corpora)} = bench.args.corpora
    BY <1>1, <1>2 DEF RunStoreComparison, Accounted
  <2>3. {c[1] : c \in compared'} = bench.args.corpora /\ Verdicts' = {close}
    BY <2>2 DEF Verdicts
  <2>4. /\ bench'.pc = "exited" /\ bench'.args = bench.args /\ bench'.code \in {0, 2}
        /\ bench'.code = 0 => Verdicts' # {"outside"}
        /\ bench'.code = 2 => Verdicts' # {"inside"}
    <3>1. /\ bench'.pc = "exited" /\ bench'.args = bench.args
          /\ bench'.code = IF Passed(bench.result, baseline.values) THEN 0 ELSE 2
      BY <1>2 DEF Exit
    <3> QED
      BY <2>1, <2>3, <3>1
  <2>5. ExitTellsTheComparison'
    <3>1. Verdicts' = {close}
      BY <2>3
    <3> QED
      BY <1>1, <2>3, <2>4, <3>1 DEF ExitTellsTheComparison, Gating, Verdicts
  <2> QED
    BY <2>4, <2>5 DEF RunStoreComparison, GateInv
<1> QED
  BY <1>2, FailureKeeps DEF RunStoreComparison

\* The invariant is inductive.
LEMMA GateNextKeeps == GateInv /\ [BenchNext]_benchVars => GateInv'
<1>1. GateInv /\ BenchNext => GateInv'
  BY WriteBaselineKeeps, BeginBenchKeeps, LoadCorpusConfigKeeps, MakeEmbedderKeeps,
     ValidateUpFrontKeeps, RunBenchmarkKeeps, OutputResultKeeps, RunIrComparisonKeeps,
     FinishBenchmarkKeeps, RunStoreBenchmarkKeeps, SloVerdictKeeps, RunStoreComparisonKeeps
     DEF BenchNext
<1>2. GateInv /\ UNCHANGED benchVars => GateInv'
  BY DEF benchVars, GateInv, ExitTellsTheComparison, Accounted, Gating, Verdicts
<1> QED
  BY <1>1, <1>2

\* The exit status of a gate tells what was compared and how close it was, for
\* every set of corpora in any order, every limit, every value of a metric and
\* whatever f64 makes of the values right at a tolerance.
THEOREM ExitTells == BenchSpec => []ExitTellsTheComparison
<1>1. GateInv => ExitTellsTheComparison
  BY DEF GateInv, Preparing, Judging, ExitTellsTheComparison
<1> QED
  BY <1>1, GateInitHolds, GateNextKeeps, PTL DEF BenchSpec

-----------------------------------------------------------------------------
(***************************************************************************)
(* Quality.  A total over a finite set is recursive; it is found by sets   *)
(* of least size for which it would not be what it should.  The ideal     *)
(* ranking is worth most because its first m files are worth most for     *)
(* every m, and discounts fall.                                           *)
(***************************************************************************)

\* What f has on S, together.
Total(f, S) ==
  MapThenFoldSet(LAMBDA x, acc : x + acc, 0, LAMBDA i : f[i], LAMBDA s : CHOOSE x \in s : TRUE, S)

\* g has the totals on the sets of D, each from that of one element less.
TotalFrom(f, g, s) ==
  IF s = {} THEN 0 ELSE f[CHOOSE x \in s : TRUE] + g[s \ {CHOOSE x \in s : TRUE}]
Totals(f, D, g) == g = [s \in D |-> TotalFrom(f, g, s)]

UpToCard(S, k) == {s \in SUBSET S : Cardinality(s) <= k}

-----------------------------------------------------------------------------
\* A set of numbers has a least one.
LEMMA Least ==
  ASSUME NEW S \in SUBSET Nat, S # {}
  PROVE  \E m \in S : \A k \in S : m <= k
<1>1. PICK m \in S : \A k \in S : <<k, m>> \notin OpToRel(<, Nat)
  BY NatLessThanWellFounded, WFMin
<1>2. \A k \in S : ~(k < m)
  BY <1>1 DEF OpToRel
<1> QED
  BY <1>2

\* One element less.
LEMMA OneLess ==
  ASSUME NEW S, IsFiniteSet(S), NEW x \in S
  PROVE  /\ IsFiniteSet(S \ {x}) /\ Cardinality(S) \in Nat \ {0}
         /\ Cardinality(S \ {x}) = Cardinality(S) - 1 /\ Cardinality(S \ {x}) \in Nat
<1>1. IsFiniteSet(S \ {x}) /\ Cardinality(S \ {x}) = Cardinality(S) - 1
  BY FS_RemoveElement
<1>2. Cardinality(S) \in Nat /\ Cardinality(S \ {x}) \in Nat
  BY <1>1, FS_CardinalityType
<1> QED
  BY <1>1, <1>2

\* A total is defined by the totals of the smaller sets.
LEMMA TotalUnfolds ==
  ASSUME NEW f, NEW S
  PROVE  Total(f, S) = (CHOOSE g : Totals(f, SUBSET S, g))[S]
BY DEF Total, MapThenFoldSet, Totals, TotalFrom

\* There are totals of the sets up to a size.
LEMMA TotalsExist ==
  ASSUME NEW f, NEW S, IsFiniteSet(S), NEW k \in Nat
  PROVE  \E g : Totals(f, UpToCard(S, k), g)
<1>1. PICK Bad : Bad = {j \in Nat : ~\E g : Totals(f, UpToCard(S, j), g)}
  OBVIOUS
<1>2. SUFFICES ASSUME Bad # {} PROVE FALSE
  BY <1>1
<1>3. PICK j \in Bad : \A i \in Bad : j <= i
  BY <1>1, <1>2, Least
<1>4. j \in Nat /\ ~\E g : Totals(f, UpToCard(S, j), g)
  BY <1>1
<1>5. \A s \in UpToCard(S, j) : s \subseteq S /\ IsFiniteSet(s) /\ Cardinality(s) \in Nat /\ Cardinality(s) <= j
  BY FS_Subset, FS_CardinalityType DEF UpToCard
<1>6. CASE j = 0
  <2>1. \A s \in UpToCard(S, j) : s = {}
    <3> SUFFICES ASSUME NEW s \in UpToCard(S, j) PROVE s = {}
      OBVIOUS
    <3>1. Cardinality(s) = 0
      BY <1>5, <1>6
    <3> QED
      BY <1>5, <3>1, FS_EmptySet
  <2>2. PICK g : g = [s \in UpToCard(S, j) |-> 0]
    OBVIOUS
  <2>3. Totals(f, UpToCard(S, j), g)
    BY <2>1, <2>2 DEF Totals, TotalFrom
  <2> QED
    BY <1>4, <2>3
<1>7. CASE j # 0
  <2>1. j - 1 \in Nat /\ ~(j <= j - 1)
    BY <1>4, <1>7
  <2>2. j - 1 \notin Bad
    BY <1>3, <2>1
  <2>3. PICK g : Totals(f, UpToCard(S, j - 1), g)
    BY <1>1, <2>1, <2>2
  <2>4. PICK h : h = [s \in UpToCard(S, j) |-> TotalFrom(f, g, s)]
    OBVIOUS
  <2>5. \A s \in UpToCard(S, j) : s # {} =>
          g[s \ {CHOOSE x \in s : TRUE}] = h[s \ {CHOOSE x \in s : TRUE}]
    <3> SUFFICES ASSUME NEW s \in UpToCard(S, j), s # {}
                 PROVE  g[s \ {CHOOSE x \in s : TRUE}] = h[s \ {CHOOSE x \in s : TRUE}]
      OBVIOUS
    <3>1. PICK y \in s : y = CHOOSE x \in s : TRUE
      OBVIOUS
    <3>2. Cardinality(s \ {y}) \in Nat /\ Cardinality(s \ {y}) = Cardinality(s) - 1 /\ Cardinality(s) \in Nat
      BY <1>5, OneLess
    <3>3. Cardinality(s \ {y}) <= j - 1 /\ Cardinality(s \ {y}) <= j
      BY <1>4, <1>5, <3>2
    <3>4. s \ {y} \in UpToCard(S, j - 1) /\ s \ {y} \in UpToCard(S, j)
      BY <1>5, <3>3 DEF UpToCard
    <3>5. PICK t : t = s \ {y}
      OBVIOUS
    <3>6. g[t] = h[t]
      BY <2>3, <2>4, <3>4, <3>5 DEF Totals, TotalFrom
    <3> QED
      BY <3>1, <3>5, <3>6
  <2>6. \A s \in UpToCard(S, j) : TotalFrom(f, g, s) = TotalFrom(f, h, s)
    BY <2>5 DEF TotalFrom
  <2>7. Totals(f, UpToCard(S, j), h)
    BY <2>4, <2>6 DEF Totals
  <2> QED
    BY <1>4, <2>7
<1> QED
  BY <1>6, <1>7

\* And of all subsets.
LEMMA AllTotals ==
  ASSUME NEW f, NEW S, IsFiniteSet(S)
  PROVE  \E g : Totals(f, SUBSET S, g) /\ Total(f, S) = g[S]
<1>1. Cardinality(S) \in Nat /\ \A s \in SUBSET S : Cardinality(s) <= Cardinality(S)
  BY FS_Subset, FS_CardinalityType
<1>2. UpToCard(S, Cardinality(S)) = SUBSET S
  BY <1>1 DEF UpToCard
<1>3. \E g : Totals(f, UpToCard(S, Cardinality(S)), g)
  BY <1>1, TotalsExist
<1>4. \E g : Totals(f, SUBSET S, g)
  BY <1>2, <1>3
<1>5. PICK g : g = CHOOSE h : Totals(f, SUBSET S, h)
  OBVIOUS
<1>6. Totals(f, SUBSET S, g)
  BY <1>4, <1>5
<1> QED
  BY <1>5, <1>6, TotalUnfolds

\* Totals on the subsets of two sets are the same where both have them.
LEMMA TotalsAgree ==
  ASSUME NEW f, NEW S, IsFiniteSet(S), NEW T \in SUBSET S, NEW g, NEW h,
         Totals(f, SUBSET S, g), Totals(f, SUBSET T, h)
  PROVE  g[T] = h[T]
<1>1. PICK Bad : Bad = {s \in SUBSET T : g[s] # h[s]}
  OBVIOUS
<1>2. SUFFICES ASSUME Bad # {} PROVE FALSE
  BY <1>1
<1>3. PICK N : N = {Cardinality(s) : s \in Bad}
  OBVIOUS
<1>4. \A s \in SUBSET T : s \in SUBSET S /\ IsFiniteSet(s) /\ Cardinality(s) \in Nat
  BY FS_Subset, FS_CardinalityType
<1>5. N \in SUBSET Nat /\ N # {}
  BY <1>1, <1>2, <1>3, <1>4
<1>6. PICK k \in N : \A x \in N : k <= x
  BY <1>5, Least
<1>7. PICK s \in Bad : k = Cardinality(s)
  BY <1>3
<1>8. s \in SUBSET T /\ s \in SUBSET S /\ g[s] # h[s] /\ IsFiniteSet(s)
  BY <1>1, <1>4
<1>9. s # {}
  BY <1>8 DEF Totals, TotalFrom
<1>10. PICK y \in s : y = CHOOSE x \in s : TRUE
  BY <1>9
<1>11. PICK t : t = s \ {y}
  OBVIOUS
<1>12. g[s] = f[y] + g[t] /\ h[s] = f[y] + h[t]
  BY <1>8, <1>9, <1>10, <1>11 DEF Totals, TotalFrom
<1>13. t \in SUBSET T /\ ~(Cardinality(s) <= Cardinality(t))
  BY <1>8, <1>11, OneLess
<1>14. t \notin Bad
  BY <1>3, <1>6, <1>7, <1>13
<1> QED
  BY <1>1, <1>8, <1>12, <1>13, <1>14

\* The total of nothing, and that of one element more.
LEMMA TotalIs ==
  ASSUME NEW f, NEW S, IsFiniteSet(S)
  PROVE  /\ S = {} => Total(f, S) = 0
         /\ S # {} => \E y \in S : Total(f, S) = f[y] + Total(f, S \ {y})
<1>1. PICK g : Totals(f, SUBSET S, g) /\ Total(f, S) = g[S]
  BY AllTotals
<1>2. S = {} => Total(f, S) = 0
  BY <1>1 DEF Totals, TotalFrom
<1>3. ASSUME S # {} PROVE \E y \in S : Total(f, S) = f[y] + Total(f, S \ {y})
  <2>1. PICK y \in S : y = CHOOSE x \in S : TRUE
    BY <1>3
  <2>2. PICK t : t = S \ {y}
    OBVIOUS
  <2>3. g[S] = f[y] + g[t]
    BY <1>1, <1>3, <2>1, <2>2 DEF Totals, TotalFrom
  <2>4. IsFiniteSet(t) /\ t \in SUBSET S
    BY <2>2, FS_Subset
  <2>5. PICK h : Totals(f, SUBSET t, h) /\ Total(f, t) = h[t]
    BY <2>4, AllTotals
  <2>6. g[t] = h[t]
    BY <1>1, <2>4, <2>5, TotalsAgree
  <2> QED
    BY <1>1, <2>2, <2>3, <2>5, <2>6
<1> QED
  BY <1>2, <1>3

\* A total is a number, and has every element once.
LEMMA TotalOf ==
  ASSUME NEW f, NEW S, IsFiniteSet(S), \A x \in S : f[x] \in Nat
  PROVE  /\ Total(f, S) \in Nat
         /\ \A y \in S : Total(f, S) = f[y] + Total(f, S \ {y}) /\ Total(f, S \ {y}) \in Nat
<1> DEFINE Fine(s) == /\ Total(f, s) \in Nat
                      /\ \A y \in s : Total(f, s) = f[y] + Total(f, s \ {y}) /\ Total(f, s \ {y}) \in Nat
<1>1. PICK Bad : Bad = {s \in SUBSET S : ~Fine(s)}
  OBVIOUS
<1>2. SUFFICES ASSUME Bad # {} PROVE FALSE
  BY <1>1
<1>3. PICK N : N = {Cardinality(s) : s \in Bad}
  OBVIOUS
<1>4. \A s \in SUBSET S : IsFiniteSet(s) /\ Cardinality(s) \in Nat
  BY FS_Subset, FS_CardinalityType
<1>5. N \in SUBSET Nat /\ N # {}
  BY <1>1, <1>2, <1>3, <1>4
<1>6. PICK k \in N : \A x \in N : k <= x
  BY <1>5, Least
<1>7. PICK s \in Bad : k = Cardinality(s)
  BY <1>3
<1>8. s \in SUBSET S /\ ~Fine(s) /\ IsFiniteSet(s)
  BY <1>1, <1>4
<1>9. \A y \in s : Fine(s \ {y})
  <2> SUFFICES ASSUME NEW y \in s PROVE Fine(s \ {y})
    OBVIOUS
  <2>1. s \ {y} \in SUBSET S /\ ~(Cardinality(s) <= Cardinality(s \ {y}))
    BY <1>8, OneLess
  <2>2. s \ {y} \notin Bad
    BY <1>3, <1>6, <1>7, <2>1
  <2> QED
    BY <1>1, <2>1, <2>2
<1>10. s # {}
  <2>1. s = {} => Total(f, s) = 0
    BY <1>8, TotalIs
  <2> QED
    BY <1>8, <2>1
<1>11. PICK c \in s : Total(f, s) = f[c] + Total(f, s \ {c})
  BY <1>8, <1>10, TotalIs
<1>12. \A y \in s : f[y] \in Nat /\ Total(f, s \ {y}) \in Nat
  BY <1>8, <1>9
<1>13. Total(f, s) \in Nat
  BY <1>11, <1>12
<1>14. ASSUME NEW y \in s PROVE Total(f, s) = f[y] + Total(f, s \ {y})
  <2>1. CASE y = c
    BY <1>11, <2>1
  <2>2. CASE y # c
    <3>1. PICK t, u, v : t = s \ {c} /\ u = s \ {y} /\ v = (s \ {c}) \ {y}
      OBVIOUS
    <3>2. v = u \ {c} /\ v = t \ {y} /\ y \in t /\ c \in u
      BY <2>2, <3>1
    <3>3. Fine(t) /\ Fine(u)
      BY <1>9, <3>1
    <3>4. Total(f, t) = f[y] + Total(f, v) /\ Total(f, u) = f[c] + Total(f, v) /\ Total(f, v) \in Nat
      BY <3>2, <3>3
    <3>5. Total(f, s) = f[c] + Total(f, t)
      BY <1>11, <3>1
    <3>6. f[c] \in Nat /\ f[y] \in Nat
      BY <1>12
    <3>7. Total(f, s) = f[y] + Total(f, u)
      BY <3>4, <3>5, <3>6
    <3> QED
      BY <3>1, <3>7
  <2> QED
    BY <2>1, <2>2
<1> QED
  BY <1>8, <1>12, <1>13, <1>14

\* Functions that are the same on a set have the same total there.
LEMMA TotalSame ==
  ASSUME NEW f, NEW h, NEW S, IsFiniteSet(S), \A x \in S : f[x] = h[x] /\ f[x] \in Nat
  PROVE  Total(f, S) = Total(h, S)
<1>1. PICK Bad : Bad = {s \in SUBSET S : Total(f, s) # Total(h, s)}
  OBVIOUS
<1>2. SUFFICES ASSUME Bad # {} PROVE FALSE
  BY <1>1
<1>3. PICK N : N = {Cardinality(s) : s \in Bad}
  OBVIOUS
<1>4. \A s \in SUBSET S : IsFiniteSet(s) /\ Cardinality(s) \in Nat
  BY FS_Subset, FS_CardinalityType
<1>5. N \in SUBSET Nat /\ N # {}
  BY <1>1, <1>2, <1>3, <1>4
<1>6. PICK k \in N : \A x \in N : k <= x
  BY <1>5, Least
<1>7. PICK s \in Bad : k = Cardinality(s)
  BY <1>3
<1>8. s \in SUBSET S /\ Total(f, s) # Total(h, s) /\ IsFiniteSet(s)
  BY <1>1, <1>4
<1>9. s # {}
  BY <1>8, TotalIs
<1>10. PICK y \in s : Total(f, s) = f[y] + Total(f, s \ {y})
  BY <1>8, <1>9, TotalIs
<1>11. Total(h, s) = h[y] + Total(h, s \ {y})
  <2>1. \A x \in s : h[x] \in Nat
    BY <1>8
  <2> QED
    BY <1>8, <2>1, TotalOf
<1>12. s \ {y} \in SUBSET S /\ ~(Cardinality(s) <= Cardinality(s \ {y}))
  BY <1>8, OneLess
<1>13. s \ {y} \notin Bad
  BY <1>3, <1>6, <1>7, <1>12
<1>14. Total(f, s \ {y}) = Total(h, s \ {y}) /\ f[y] = h[y]
  BY <1>1, <1>8, <1>12, <1>13
<1> QED
  BY <1>8, <1>10, <1>11, <1>14

\* A bounded set of numbers has a greatest one.
LEMMA Greatest ==
  ASSUME NEW S \in SUBSET Nat, S # {}, NEW b \in Nat, \A x \in S : x <= b
  PROVE  \E m \in S : \A k \in S : k <= m
<1>1. PICK R : R = {b - x : x \in S}
  OBVIOUS
<1>0. \A x \in S : b - x \in Nat
  OBVIOUS
<1>2. R \in SUBSET Nat /\ R # {}
  BY <1>0, <1>1
<1>3. PICK r \in R : \A k \in R : r <= k
  BY <1>2, Least
<1>4. PICK m \in S : r = b - m
  BY <1>1
<1>5. \A k \in S : k \in Int /\ m \in Int /\ b \in Int /\ b - m <= b - k
  BY <1>1, <1>3, <1>4
<1> QED
  BY <1>4, <1>5

\* A finite set of numbers is bounded.
LEMMA FiniteGreatest ==
  ASSUME NEW S \in SUBSET Nat, S # {}, IsFiniteSet(S)
  PROVE  \E m \in S : \A k \in S : k <= m
<1> DEFINE Above(x) == {y \in S : y > x}
<1>1. \A x \in S : IsFiniteSet(Above(x)) /\ Cardinality(Above(x)) \in Nat
  BY FS_Subset, FS_CardinalityType
<1>2. PICK N : N = {Cardinality(Above(x)) : x \in S}
  OBVIOUS
<1>3. N \in SUBSET Nat /\ N # {}
  BY <1>1, <1>2
<1>4. PICK n \in N : \A k \in N : n <= k
  BY <1>3, Least
<1>5. PICK m \in S : n = Cardinality(Above(m))
  BY <1>2
<1>6. ASSUME NEW k \in S, ~(k <= m) PROVE FALSE
  <2>1. k \in Int /\ m \in Int /\ k > m /\ \A y \in S : y \in Int
    BY <1>6
  <2>2. k \in Above(m) /\ k \notin Above(k)
    BY <2>1
  <2>9. \A y \in Int : y > k => y > m /\ y # k
    BY <2>1
  <2>3. Above(k) \subseteq Above(m) \ {k}
    BY <2>1, <2>9
  <2>4. Cardinality(Above(m) \ {k}) = Cardinality(Above(m)) - 1 /\ IsFiniteSet(Above(m) \ {k})
        /\ Cardinality(Above(m)) \in Nat
    BY <1>1, <2>2, OneLess
  <2>5. Cardinality(Above(k)) <= Cardinality(Above(m) \ {k})
    BY <2>3, <2>4, FS_Subset
  <2>6. Cardinality(Above(k)) \in N
    BY <1>2
  <2>7. Cardinality(Above(m)) <= Cardinality(Above(k))
    BY <1>4, <1>5, <2>6
  <2> QED
    BY <1>1, <2>4, <2>5, <2>7
<1> QED
  BY <1>6

\* What f has in the first m places, together, is what it has in those before
\* the last, and in the last.
LEMMA PrefixTotal ==
  ASSUME NEW n \in Nat, NEW f, \A i \in 1 .. n : f[i] \in Nat
  PROVE  /\ Total(f, 1 .. 0) = 0
         /\ \A m \in 0 .. n : Total(f, 1 .. m) \in Nat
         /\ \A m \in 1 .. n : Total(f, 1 .. m) = f[m] + Total(f, 1 .. m - 1)
<1>1. \A m \in 0 .. n : m \in Int /\ IsFiniteSet(1 .. m)
  BY FS_Interval
<1>2. Total(f, 1 .. 0) = 0
  <2>1. (1 .. 0) = {} /\ IsFiniteSet({})
    BY FS_EmptySet
  <2>2. Total(f, {}) = 0
    BY <2>1, TotalIs
  <2> QED
    BY <2>1, <2>2
<1>3. ASSUME NEW m \in 0 .. n PROVE Total(f, 1 .. m) \in Nat
  <2>1. \A i \in 1 .. m : f[i] \in Nat
    OBVIOUS
  <2> QED
    BY <1>1, <2>1, TotalOf
<1>4. ASSUME NEW m \in 1 .. n PROVE Total(f, 1 .. m) = f[m] + Total(f, 1 .. m - 1)
  <2>1. \A i \in 1 .. m : f[i] \in Nat
    OBVIOUS
  <2>2. m \in 1 .. m /\ (1 .. m) \ {m} = 1 .. m - 1 /\ m \in 0 .. n
    OBVIOUS
  <2>3. Total(f, 1 .. m) = f[m] + Total(f, (1 .. m) \ {m})
    BY <1>1, <2>1, <2>2, TotalOf
  <2> QED
    BY <2>2, <2>3
<1> QED
  BY <1>2, <1>3, <1>4

\* A longer sum of numbers is no less.
LEMMA LongerTotal ==
  ASSUME NEW n \in Nat, NEW f, \A i \in 1 .. n : f[i] \in Nat, NEW k \in 0 .. n
  PROVE  Total(f, 1 .. k) <= Total(f, 1 .. n)
<1>1. PICK Bad : Bad = {m \in Nat : k <= m /\ m <= n /\ ~(Total(f, 1 .. k) <= Total(f, 1 .. m))}
  OBVIOUS
<1>2. Bad \in SUBSET Nat
  BY <1>1
<1>3. SUFFICES ASSUME Bad # {} PROVE FALSE
  <2>1. k <= n
    OBVIOUS
  <2> QED
    BY <1>1, <1>3, <2>1
<1>4. PICK m \in Bad : \A x \in Bad : m <= x
  BY <1>2, <1>3, Least
<1>5. m \in Nat /\ k \in Nat /\ k <= m /\ m <= n /\ ~(Total(f, 1 .. k) <= Total(f, 1 .. m))
  BY <1>1
<1>6. Total(f, 1 .. k) \in Nat
  BY PrefixTotal
<1>7. m # k
  BY <1>5, <1>6
<1>8. m \in 1 .. n /\ m - 1 \in Nat /\ k <= m - 1 /\ m - 1 <= n /\ ~(m <= m - 1) /\ m - 1 \in 0 .. n
  BY <1>5, <1>7
<1>9. Total(f, 1 .. k) <= Total(f, 1 .. m - 1)
  BY <1>1, <1>4, <1>8
<1>10. Total(f, 1 .. m) = f[m] + Total(f, 1 .. m - 1) /\ Total(f, 1 .. m - 1) \in Nat /\ f[m] \in Nat
  BY <1>8, PrefixTotal
<1> QED
  BY <1>5, <1>6, <1>9, <1>10

\* One more place: a and b have the grades a and b there, and had A and B
\* before, discounted DA and DB; the discount was d and is e.
LEMMA OneMore ==
  ASSUME NEW A \in Nat, NEW B \in Nat, NEW DA \in Nat, NEW DB \in Nat,
         NEW a \in Nat, NEW b \in Nat, NEW d \in Nat, NEW e \in Nat,
         A <= B, e < d, DA + B * d <= DB + A * d
  PROVE  /\ (a * e + DA) + (b + B) * e <= (b * e + DB) + (a + A) * e
         /\ (a * e + DA) + (b + B) * e = (b * e + DB) + (a + A) * e =>
              A = B /\ DA + B * d = DB + A * d
<1>1. PICK x \in Nat : B = A + x
  <2>1. B - A \in Nat /\ B = A + (B - A)
    OBVIOUS
  <2> QED
    BY <2>1
<1>2. PICK y \in Nat : d = e + y /\ y >= 1
  <2>1. d - e \in Nat /\ d = e + (d - e) /\ d - e >= 1
    OBVIOUS
  <2> QED
    BY <2>1
<1>3. PICK Ad, xe, xy, Ae, ae, be \in Nat :
        /\ Ad = A * d /\ xe = x * e /\ xy = x * y /\ Ae = A * e /\ ae = a * e /\ be = b * e
  <2>1. A * d \in Nat /\ x * e \in Nat /\ x * y \in Nat /\ A * e \in Nat /\ a * e \in Nat /\ b * e \in Nat
    BY <1>1, <1>2
  <2> QED
    BY <2>1
<1>4. B * d = Ad + xe + xy
  <2>1. (A + x) * d = A * d + x * d
    BY <1>1
  <2>2. x * d = x * e + x * y
    BY <1>1, <1>2
  <2> QED
    BY <1>1, <1>3, <2>1, <2>2
<1>5. (b + B) * e = be + Ae + xe /\ (a + A) * e = ae + Ae
  <2>1. (b + (A + x)) * e = b * e + A * e + x * e
    BY <1>1
  <2>2. (a + A) * e = a * e + A * e
    OBVIOUS
  <2> QED
    BY <1>1, <1>3, <2>1, <2>2
<1>6. DA + xe + xy <= DB
  <2>1. DA + (Ad + xe + xy) <= DB + Ad
    BY <1>3, <1>4
  <2> QED
    BY <1>3, <2>1
<1>7. (ae + DA) + (be + Ae + xe) <= (be + DB) + (ae + Ae)
  BY <1>3, <1>6
<1>8. ASSUME (ae + DA) + (be + Ae + xe) = (be + DB) + (ae + Ae)
      PROVE  A = B /\ DA + B * d = DB + A * d
  <2>1. DA + xe = DB /\ xy = 0
    BY <1>3, <1>6, <1>8
  <2>2. x = 0
    <3>1. x * y = 0
      BY <1>3, <2>1
    <3>2. x # 0 => x * y # 0
      BY <1>1, <1>2
    <3> QED
      BY <3>1, <3>2
  <2>3. xe = 0
    BY <1>3, <2>2
  <2>4. A = B /\ DA = DB
    BY <1>1, <2>1, <2>2, <2>3
  <2> QED
    BY <2>4
<1> QED
  BY <1>3, <1>5, <1>7, <1>8

\* Less a place: from the sums with discounts to the sums alone.
LEMMA NoneMore ==
  ASSUME NEW A \in Nat, NEW B \in Nat, NEW DA \in Nat, NEW DB \in Nat, NEW d \in Nat,
         A <= B, DA + B * d <= DB + A * d
  PROVE  DA <= DB /\ (DA = DB => DA + B * d = DB + A * d)
<1>1. PICK x \in Nat : B = A + x
  <2>1. B - A \in Nat /\ B = A + (B - A)
    OBVIOUS
  <2> QED
    BY <2>1
<1>2. A * d \in Nat /\ x * d \in Nat /\ (A + x) * d = A * d + x * d
  BY <1>1
<1>3. PICK Ad, xd \in Nat : Ad = A * d /\ xd = x * d
  BY <1>2
<1>4. B * d = Ad + xd
  BY <1>1, <1>2, <1>3
<1>5. DA + (Ad + xd) <= DB + Ad
  BY <1>3, <1>4
<1>6. DA <= DB /\ (DA = DB => xd = 0)
  BY <1>3, <1>5
<1> QED
  BY <1>3, <1>4, <1>6

\* What n places have is a and b, d is the discount, x and y is what is left;
\* the first of a never have more than the first of b.
Compared(n, a, b, d, x, y) ==
  /\ n \in Nat
  /\ \A i \in 1 .. n : a[i] \in Nat /\ b[i] \in Nat /\ d[i] \in Nat
  /\ \A i, j \in 1 .. n : i < j => d[j] < d[i]
  /\ \A i \in 1 .. n : x[i] = a[i] * d[i] /\ y[i] = b[i] * d[i]
  /\ \A m \in 0 .. n : Total(a, 1 .. m) <= Total(b, 1 .. m)

\* Then a is worth no more than b, and as much only if it has as much until the
\* last place.
LEMMA Discounted ==
  ASSUME NEW n, NEW a, NEW b, NEW d, NEW x, NEW y, Compared(n, a, b, d, x, y)
  PROVE  /\ Total(x, 1 .. n) <= Total(y, 1 .. n)
         /\ Total(x, 1 .. n) = Total(y, 1 .. n) =>
              \A m \in 0 .. n - 1 : Total(a, 1 .. m) = Total(b, 1 .. m)
<1> USE DEF Compared
<1>1. \A i \in 1 .. n : x[i] \in Nat /\ y[i] \in Nat
  OBVIOUS
<1>2. /\ Total(a, 1 .. 0) = 0 /\ Total(b, 1 .. 0) = 0 /\ Total(x, 1 .. 0) = 0 /\ Total(y, 1 .. 0) = 0
      /\ \A m \in 0 .. n : /\ Total(a, 1 .. m) \in Nat /\ Total(b, 1 .. m) \in Nat
                           /\ Total(x, 1 .. m) \in Nat /\ Total(y, 1 .. m) \in Nat
      /\ \A m \in 1 .. n : /\ Total(a, 1 .. m) = a[m] + Total(a, 1 .. m - 1)
                           /\ Total(b, 1 .. m) = b[m] + Total(b, 1 .. m - 1)
                           /\ Total(x, 1 .. m) = x[m] + Total(x, 1 .. m - 1)
                           /\ Total(y, 1 .. m) = y[m] + Total(y, 1 .. m - 1)
  BY <1>1, PrefixTotal
<1> DEFINE Left(m)  == Total(x, 1 .. m) + Total(b, 1 .. m) * d[m]
           Right(m) == Total(y, 1 .. m) + Total(a, 1 .. m) * d[m]
           Same(m)  == \A k \in 0 .. m - 1 : Total(a, 1 .. k) = Total(b, 1 .. k)
           Fine(m)  == Left(m) <= Right(m) /\ (Left(m) = Right(m) => Same(m))
<1>3. \A m \in 1 .. n : Fine(m)
  <2>1. PICK Bad : Bad = {m \in Nat : m \in 1 .. n /\ ~Fine(m)}
    OBVIOUS
  <2>2. Bad \in SUBSET Nat
    BY <2>1
  <2>3. SUFFICES ASSUME Bad # {} PROVE FALSE
    <3>1. \A m \in 1 .. n : m \in Nat
      OBVIOUS
    <3> QED
      BY <2>1, <2>3, <3>1
  <2>4. PICK m \in Bad : \A k \in Bad : m <= k
    BY <2>2, <2>3, Least
  <2>5. m \in 1 .. n /\ ~Fine(m) /\ m \in Nat
    BY <2>1
  <2>6. CASE m = 1
    <3>1. /\ Total(a, 1 .. m) = a[m] + Total(a, 1 .. 0) /\ Total(b, 1 .. m) = b[m] + Total(b, 1 .. 0)
          /\ Total(x, 1 .. m) = x[m] + Total(x, 1 .. 0) /\ Total(y, 1 .. m) = y[m] + Total(y, 1 .. 0)
      <4>1. m - 1 = 0
        BY <2>6
      <4> HIDE <2>6 DEF Left, Right, Same, Fine
      <4> QED
        BY <1>2, <2>5, <4>1
    <3>2. a[m] \in Nat /\ b[m] \in Nat /\ x[m] \in Nat /\ y[m] \in Nat /\ d[m] \in Nat
      BY <1>1, <2>5
    <3>3. Total(a, 1 .. m) = a[m] /\ Total(b, 1 .. m) = b[m] /\ Total(x, 1 .. m) = x[m] /\ Total(y, 1 .. m) = y[m]
      BY <1>2, <3>1, <3>2
    <3>4. Left(m) = a[m] * d[m] + b[m] * d[m] /\ Right(m) = b[m] * d[m] + a[m] * d[m]
      BY <2>5, <3>3
    <3>5. a[m] * d[m] \in Nat /\ b[m] * d[m] \in Nat
      BY <3>2
    <3>6. Left(m) = Right(m) /\ Left(m) \in Nat
      BY <3>4, <3>5
    <3>7. Same(m)
      <4>1. \A k \in 0 .. m - 1 : k = 0
        BY <2>6
      <4> QED
        BY <1>2, <4>1
    <3> HIDE DEF Left, Right, Same
    <3> QED
      BY <2>5, <3>6, <3>7
  <2>7. CASE m # 1
    <3>1. m - 1 \in 1 .. n /\ m - 1 \in Nat /\ ~(m <= m - 1) /\ m - 1 \in 0 .. n /\ m \in 0 .. n /\ m - 1 < m
      BY <2>5, <2>7
    <3>2. Fine(m - 1)
      BY <2>1, <2>4, <3>1
    <3>3. PICK k \in Nat : k = m - 1
      BY <3>1
    <3>4. /\ Total(a, 1 .. k) \in Nat /\ Total(b, 1 .. k) \in Nat /\ Total(x, 1 .. k) \in Nat /\ Total(y, 1 .. k) \in Nat
          /\ a[m] \in Nat /\ b[m] \in Nat /\ d[k] \in Nat /\ d[m] \in Nat /\ d[m] < d[k]
      BY <1>2, <2>5, <3>1, <3>3
    <3>5. Total(a, 1 .. k) <= Total(b, 1 .. k)
      BY <3>1, <3>3
    <3>6. Total(x, 1 .. k) + Total(b, 1 .. k) * d[k] <= Total(y, 1 .. k) + Total(a, 1 .. k) * d[k]
      BY <3>2, <3>3
    <3>7. /\ Total(a, 1 .. m) = a[m] + Total(a, 1 .. k) /\ Total(b, 1 .. m) = b[m] + Total(b, 1 .. k)
          /\ Total(x, 1 .. m) = a[m] * d[m] + Total(x, 1 .. k) /\ Total(y, 1 .. m) = b[m] * d[m] + Total(y, 1 .. k)
      BY <1>2, <2>5, <3>3
    <3>8. PICK A, B, DA, DB : /\ A = Total(a, 1 .. k) /\ B = Total(b, 1 .. k)
                              /\ DA = Total(x, 1 .. k) /\ DB = Total(y, 1 .. k)
      OBVIOUS
    <3>9. PICK am, bm, dm, dk : am = a[m] /\ bm = b[m] /\ dm = d[m] /\ dk = d[k]
      OBVIOUS
    <3>10. /\ (am * dm + DA) + (bm + B) * dm <= (bm * dm + DB) + (am + A) * dm
           /\ (am * dm + DA) + (bm + B) * dm = (bm * dm + DB) + (am + A) * dm =>
                A = B /\ DA + B * dk = DB + A * dk
      <4>1. /\ A \in Nat /\ B \in Nat /\ DA \in Nat /\ DB \in Nat /\ am \in Nat /\ bm \in Nat /\ dm \in Nat /\ dk \in Nat
            /\ dm < dk /\ A <= B
        BY <3>4, <3>5, <3>8, <3>9
      <4>2. DA + B * dk <= DB + A * dk
        BY <3>6, <3>8, <3>9
      <4> QED
        BY <4>1, <4>2, OneMore
    <3>11. Left(m) = (am * dm + DA) + (bm + B) * dm /\ Right(m) = (bm * dm + DB) + (am + A) * dm
      BY <3>7, <3>8, <3>9
    <3>12. Left(m) = Right(m) => A = B /\ Left(k) = Right(k)
      BY <3>8, <3>9, <3>10, <3>11
    <3>13. ASSUME Left(m) = Right(m) PROVE Same(m)
      <4>1. Total(a, 1 .. k) = Total(b, 1 .. k) /\ Left(k) = Right(k)
        BY <3>8, <3>12, <3>13
      <4>2. Same(k)
        BY <3>2, <3>3, <4>1
      <4>3. \A j \in 0 .. m - 1 : j = k \/ j \in 0 .. k - 1
        BY <3>3, <2>5
      <4> QED
        BY <4>1, <4>2, <4>3
    <3>14. Left(m) <= Right(m)
      BY <3>10, <3>11
    <3> HIDE DEF Left, Right, Same
    <3> QED
      BY <2>5, <3>13, <3>14
  <2> QED
    BY <2>6, <2>7
<1>4. CASE n = 0
  <2>1. \A m \in 0 .. n - 1 : FALSE
    BY <1>4
  <2> QED
    BY <1>2, <1>4, <2>1
<1>5. CASE n # 0
  <2>1. n \in 1 .. n /\ n \in 0 .. n
    BY <1>5
  <2>2. PICK A, B, DA, DB, dn : /\ A = Total(a, 1 .. n) /\ B = Total(b, 1 .. n) /\ dn = d[n]
                                /\ DA = Total(x, 1 .. n) /\ DB = Total(y, 1 .. n)
    OBVIOUS
  <2>3. /\ A \in Nat /\ B \in Nat /\ DA \in Nat /\ DB \in Nat /\ dn \in Nat /\ A <= B
    BY <1>2, <2>1, <2>2
  <2>4. DA + B * dn <= DB + A * dn /\ (DA + B * dn = DB + A * dn => Same(n))
    BY <1>3, <2>1, <2>2
  <2>5. DA <= DB /\ (DA = DB => DA + B * dn = DB + A * dn)
    BY <2>3, <2>4, NoneMore
  <2> QED
    BY <2>2, <2>4, <2>5
<1> QED
  BY <1>4, <1>5

\* Of sets of equal size, one that leaves out no more than it has is worth most.
LEMMA TopIsMost ==
  ASSUME NEW h, NEW F, IsFiniteSet(F), \A x \in F : h[x] \in Nat,
         NEW A \in SUBSET F, NEW T \in SUBSET F, Cardinality(A) <= Cardinality(T),
         \A x \in T : \A y \in A \ T : h[y] <= h[x]
  PROVE  Total(h, A) <= Total(h, T)
<1> DEFINE Fits(B, U) == /\ B \in SUBSET F /\ U \in SUBSET F /\ Cardinality(B) <= Cardinality(U)
                         /\ \A x \in U : \A y \in B \ U : h[y] <= h[x]
           Fails(B, U) == Fits(B, U) /\ ~(Total(h, B) <= Total(h, U))
<1>1. \A B \in SUBSET F : /\ IsFiniteSet(B) /\ Cardinality(B) \in Nat /\ Total(h, B) \in Nat
                          /\ \A y \in B : /\ Total(h, B) = h[y] + Total(h, B \ {y})
                                          /\ Total(h, B \ {y}) \in Nat /\ h[y] \in Nat
  <2> SUFFICES ASSUME NEW B \in SUBSET F
               PROVE  /\ IsFiniteSet(B) /\ Cardinality(B) \in Nat /\ Total(h, B) \in Nat
                      /\ \A y \in B : /\ Total(h, B) = h[y] + Total(h, B \ {y})
                                      /\ Total(h, B \ {y}) \in Nat /\ h[y] \in Nat
    OBVIOUS
  <2>1. IsFiniteSet(B) /\ \A x \in B : h[x] \in Nat
    BY FS_Subset
  <2> QED
    BY <2>1, TotalOf, FS_CardinalityType
<1>2. SUFFICES ASSUME Fails(A, T) PROVE FALSE
  OBVIOUS
<1>3. PICK N : N = {Cardinality(B) : B \in {C \in SUBSET F : \E U \in SUBSET F : Fails(C, U)}}
  OBVIOUS
<1>4. N \in SUBSET Nat /\ N # {}
  <2>1. \E U \in SUBSET F : Fails(A, U)
    BY <1>2
  <2> HIDE DEF Fails
  <2>2. N # {}
    BY <1>3, <2>1
  <2>3. \A B \in SUBSET F : Cardinality(B) \in Nat
    BY <1>1
  <2>4. N \in SUBSET Nat
    BY <1>3, <2>3
  <2> QED
    BY <2>2, <2>4
<1>5. PICK k \in N : \A x \in N : k <= x
  BY <1>4, Least
<1>6. PICK B, U \in SUBSET F : Fails(B, U) /\ k = Cardinality(B)
  <2> HIDE DEF Fails
  <2> QED
    BY <1>3
<1>7. ASSUME NEW C \in SUBSET F, NEW V \in SUBSET F, Fits(C, V), Cardinality(C) < Cardinality(B)
      PROVE  Total(h, C) <= Total(h, V)
  <2>1. SUFFICES ASSUME Fails(C, V) PROVE FALSE
    BY <1>7
  <2> HIDE DEF Fails, Fits
  <2>3. Cardinality(C) \in N
    BY <1>3, <2>1
  <2>4. k <= Cardinality(C)
    BY <1>5, <2>3
  <2> QED
    BY <1>1, <1>6, <1>7, <2>4
<1>8. CASE \E y \in B : y \in U
  <2>1. PICK y \in B : y \in U
    BY <1>8
  <2>2. PICK C, V : C = B \ {y} /\ V = U \ {y}
    OBVIOUS
  <2>3. /\ C \in SUBSET F /\ V \in SUBSET F /\ Cardinality(C) = Cardinality(B) - 1 /\ Cardinality(V) = Cardinality(U) - 1
        /\ Cardinality(C) \in Nat /\ Cardinality(V) \in Nat
    BY <1>1, <2>1, <2>2, OneLess
  <2>4. Cardinality(C) < Cardinality(B) /\ Cardinality(C) <= Cardinality(V)
    BY <1>1, <1>6, <2>3
  <2>5. C \ V \subseteq B \ U /\ V \subseteq U
    BY <2>1, <2>2
  <2>6. Fits(C, V)
    BY <1>6, <2>3, <2>4, <2>5
  <2>7. Total(h, C) <= Total(h, V)
    BY <1>7, <2>3, <2>4, <2>6
  <2>8. Total(h, B) = h[y] + Total(h, C) /\ Total(h, U) = h[y] + Total(h, V)
        /\ h[y] \in Nat /\ Total(h, C) \in Nat /\ Total(h, V) \in Nat
    BY <1>1, <2>1, <2>2
  <2>9. Total(h, B) <= Total(h, U)
    BY <2>7, <2>8
  <2> QED
    BY <1>6, <2>9
<1>9. CASE B = {}
  <2>1. Total(h, B) = 0
    BY <1>1, <1>9, TotalIs
  <2>2. Total(h, B) <= Total(h, U)
    BY <1>1, <2>1
  <2> QED
    BY <1>6, <2>2
<1>10. CASE B # {} /\ \A y \in B : y \notin U
  <2>1. PICK y \in B : TRUE
    BY <1>10
  <2>2. U # {}
    <3>1. Cardinality(B) \in Nat \ {0} /\ Cardinality(B) <= Cardinality(U)
      BY <1>1, <1>6, <2>1, OneLess
    <3>2. Cardinality({}) = 0
      BY FS_EmptySet
    <3>3. Cardinality(U) # 0
      BY <1>1, <3>1
    <3> QED
      BY <3>2, <3>3
  <2>3. PICK x \in U : TRUE
    BY <2>2
  <2>4. PICK C, V : C = B \ {y} /\ V = U \ {x}
    OBVIOUS
  <2>5. /\ C \in SUBSET F /\ V \in SUBSET F /\ Cardinality(C) = Cardinality(B) - 1 /\ Cardinality(V) = Cardinality(U) - 1
        /\ Cardinality(C) \in Nat /\ Cardinality(V) \in Nat
    BY <1>1, <2>1, <2>3, <2>4, OneLess
  <2>6. Cardinality(C) < Cardinality(B) /\ Cardinality(C) <= Cardinality(V)
    BY <1>1, <1>6, <2>5
  <2>7. C \ V \subseteq B \ U /\ V \subseteq U
    BY <1>10, <2>4
  <2>8. Fits(C, V)
    BY <1>6, <2>5, <2>6, <2>7
  <2>9. Total(h, C) <= Total(h, V)
    BY <1>7, <2>5, <2>6, <2>8
  <2>10. Total(h, B) = h[y] + Total(h, C) /\ Total(h, U) = h[x] + Total(h, V)
        /\ h[y] \in Nat /\ h[x] \in Nat /\ Total(h, C) \in Nat /\ Total(h, V) \in Nat
    BY <1>1, <2>1, <2>3, <2>4
  <2>11. h[y] <= h[x]
    BY <1>6, <1>10, <2>1, <2>3
  <2>12. Total(h, B) <= Total(h, U)
    BY <2>9, <2>10, <2>11
  <2> QED
    BY <1>6, <2>12
<1> QED
  BY <1>8, <1>9, <1>10

\* A finite set can be put into descending order.
LEMMA SortedExists ==
  ASSUME NEW h, NEW F, IsFiniteSet(F), \A x \in F : h[x] \in Nat
  PROVE  \E r \in SetToSeqs(F) : \A i, j \in DOMAIN r : i < j => h[r[i]] >= h[r[j]]
<1> DEFINE Sorted(S, r) == /\ r \in SetToSeqs(S)
                           /\ \A i, j \in DOMAIN r : i < j => h[r[i]] >= h[r[j]]
<1>1. \A S \in SUBSET F : IsFiniteSet(S) /\ Cardinality(S) \in Nat
  BY FS_Subset, FS_CardinalityType
<1>2. PICK N : N = {Cardinality(S) : S \in {T \in SUBSET F : ~\E r : Sorted(T, r)}}
  OBVIOUS
<1>3. SUFFICES ASSUME ~\E r : Sorted(F, r) PROVE FALSE
  OBVIOUS
<1>4. N \in SUBSET Nat /\ N # {}
  <2> HIDE DEF Sorted
  <2>1. N # {}
    BY <1>2, <1>3
  <2>2. N \in SUBSET Nat
    BY <1>1, <1>2
  <2> QED
    BY <2>1, <2>2
<1>5. PICK k \in N : \A x \in N : k <= x
  BY <1>4, Least
<1>6. PICK S \in SUBSET F : k = Cardinality(S) /\ ~\E r : Sorted(S, r)
  <2> HIDE DEF Sorted
  <2> QED
    BY <1>2
<1>7. CASE S = {}
  <2>1. Cardinality(S) = 0 /\ (1 .. 0) = {}
    BY <1>7, FS_EmptySet
  <2>2. PICK r : r = [i \in 1 .. Cardinality(S) |-> 0]
    OBVIOUS
  <2>3. DOMAIN r = {} /\ r \in [1 .. Cardinality(S) -> S]
    BY <2>1, <2>2
  <2>4. r \in SetToSeqs(S)
    BY <2>1, <2>3 DEF SetToSeqs
  <2>5. Sorted(S, r)
    BY <2>3, <2>4
  <2> QED
    BY <1>6, <2>5
<1>8. CASE S # {}
  <2>1. PICK V : V = {h[x] : x \in S}
    OBVIOUS
  <2>2. V \in SUBSET Nat /\ V # {}
    <3>1. \A x \in S : h[x] \in Nat
      OBVIOUS
    <3> QED
      BY <1>8, <2>1, <3>1
  <2>3. PICK v \in V : \A w \in V : v <= w
    BY <2>2, Least
  <2>4. PICK y \in S : v = h[y]
    BY <2>1
  <2>5. \A x \in S : h[y] <= h[x]
    BY <2>1, <2>3, <2>4
  <2>6. PICK n \in Nat : n = Cardinality(S) /\ n >= 1 /\ Cardinality(S \ {y}) = n - 1
    BY <1>1, OneLess
  <2>7. Cardinality(S \ {y}) \notin N
    BY <1>5, <1>6, <2>6
  <2>8. \E r : Sorted(S \ {y}, r)
    <3> HIDE DEF Sorted
    <3>1. S \ {y} \in SUBSET F
      OBVIOUS
    <3> QED
      BY <1>2, <2>7, <3>1
  <2>9. PICK r : Sorted(S \ {y}, r)
    BY <2>8
  <2>10. /\ r \in [1 .. n - 1 -> S \ {y}] /\ \A i, j \in 1 .. n - 1 : i # j => r[i] # r[j]
         /\ \A i, j \in 1 .. n - 1 : i < j => h[r[i]] >= h[r[j]]
    BY <2>6, <2>9 DEF SetToSeqs
  <2>11. PICK t : t = [i \in 1 .. n |-> IF i < n THEN r[i] ELSE y]
    OBVIOUS
  <2>12. /\ \A i \in 1 .. n - 1 : i \in 1 .. n /\ t[i] = r[i] /\ t[i] \in S /\ t[i] # y
         /\ t[n] = y /\ n \in 1 .. n /\ \A i \in 1 .. n : i = n \/ i \in 1 .. n - 1
    BY <2>6, <2>10, <2>11
  <2>13. t \in [1 .. n -> S]
    BY <2>10, <2>11, <2>12
  <2>14. \A i, j \in 1 .. n : i # j => t[i] # t[j]
    BY <2>10, <2>12
  <2>15. ASSUME NEW i \in 1 .. n, NEW j \in 1 .. n, i < j PROVE h[t[i]] >= h[t[j]]
    <3>1. i \in 1 .. n - 1 /\ t[i] \in S /\ y \in S
      BY <2>15, <2>12
    <3>2. CASE j = n
      <4>1. h[y] <= h[t[i]] /\ h[y] \in Nat /\ h[t[i]] \in Nat
        BY <2>5, <3>1
      <4> QED
        BY <2>12, <3>2, <4>1
    <3>3. CASE j # n
      BY <2>10, <2>12, <2>15, <3>1, <3>3
    <3> QED
      BY <3>2, <3>3
  <2>16. t \in SetToSeqs(S)
    BY <2>6, <2>13, <2>14 DEF SetToSeqs
  <2>17. Sorted(S, t)
    BY <2>13, <2>15, <2>16
  <2> QED
    BY <1>6, <2>17
<1> QED
  BY <1>7, <1>8

\* The ideal ranking has all files, each once, those of higher grades first.
LEMMA IdealRankIs ==
  ASSUME NEW F, IsFiniteSet(F), NEW h, h \in [F -> Nat]
  PROVE  /\ Cardinality(F) \in Nat
         /\ IdealRank(h) \in [1 .. Cardinality(F) -> F]
         /\ \A i, j \in 1 .. Cardinality(F) : i # j => IdealRank(h)[i] # IdealRank(h)[j]
         /\ \A i, j \in 1 .. Cardinality(F) : i < j => h[IdealRank(h)[i]] >= h[IdealRank(h)[j]]
         /\ \A x \in F : \E i \in 1 .. Cardinality(F) : IdealRank(h)[i] = x
<1>1. \E r \in SetToSeqs(F) : \A i, j \in DOMAIN r : i < j => h[r[i]] >= h[r[j]]
  BY SortedExists
<1>2. PICK r : r = IdealRank(h)
  OBVIOUS
<1>3. r \in SetToSeqs(F) /\ \A i, j \in DOMAIN r : i < j => h[r[i]] >= h[r[j]]
  BY <1>1, <1>2 DEF IdealRank
<1>4. PICK n \in Nat : n = Cardinality(F)
  BY FS_CardinalityType
<1>5. r \in [1 .. n -> F] /\ (\A i, j \in 1 .. n : i # j => r[i] # r[j]) /\ \A i, j \in 1 .. n : i < j => h[r[i]] >= h[r[j]]
  BY <1>3, <1>4 DEF SetToSeqs
<1>6. \A x \in F : \E i \in 1 .. n : r[i] = x
  <2>1. r \in Injection(1 .. n, F)
    BY <1>5 DEF Injection, IsInjective
  <2>2. n \in Int /\ IsFiniteSet(1 .. n) /\ Cardinality(1 .. n) = n
    <3>1. 1 \in Int /\ n \in Int
      BY <1>4
    <3>2. Cardinality(1 .. n) = IF 1 > n THEN 0 ELSE n - 1 + 1
      BY <3>1, FS_Interval
    <3> QED
      BY <1>4, <3>1, <3>2, FS_Interval
  <2>3. r \in Surjection(1 .. n, F)
    BY <1>4, <2>1, <2>2, FS_Injection
  <2> QED
    BY <2>3 DEF Surjection
<1> QED
  BY <1>2, <1>4, <1>5, <1>6

\* Distinct files of F stand in n places, and a is what h has for them.
Placed(F, h, n, r, a) ==
  /\ IsFiniteSet(F) /\ h \in [F -> Nat] /\ n \in Nat
  /\ \A i \in 1 .. n : r[i] \in F
  /\ \A i, j \in 1 .. n : i # j => r[i] # r[j]
  /\ \A i \in 1 .. n : a[i] = h[r[i]]

FirstFiles(r, k) == {r[i] : i \in 1 .. k}

\* What the files in the first places are worth.
LEMMA WorthOfPlaces ==
  ASSUME NEW F, NEW h, NEW n, NEW r, NEW a, Placed(F, h, n, r, a), NEW m \in 0 .. n
  PROVE  /\ FirstFiles(r, m) \in SUBSET F
         /\ Cardinality(FirstFiles(r, m)) = m
         /\ Total(a, 1 .. m) = Total(h, FirstFiles(r, m))
<1> USE DEF Placed, FirstFiles
<1> DEFINE Standing(k) == {r[i] : i \in 1 .. k}
           Fine(k) == Cardinality(Standing(k)) = k /\ Total(a, 1 .. k) = Total(h, Standing(k))
<1>1. \A k \in 0 .. n : Standing(k) \in SUBSET F /\ IsFiniteSet(Standing(k))
  <2> SUFFICES ASSUME NEW k \in 0 .. n PROVE Standing(k) \in SUBSET F /\ IsFiniteSet(Standing(k))
    OBVIOUS
  <2>1. \A i \in 1 .. k : i \in 1 .. n
    OBVIOUS
  <2>2. Standing(k) \in SUBSET F
    BY <2>1
  <2> QED
    BY <2>2, FS_Subset
<1>2. \A i \in 1 .. n : a[i] \in Nat
  OBVIOUS
<1>3. PICK Bad : Bad = {k \in Nat : k \in 0 .. n /\ ~Fine(k)}
  OBVIOUS
<1>4. Bad \in SUBSET Nat
  BY <1>3
<1>5. SUFFICES ASSUME Bad # {} PROVE FALSE
  <2>1. m \in Nat
    OBVIOUS
  <2> QED
    BY <1>1, <1>3, <1>5, <2>1
<1>6. PICK k \in Bad : \A x \in Bad : k <= x
  BY <1>4, <1>5, Least
<1>7. k \in Nat /\ k \in 0 .. n /\ ~Fine(k)
  BY <1>3
<1>8. CASE k = 0
  <2>1. (1 .. k) = {} /\ IsFiniteSet({}) /\ Cardinality({}) = 0
    BY <1>8, FS_EmptySet
  <2>2. Standing(k) = {}
    BY <2>1
  <2>3. Total(a, {}) = 0 /\ Total(h, {}) = 0
    BY <2>1, TotalIs
  <2>4. Cardinality(Standing(k)) = k
    BY <1>8, <2>1, <2>2
  <2>5. Total(a, 1 .. k) = Total(h, Standing(k))
    BY <2>1, <2>2, <2>3
  <2> QED
    BY <1>7, <2>4, <2>5
<1>9. CASE k # 0
  <2>1. k - 1 \in 0 .. n /\ k - 1 \in Nat /\ ~(k <= k - 1) /\ k \in 1 .. n /\ k \in 1 .. k
    BY <1>7, <1>9
  <2>2. Fine(k - 1)
    BY <1>3, <1>6, <2>1
  <2>3. r[k] \in Standing(k)
    BY <2>1
  <2>4. Standing(k - 1) = Standing(k) \ {r[k]}
    <3>1. \A i \in 1 .. k : i = k \/ i \in 1 .. k - 1
      BY <1>7
    <3>2. \A i \in 1 .. k - 1 : i \in 1 .. k /\ i # k /\ i \in 1 .. n
      BY <1>7
    <3>3. \A i \in 1 .. k - 1 : r[i] # r[k]
      BY <2>1, <3>2
    <3> QED
      BY <3>1, <3>2, <3>3
  <2>5. Cardinality(Standing(k)) = k
    <3>1. Cardinality(Standing(k)) \in Nat /\ Cardinality(Standing(k) \ {r[k]}) = Cardinality(Standing(k)) - 1
      BY <1>1, <1>7, <2>3, OneLess
    <3>2. Cardinality(Standing(k - 1)) = k - 1
      BY <2>2
    <3>3. PICK c \in Nat : c = Cardinality(Standing(k))
      BY <3>1
    <3>4. c - 1 = k - 1
      <4> HIDE DEF Standing, Fine
      <4> QED
        BY <2>4, <3>1, <3>2, <3>3
    <3>5. c = k
      BY <1>7, <3>3, <3>4
    <3> QED
      BY <3>3, <3>5
  <2>6. Total(h, Standing(k)) = h[r[k]] + Total(h, Standing(k) \ {r[k]})
    <3>1. \A x \in Standing(k) : h[x] \in Nat
      BY <1>1, <1>7
    <3> HIDE DEF Standing
    <3> QED
      BY <1>1, <1>7, <2>3, <3>1, TotalOf
  <2>7. Total(a, 1 .. k) = a[k] + Total(a, 1 .. k - 1)
    BY <1>2, <2>1, PrefixTotal
  <2>8. Total(a, 1 .. k) = Total(h, Standing(k))
    <3> HIDE DEF Standing
    <3> QED
      BY <2>1, <2>2, <2>4, <2>6, <2>7
  <2> QED
    BY <1>7, <2>5, <2>8
<1> QED
  BY <1>8, <1>9

\* How many places the first k of m are.
Cut(m, k) == IF k < m THEN k ELSE m

\* They are no more than there are.
LEMMA CutIs ==
  ASSUME NEW m \in Nat, NEW k \in Nat
  PROVE  /\ Cut(m, k) \in Nat /\ Cut(m, k) <= m /\ Cut(m, k) <= k
         /\ \A i \in 1 .. Cut(m, k) : i \in 1 .. m /\ i \in 1 .. k
BY DEF Cut

\* The first k.
LEMMA TopIs ==
  ASSUME NEW m \in Nat, NEW S, NEW p, p \in [1 .. m -> S], NEW k \in Nat
  PROVE  DOMAIN Top(p, k) = 1 .. Cut(m, k)
<1>1. p \in Seq(S) /\ Len(p) = m /\ DOMAIN p = 1 .. m
  OBVIOUS
<1>2. Cut(m, k) \in Nat /\ Cut(m, k) <= m /\ Cut(m, k) <= k
  BY DEF Cut
<1>3. Top(p, k) = SubSeq(p, 1, Cut(m, k))
  BY <1>1 DEF Top, Cut
<1>4. PICK l \in Nat : l = Cut(m, k) /\ l <= m /\ l <= k
  BY <1>2
<1>5. DOMAIN SubSeq(p, 1, l) = 1 .. l /\ Len(SubSeq(p, 1, l)) = l
  BY <1>1, <1>4
<1> QED
  BY <1>3, <1>4, <1>5

\* The first find no more than there are of them, those before them find no
\* more, and if none comes twice they find no more than is wanted.
LEMMA FoundIs ==
  ASSUME NEW m \in Nat, NEW S, NEW p, p \in [1 .. m -> S], NEW W, NEW k \in Nat
  PROVE  /\ Found(p, W, k) \in Nat /\ Found(p, W, k) <= k
         /\ \A j \in Nat : j <= k => Found(p, W, j) <= Found(p, W, k)
         /\ IsFiniteSet(W) /\ (\A i, j \in 1 .. m : i # j => p[i] # p[j]) =>
              Found(p, W, k) <= Cardinality(W)
<1> DEFINE Hits(j) == {i \in 1 .. Cut(m, j) : p[i] \in W}
<1>1. \A j \in Nat : /\ Found(p, W, j) = Cardinality(Hits(j)) /\ IsFiniteSet(Hits(j))
                     /\ Cardinality(Hits(j)) \in Nat /\ Cardinality(Hits(j)) <= j
                     /\ Cut(m, j) \in Nat /\ Cut(m, j) <= m
  <2> SUFFICES ASSUME NEW j \in Nat
               PROVE  /\ Found(p, W, j) = Cardinality(Hits(j)) /\ IsFiniteSet(Hits(j))
                      /\ Cardinality(Hits(j)) \in Nat /\ Cardinality(Hits(j)) <= j
                      /\ Cut(m, j) \in Nat /\ Cut(m, j) <= m
    OBVIOUS
  <2>1. DOMAIN Top(p, j) = 1 .. Cut(m, j) /\ Cut(m, j) \in Nat /\ Cut(m, j) <= j /\ Cut(m, j) <= m
    <3>1. DOMAIN Top(p, j) = 1 .. Cut(m, j)
      BY TopIs
    <3> HIDE DEF Hits
    <3> QED
      BY <3>1, CutIs
  <2>2. PICK l \in Nat : l = Cut(m, j)
    BY <2>1
  <2>3. IsFiniteSet(1 .. l) /\ Cardinality(1 .. l) = l
    <3>1. 1 \in Int /\ l \in Int
      BY <2>2
    <3>2. Cardinality(1 .. l) = IF 1 > l THEN 0 ELSE l - 1 + 1
      BY <3>1, FS_Interval
    <3> QED
      BY <2>2, <3>1, <3>2, FS_Interval
  <2>4. Hits(j) \in SUBSET (1 .. l)
    BY <2>2
  <2>5. IsFiniteSet(Hits(j)) /\ Cardinality(Hits(j)) <= l /\ Cardinality(Hits(j)) \in Nat
    BY <2>3, <2>4, FS_Subset, FS_CardinalityType
  <2>6. Found(p, W, j) = Cardinality(Hits(j))
    BY <2>1 DEF Found
  <2> QED
    BY <2>1, <2>2, <2>5, <2>6
<1>2. ASSUME NEW j \in Nat, j <= k PROVE Found(p, W, j) <= Found(p, W, k)
  <2>1. Cut(m, j) <= Cut(m, k)
    BY <1>2 DEF Cut
  <2>2. \A i \in 1 .. Cut(m, j) : i \in 1 .. Cut(m, k)
    <3>1. PICK c, d \in Nat : c = Cut(m, j) /\ d = Cut(m, k) /\ c <= d
      BY <1>1, <1>2, <2>1
    <3>2. \A i \in 1 .. c : i \in 1 .. d
      BY <3>1
    <3> QED
      BY <3>1, <3>2
  <2>3. Hits(j) \in SUBSET Hits(k)
    BY <2>2
  <2>4. Cardinality(Hits(j)) <= Cardinality(Hits(k))
    BY <1>1, <2>3, FS_Subset
  <2> QED
    BY <1>1, <2>4
<1>3. ASSUME IsFiniteSet(W), \A i, j \in 1 .. m : i # j => p[i] # p[j]
      PROVE  Found(p, W, k) <= Cardinality(W)
  <2>1. PICK g : g = [i \in Hits(k) |-> p[i]]
    OBVIOUS
  <2>2. \A i \in Hits(k) : i \in 1 .. m /\ p[i] \in W
    <3>1. PICK c \in Nat : c = Cut(m, k) /\ c <= m
      BY <1>1
    <3>2. \A i \in 1 .. c : i \in 1 .. m
      BY <3>1
    <3> QED
      BY <3>1, <3>2
  <2>3. g \in [Hits(k) -> W]
    BY <2>1, <2>2
  <2>4. \A i, j \in Hits(k) : g[i] = g[j] => i = j
    BY <1>3, <2>1, <2>2
  <2>5. g \in Injection(Hits(k), W)
    BY <2>3, <2>4 DEF Injection, IsInjective
  <2>6. Cardinality(Hits(k)) <= Cardinality(W)
    BY <1>3, <2>5, FS_Injection
  <2> QED
    BY <1>1, <2>6
<1> QED
  BY <1>1, <1>2, <1>3

\* A sum is the total of a sequence.
LEMMA SumIs == \A s : Sum(s) = Total(s, DOMAIN s)
BY DEF Sum, FoldSeq, FoldFunction, FoldFunctionOnSet, Total

\* What the first l are worth.
Gains(p, h, l) == [i \in 1 .. l |-> h[p[i]] * Discounts[i]]

\* The discounted gains of the first k.
LEMMA DcgIs ==
  ASSUME NEW m \in Nat, NEW F, NEW p, p \in [1 .. m -> F], NEW h, NEW k \in Nat
  PROVE  ComputeDcg(p, h, k) = Total(Gains(p, h, Cut(m, k)), 1 .. Cut(m, k))
<1>0. DOMAIN Top(p, k) = 1 .. Cut(m, k)
  BY TopIs
<1>1. PICK l : l = Cut(m, k) /\ DOMAIN Top(p, k) = 1 .. l
  BY <1>0
<1>2. PICK g : g = [i \in 1 .. l |-> h[p[i]]]
  OBVIOUS
<1>3. ComputeDcg(p, h, k) = Dcg(g)
  BY <1>1, <1>2 DEF ComputeDcg
<1>4. PICK x : x = [i \in 1 .. l |-> g[i] * Discounts[i]]
  OBVIOUS
<1>5. Dcg(g) = Total(x, 1 .. l)
  <2>1. DOMAIN g = 1 .. l /\ DOMAIN x = 1 .. l
    BY <1>2, <1>4
  <2>2. Dcg(g) = Sum(x)
    BY <1>4, <2>1 DEF Dcg
  <2> QED
    BY <2>1, <2>2, SumIs
<1>6. x = Gains(p, h, l)
  BY <1>2, <1>4 DEF Gains
<1> QED
  BY <1>1, <1>3, <1>5, <1>6

\* No ranking of distinct files is worth more than the ideal one, and one that
\* is worth as much has no lower grade ahead of a higher one.
LEMMA IdealIsBest ==
  ASSUME NEW F, IsFiniteSet(F), NEW h, h \in [F -> Nat], NEW m \in Nat, NEW p, p \in [1 .. m -> F],
         \A i, j \in 1 .. m : i # j => p[i] # p[j]
  PROVE  /\ ComputeDcg(p, h, Many) \in Nat /\ ComputeIdealDcg(h, Many) \in Nat
         /\ ComputeDcg(p, h, Many) <= ComputeIdealDcg(h, Many)
         /\ ComputeDcg(p, h, Many) = ComputeIdealDcg(h, Many) =>
              \A i, j \in 1 .. Cut(m, Many) : i < j => h[p[i]] >= h[p[j]]
<1>1. PICK s : s = IdealRank(h)
  OBVIOUS
<1>2. PICK n \in Nat : n = Cardinality(F)
  BY FS_CardinalityType
<1>3. /\ s \in [1 .. n -> F] /\ \A i, j \in 1 .. n : i # j => s[i] # s[j]
      /\ \A i, j \in 1 .. n : i < j => h[s[i]] >= h[s[j]]
      /\ \A x \in F : \E i \in 1 .. n : s[i] = x
  <2>1. /\ IdealRank(h) \in [1 .. Cardinality(F) -> F]
        /\ \A i, j \in 1 .. Cardinality(F) : i # j => IdealRank(h)[i] # IdealRank(h)[j]
        /\ \A i, j \in 1 .. Cardinality(F) : i < j => h[IdealRank(h)[i]] >= h[IdealRank(h)[j]]
        /\ \A x \in F : \E i \in 1 .. Cardinality(F) : IdealRank(h)[i] = x
    BY IdealRankIs
  <2> QED
    BY <1>1, <1>2, <2>1
<1>4. m <= n
  <2>1. p \in Injection(1 .. m, F)
    BY DEF Injection, IsInjective
  <2>2. Cardinality(1 .. m) = m
    <3>1. 1 \in Int /\ m \in Int
      OBVIOUS
    <3>2. Cardinality(1 .. m) = IF 1 > m THEN 0 ELSE m - 1 + 1
      BY <3>1, FS_Interval
    <3> QED
      BY <3>2
  <2> QED
    BY <1>2, <2>1, <2>2, FS_Injection
<1>5. Many \in Nat /\ \A i \in 1 .. Many : Discounts[i] \in Nat
  BY QualityAssumption
<1>6. PICK l, k \in Nat : /\ l = Cut(m, Many) /\ k = Cut(n, Many) /\ l <= k /\ l <= m /\ k <= n /\ k <= Many
  BY <1>4, <1>5 DEF Cut
<1>7. \A i \in 1 .. k : i \in 1 .. n /\ i \in 1 .. Many
  BY <1>5, <1>6
<1>8. \A i \in 1 .. l : i \in 1 .. m /\ i \in 1 .. k
  BY <1>6
<1>9. PICK a, b, d : a = [i \in 1 .. l |-> h[p[i]]] /\ b = [i \in 1 .. k |-> h[s[i]]] /\ d = Discounts
  OBVIOUS
<1>10. PICK x, y : x = [i \in 1 .. l |-> a[i] * d[i]] /\ y = [i \in 1 .. k |-> b[i] * d[i]]
  OBVIOUS
<1>11. \A i \in 1 .. l : p[i] \in F /\ a[i] = h[p[i]] /\ a[i] \in Nat /\ d[i] \in Nat /\ x[i] = a[i] * d[i] /\ x[i] \in Nat
  <2>1. \A i \in 1 .. l : p[i] \in F /\ a[i] = h[p[i]] /\ d[i] \in Nat /\ x[i] = a[i] * d[i]
    BY <1>5, <1>7, <1>8, <1>9, <1>10
  <2>2. \A i \in 1 .. l : a[i] \in Nat
    BY <2>1
  <2>3. \A i \in 1 .. l : a[i] * d[i] \in Nat
    BY <2>1, <2>2
  <2> QED
    BY <2>1, <2>2, <2>3
<1>12. \A i \in 1 .. k : s[i] \in F /\ b[i] = h[s[i]] /\ b[i] \in Nat /\ d[i] \in Nat /\ y[i] = b[i] * d[i] /\ y[i] \in Nat
  <2>1. \A i \in 1 .. k : s[i] \in F /\ b[i] = h[s[i]] /\ d[i] \in Nat /\ y[i] = b[i] * d[i]
    BY <1>3, <1>5, <1>7, <1>9, <1>10
  <2>2. \A i \in 1 .. k : b[i] \in Nat
    BY <2>1
  <2>3. \A i \in 1 .. k : b[i] * d[i] \in Nat
    BY <2>1, <2>2
  <2> QED
    BY <2>1, <2>2, <2>3
<1>13. ComputeDcg(p, h, Many) = Total(x, 1 .. l)
  <2>1. x = Gains(p, h, l)
    BY <1>9, <1>10 DEF Gains
  <2>2. ComputeDcg(p, h, Many) = Total(Gains(p, h, Cut(m, Many)), 1 .. Cut(m, Many))
    BY <1>5, DcgIs
  <2> QED
    BY <1>6, <2>1, <2>2
<1>14. ComputeIdealDcg(h, Many) = Total(y, 1 .. k)
  <2>1. y = Gains(s, h, k)
    BY <1>9, <1>10 DEF Gains
  <2>2. ComputeDcg(s, h, Many) = Total(Gains(s, h, Cut(n, Many)), 1 .. Cut(n, Many))
    BY <1>3, <1>5, DcgIs
  <2> QED
    BY <1>1, <1>6, <2>1, <2>2 DEF ComputeIdealDcg
<1>15. ASSUME NEW q \in 0 .. l PROVE Total(a, 1 .. q) <= Total(b, 1 .. q)
  <2>1. PICK A, T : A = FirstFiles(p, q) /\ T = FirstFiles(s, q)
    OBVIOUS
  <2>2. A \in SUBSET F /\ Cardinality(A) = q /\ Total(a, 1 .. q) = Total(h, A)
    <3>1. \A i, j \in 1 .. l : i # j => p[i] # p[j]
      BY <1>8
    <3>2. Placed(F, h, l, p, a)
      BY <1>11, <3>1 DEF Placed
    <3> QED
      BY <2>1, <3>2, WorthOfPlaces
  <2>3. T \in SUBSET F /\ Cardinality(T) = q /\ Total(b, 1 .. q) = Total(h, T)
    <3>1. \A i, j \in 1 .. k : i # j => s[i] # s[j]
      BY <1>3, <1>7
    <3>2. q \in 0 .. k
      BY <1>6
    <3>3. Placed(F, h, k, s, b)
      BY <1>12, <3>1 DEF Placed
    <3> QED
      BY <2>1, <3>2, <3>3, WorthOfPlaces
  <2>4. ASSUME NEW u \in T, NEW v \in A \ T PROVE h[v] <= h[u]
    <3>1. PICK i \in 1 .. q : u = s[i]
      BY <2>1 DEF FirstFiles
    <3>2. PICK j \in 1 .. n : v = s[j]
      BY <1>3, <2>2
    <3>3. j \notin 1 .. q
      BY <2>1, <3>2 DEF FirstFiles
    <3>4. i < j /\ i \in 1 .. n
      BY <1>6, <3>3
    <3>5. h[s[i]] >= h[s[j]] /\ h[s[i]] \in Nat /\ h[s[j]] \in Nat
      BY <1>3, <3>4
    <3> QED
      BY <3>1, <3>2, <3>5
  <2>5. Cardinality(A) <= Cardinality(T)
    BY <2>2, <2>3
  <2>6. \A z \in F : h[z] \in Nat
    OBVIOUS
  <2>7. Total(h, A) <= Total(h, T)
    BY <2>2, <2>3, <2>4, <2>5, <2>6, TopIsMost
  <2> QED
    BY <2>2, <2>3, <2>7
<1>16. /\ Total(x, 1 .. l) <= Total(y, 1 .. l)
       /\ Total(x, 1 .. l) = Total(y, 1 .. l) => \A q \in 0 .. l - 1 : Total(a, 1 .. q) = Total(b, 1 .. q)
  <2>1. \A i, j \in 1 .. l : i < j => d[j] < d[i]
    BY <1>7, <1>8, <1>9, QualityAssumption
  <2>2. \A i \in 1 .. l : a[i] \in Nat /\ b[i] \in Nat /\ d[i] \in Nat /\ x[i] = a[i] * d[i] /\ y[i] = b[i] * d[i]
    BY <1>8, <1>11, <1>12
  <2>3. \A i \in 1 .. l : a[i] \in Nat /\ b[i] \in Nat /\ d[i] \in Nat
    BY <2>2
  <2>4. \A i \in 1 .. l : x[i] = a[i] * d[i] /\ y[i] = b[i] * d[i]
    BY <2>2
  <2>5. \A q \in 0 .. l : Total(a, 1 .. q) <= Total(b, 1 .. q)
    BY <1>15
  <2>6. Compared(l, a, b, d, x, y)
    BY <2>1, <2>3, <2>4, <2>5 DEF Compared
  <2> QED
    BY <2>6, Discounted
<1>17. Total(y, 1 .. l) <= Total(y, 1 .. k)
  <2>1. l \in 0 .. k
    BY <1>6
  <2> QED
    BY <1>12, <2>1, LongerTotal
<1>18. Total(x, 1 .. l) \in Nat /\ Total(y, 1 .. l) \in Nat /\ Total(y, 1 .. k) \in Nat
  <2>1. l \in 0 .. l /\ l \in 0 .. k /\ k \in 0 .. k
    BY <1>6
  <2> QED
    BY <1>11, <1>12, <2>1, PrefixTotal
<1>19. ASSUME Total(x, 1 .. l) = Total(y, 1 .. k), NEW i \in 1 .. l, NEW j \in 1 .. l, i < j
       PROVE  h[p[i]] >= h[p[j]]
  <2>1. \A q \in 0 .. l - 1 : Total(a, 1 .. q) = Total(b, 1 .. q)
    BY <1>16, <1>17, <1>18, <1>19
  <2>2. \A q \in 1 .. l : /\ Total(a, 1 .. q) = a[q] + Total(a, 1 .. q - 1)
                          /\ Total(b, 1 .. q) = b[q] + Total(b, 1 .. q - 1)
                          /\ a[q] \in Nat /\ b[q] \in Nat
                          /\ Total(a, 1 .. q - 1) \in Nat /\ Total(b, 1 .. q - 1) \in Nat
    <3>1. \A q \in 1 .. l : q - 1 \in 0 .. l /\ q - 1 \in 0 .. k /\ q \in 1 .. k
      BY <1>6
    <3>2. /\ \A q \in 0 .. l : Total(a, 1 .. q) \in Nat
          /\ \A q \in 1 .. l : Total(a, 1 .. q) = a[q] + Total(a, 1 .. q - 1)
      <4>1. \A q \in 1 .. l : a[q] \in Nat
        BY <1>11
      <4> QED
        BY <4>1, PrefixTotal
    <3>3. /\ \A q \in 0 .. k : Total(b, 1 .. q) \in Nat
          /\ \A q \in 1 .. k : Total(b, 1 .. q) = b[q] + Total(b, 1 .. q - 1)
      <4>1. \A q \in 1 .. k : b[q] \in Nat
        BY <1>12
      <4> QED
        BY <4>1, PrefixTotal
    <3> QED
      BY <1>11, <1>12, <3>1, <3>2, <3>3
  <2>3. i \in 0 .. l - 1 /\ i - 1 \in 0 .. l - 1 /\ j - 1 \in 0 .. l - 1 /\ j \in 0 .. l
    BY <1>19
  <2>4. a[i] = b[i]
    <3>1. Total(a, 1 .. i) = Total(b, 1 .. i) /\ Total(a, 1 .. i - 1) = Total(b, 1 .. i - 1)
      BY <2>1, <2>3
    <3> QED
      BY <2>2, <3>1
  <2>5. a[j] <= b[j]
    <3>1. Total(a, 1 .. j) <= Total(b, 1 .. j) /\ Total(a, 1 .. j - 1) = Total(b, 1 .. j - 1)
      BY <1>15, <2>1, <2>3
    <3> QED
      BY <2>2, <3>1
  <2>6. b[i] >= b[j]
    <3>1. i \in 1 .. k /\ j \in 1 .. k /\ i \in 1 .. n /\ j \in 1 .. n
      BY <1>7, <1>8
    <3>2. h[s[i]] >= h[s[j]]
      BY <1>3, <1>19, <3>1
    <3> QED
      BY <1>12, <3>1, <3>2
  <2>7. a[i] \in Nat /\ b[i] \in Nat /\ a[j] \in Nat /\ b[j] \in Nat /\ a[i] = h[p[i]] /\ a[j] = h[p[j]]
    BY <1>11, <2>2
  <2> QED
    BY <2>4, <2>5, <2>6, <2>7
<1> QED
  BY <1>6, <1>13, <1>14, <1>16, <1>17, <1>18, <1>19

\* What a search answers: m chunks of F's files.
IsAnswer(res, m, F) == m \in Nat /\ res \in [1 .. m -> [file : F, score : Scores]]

\* What a file scores is the score of one of its chunks, and of none less.
LEMMA FileScoreIs ==
  ASSUME NEW m, NEW F, NEW res, IsAnswer(res, m, F), NEW f
  PROVE  /\ FileScore(res, f) \in Nat
         /\ \A i \in 1 .. m : res[i].file = f => res[i].score <= FileScore(res, f)
         /\ \/ FileScore(res, f) = 0
            \/ \E i \in 1 .. m : res[i].file = f /\ res[i].score = FileScore(res, f)
<1> USE DEF IsAnswer
<1>1. DOMAIN res = 1 .. m /\ \A i \in 1 .. m : res[i].score \in Nat
  BY QualityAssumption
<1>2. PICK J : J = {j \in 1 .. m : res[j].file = f}
  OBVIOUS
<1>3. PICK g : g = [i \in 1 .. m |-> res[i].score]
  OBVIOUS
<1>4. PICK S : S = {0} \cup {g[i] : i \in J}
  OBVIOUS
<1>5. IsFiniteSet(S)
  <2>1. 1 \in Int /\ m \in Int
    OBVIOUS
  <2>2. IsFiniteSet(J)
    BY <1>2, <2>1, FS_Interval, FS_Subset
  <2>3. IsFiniteSet({g[i] : i \in J})
    BY <2>2, ImageIsFinite
  <2>4. IsFiniteSet({g[i] : i \in J} \cup {0})
    BY <2>3, FS_AddElement
  <2>5. S = {g[i] : i \in J} \cup {0}
    BY <1>4
  <2> QED
    BY <2>4, <2>5
<1>6. S \in SUBSET Nat /\ S # {}
  BY <1>1, <1>2, <1>3, <1>4
<1>7. PICK v \in S : \A t \in S : t <= v
  BY <1>5, <1>6, FiniteGreatest
<1>8. FileScore(res, f) = Best(S)
  <2>1. {res[i].score : i \in {j \in DOMAIN res : res[j].file = f}} = {g[i] : i \in J}
    BY <1>1, <1>2, <1>3
  <2> QED
    BY <1>4, <2>1 DEF FileScore
<1>9. PICK w : w = Best(S)
  OBVIOUS
<1>10. w \in S /\ \A t \in S : t <= w
  BY <1>7, <1>9 DEF Best
<1> QED
  BY <1>2, <1>3, <1>4, <1>6, <1>8, <1>9, <1>10

-----------------------------------------------------------------------------
\* The samples up to x, and below x.
UpToIn(s, n, x)  == {i \in 1 .. n : s[i] <= x}
BelowIn(s, n, x) == {i \in 1 .. n : s[i] < x}

\* They are finite.
LEMMA UpToIsFinite ==
  ASSUME NEW n \in Nat, NEW s, NEW x
  PROVE  /\ IsFiniteSet(UpToIn(s, n, x)) /\ Cardinality(UpToIn(s, n, x)) \in Nat
         /\ IsFiniteSet(BelowIn(s, n, x)) /\ Cardinality(BelowIn(s, n, x)) \in Nat
<1>1. 1 \in Int /\ n \in Int
  OBVIOUS
<1>2. UpToIn(s, n, x) \in SUBSET (1 .. n) /\ BelowIn(s, n, x) \in SUBSET (1 .. n)
  BY DEF UpToIn, BelowIn
<1> QED
  BY <1>1, <1>2, FS_Interval, FS_Subset, FS_CardinalityType

\* What is up to a lesser sample is below x.
LEMMA UpToIsBelow ==
  ASSUME NEW n \in Nat, NEW s, s \in [1 .. n -> Nat], NEW x \in Nat, NEW z \in Nat, z < x
  PROVE  Cardinality(UpToIn(s, n, z)) <= Cardinality(BelowIn(s, n, x))
<1>1. \A i \in 1 .. n : s[i] \in Nat
  OBVIOUS
<1>2. UpToIn(s, n, z) \in SUBSET BelowIn(s, n, x)
  <2>1. \A i \in 1 .. n : s[i] <= z => s[i] < x
    BY <1>1
  <2> QED
    BY <2>1 DEF UpToIn, BelowIn
<1> QED
  BY <1>2, UpToIsFinite, FS_Subset

\* There is a k-th in ascending order.
LEMMA AscendingIs ==
  ASSUME NEW n \in Nat, NEW s, s \in [1 .. n -> Nat], NEW k \in 1 .. n
  PROVE  /\ Ascending(s, k) \in Range(s) /\ Ascending(s, k) \in Nat
         /\ Cardinality(BelowIn(s, n, Ascending(s, k))) < k
         /\ Cardinality(UpToIn(s, n, Ascending(s, k))) >= k
<1>1. DOMAIN s = 1 .. n /\ Range(s) = {s[i] : i \in 1 .. n} /\ Range(s) \in SUBSET Nat
  BY DEF Range
<1>2. IsFiniteSet(Range(s))
  <2>1. 1 \in Int /\ n \in Int
    OBVIOUS
  <2>2. IsFiniteSet(1 .. n)
    BY <2>1, FS_Interval
  <2>3. IsFiniteSet({s[i] : i \in 1 .. n})
    BY <2>2, ImageIsFinite
  <2> QED
    BY <1>1, <2>3
<1>3. PICK X : X = {x \in Range(s) : Cardinality(UpToIn(s, n, x)) >= k}
  OBVIOUS
<1>4. X # {} /\ X \in SUBSET Nat
  <2>1. Range(s) # {}
    <3>1. s[k] \in Range(s)
      BY <1>1
    <3> QED
      BY <3>1
  <2>2. PICK v \in Range(s) : \A t \in Range(s) : t <= v
    BY <1>1, <1>2, <2>1, FiniteGreatest
  <2>3. UpToIn(s, n, v) = 1 .. n
    BY <1>1, <2>2 DEF UpToIn
  <2>4. Cardinality(1 .. n) = n
    <3>1. 1 \in Int /\ n \in Int
      OBVIOUS
    <3>2. Cardinality(1 .. n) = IF 1 > n THEN 0 ELSE n - 1 + 1
      BY <3>1, FS_Interval
    <3> QED
      BY <3>2
  <2>5. v \in X
    BY <1>3, <2>3, <2>4
  <2> QED
    BY <1>1, <1>3, <2>5
<1>5. PICK x \in X : \A y \in X : x <= y
  BY <1>4, Least
<1>6. x \in Range(s) /\ x \in Nat /\ Cardinality(UpToIn(s, n, x)) >= k
  BY <1>3, <1>4
<1>7. Cardinality(BelowIn(s, n, x)) < k
  <2>1. PICK B : B = {y \in Range(s) : y < x}
    OBVIOUS
  <2>2. CASE B = {}
    <3>1. BelowIn(s, n, x) = {}
      BY <1>1, <2>1, <2>2 DEF BelowIn
    <3> QED
      BY <3>1, FS_EmptySet
  <2>3. CASE B # {}
    <3>1. B \in SUBSET Nat /\ IsFiniteSet(B)
      BY <1>1, <1>2, <2>1, FS_Subset
    <3>2. PICK z \in B : \A t \in B : t <= z
      BY <2>3, <3>1, FiniteGreatest
    <3>3. z \in Range(s) /\ z < x /\ z \in Nat
      BY <2>1, <3>1
    <3>4. z \notin X
      BY <1>5, <1>6, <3>3
    <3>5. ~(Cardinality(UpToIn(s, n, z)) >= k)
      BY <1>3, <3>3, <3>4
    <3>6. BelowIn(s, n, x) \in SUBSET UpToIn(s, n, z)
      BY <1>1, <2>1, <3>2 DEF BelowIn, UpToIn
    <3>7. Cardinality(BelowIn(s, n, x)) <= Cardinality(UpToIn(s, n, z))
      BY <3>6, UpToIsFinite, FS_Subset
    <3>8. Cardinality(BelowIn(s, n, x)) \in Nat /\ Cardinality(UpToIn(s, n, z)) \in Nat
      BY UpToIsFinite
    <3> QED
      BY <3>5, <3>7, <3>8
  <2> QED
    BY <2>2, <2>3
<1>8. \A y : /\ Cardinality({i \in DOMAIN s : s[i] < y}) = Cardinality(BelowIn(s, n, y))
             /\ Cardinality({i \in DOMAIN s : s[i] <= y}) = Cardinality(UpToIn(s, n, y))
  BY <1>1 DEF BelowIn, UpToIn
<1>9. PICK a : a = Ascending(s, k)
  OBVIOUS
<1>10. a \in Range(s) /\ Cardinality(BelowIn(s, n, a)) < k /\ Cardinality(UpToIn(s, n, a)) >= k
  BY <1>6, <1>7, <1>8, <1>9 DEF Ascending
<1> QED
  BY <1>1, <1>9, <1>10

\* An earlier place has no greater sample.
LEMMA AscendingGrows ==
  ASSUME NEW n \in Nat, NEW s, s \in [1 .. n -> Nat], NEW j \in 1 .. n, NEW k \in 1 .. n, j <= k
  PROVE  Ascending(s, j) <= Ascending(s, k)
<1>1. PICK x, y \in Nat : /\ x = Ascending(s, j) /\ y = Ascending(s, k)
                          /\ Cardinality(BelowIn(s, n, x)) < j /\ Cardinality(UpToIn(s, n, y)) >= k
  BY AscendingIs
<1>2. SUFFICES ASSUME y < x PROVE FALSE
  BY <1>1
<1>3. Cardinality(UpToIn(s, n, y)) <= Cardinality(BelowIn(s, n, x))
  BY <1>2, UpToIsBelow
<1>4. Cardinality(BelowIn(s, n, x)) \in Nat /\ Cardinality(UpToIn(s, n, y)) \in Nat
  BY UpToIsFinite
<1> QED
  BY <1>1, <1>3, <1>4

\* The nearest rank is the least that so many samples are not above.
LEMMA QuantileIs ==
  ASSUME NEW n \in Nat, n >= 1, NEW q \in {50, 95}
  PROVE  /\ IndexForQuantile(n, q) \in 1 .. n
         /\ 100 * IndexForQuantile(n, q) >= q * n
         /\ 100 * (IndexForQuantile(n, q) - 1) < q * n
<1>1. CASE q = 50
  <2>1. IndexForQuantile(n, q) = (50 * n + 99) \div 100
    BY <1>1 DEF IndexForQuantile
  <2> QED
    BY <1>1, <2>1
<1>2. CASE q = 95
  <2>1. IndexForQuantile(n, q) = (95 * n + 99) \div 100
    BY <1>2 DEF IndexForQuantile
  <2> QED
    BY <1>2, <2>1
<1> QED
  BY <1>1, <1>2

\* A percentile is the least sample that so many are not above.
LEMMA PercentileIs ==
  ASSUME NEW n \in Nat, n >= 1, NEW s, s \in [1 .. n -> Nat], NEW q \in {50, 95}
  PROVE  /\ 100 * Cardinality(UpToIn(s, n, Percentile(s, q))) >= q * n
         /\ \A x \in Range(s) : 100 * Cardinality(UpToIn(s, n, x)) >= q * n => Percentile(s, q) <= x
<1>1. Len(s) = n /\ Range(s) \in SUBSET Nat
  BY DEF Range
<1>2. PICK k : k = IndexForQuantile(n, q)
  OBVIOUS
<1>3. k \in 1 .. n /\ 100 * k >= q * n /\ 100 * (k - 1) < q * n
  BY <1>2, QuantileIs
<1>4. Percentile(s, q) = Ascending(s, k)
  BY <1>1, <1>2 DEF Percentile
<1>5. PICK y \in Nat : /\ y = Ascending(s, k)
                       /\ Cardinality(BelowIn(s, n, y)) < k /\ Cardinality(UpToIn(s, n, y)) >= k
  BY <1>3, AscendingIs
<1>6. PICK r \in Nat : r = q * n
  <2>1. q * n \in Nat
    OBVIOUS
  <2> QED
    BY <2>1
<1>7. 100 * Cardinality(UpToIn(s, n, y)) >= r
  <2>1. Cardinality(UpToIn(s, n, y)) \in Nat
    BY UpToIsFinite
  <2> QED
    BY <1>3, <1>5, <1>6, <2>1
<1>8. ASSUME NEW x \in Range(s), 100 * Cardinality(UpToIn(s, n, x)) >= r PROVE y <= x
  <2>1. SUFFICES ASSUME x < y PROVE FALSE
    BY <1>1
  <2>2. x \in Nat
    BY <1>1
  <2>3. Cardinality(UpToIn(s, n, x)) <= Cardinality(BelowIn(s, n, y))
    BY <2>1, <2>2, UpToIsBelow
  <2>4. Cardinality(UpToIn(s, n, x)) \in Nat /\ Cardinality(BelowIn(s, n, y)) \in Nat
    BY UpToIsFinite
  <2>5. Cardinality(UpToIn(s, n, x)) <= k - 1
    BY <1>3, <1>5, <2>3, <2>4
  <2> QED
    BY <1>3, <1>6, <1>8, <2>4, <2>5
<1> QED
  BY <1>4, <1>5, <1>6, <1>7, <1>8

\* The percentiles of the queries grow.
LEMMA AggregateGrows ==
  ASSUME NEW n \in Nat, n >= 1, NEW s, s \in [1 .. n -> Nat]
  PROVE  AggregatePercentile(s, 50) <= AggregatePercentile(s, 95)
<1>1. Len(s) = n
  OBVIOUS
<1>2. PICK j, k : /\ j = 1 + ((2 * (n - 1) * 50 + 100) \div 200)
                  /\ k = 1 + ((2 * (n - 1) * 95 + 100) \div 200)
  OBVIOUS
<1>3. AggregatePercentile(s, 50) = Ascending(s, j) /\ AggregatePercentile(s, 95) = Ascending(s, k)
  BY <1>1, <1>2 DEF AggregatePercentile
<1>4. PICK m \in Nat : m = n - 1
  OBVIOUS
<1>5. j = 1 + ((100 * m + 100) \div 200) /\ k = 1 + ((190 * m + 100) \div 200)
  <2>1. 2 * (n - 1) * 50 = 100 * m /\ 2 * (n - 1) * 95 = 190 * m
    BY <1>4
  <2> QED
    BY <1>2, <2>1
<1>6. j \in 1 .. n /\ k \in 1 .. n /\ j <= k
  BY <1>4, <1>5
<1> QED
  BY <1>3, <1>6, AscendingGrows

\* The corpus is what the repositories of a configuration have, each in a
\* directory of its own, or what one has.
Prepared(c) ==
  \/ c = {}
  \/ \E files \in [Repos -> {LocalFiles, GitFiles}] :
       \/ c = MultiCorpus(files)
       \/ \E r \in Repos : c = Copies(0, r, files[r])

\* The invariant: what has been measured is right, and the corpus is one.
QualityInv == Prepared(corpus) /\ MeasuresAreFractions

\* A file's name tells its repository, and there are finitely many.
LEMMA CopiesAre ==
  ASSUME NEW root, NEW repo, NEW files \in {LocalFiles, GitFiles}
  PROVE  /\ IsFiniteSet(Copies(root, repo, files))
         /\ \A f \in Copies(root, repo, files) :
              f.name[1] = root /\ \E p \in files : f = [name |-> <<root, p.path>>, source |-> <<repo, p.path>>]
<1>1. PICK g : g = [p \in files |-> [name |-> <<root, p.path>>, source |-> <<repo, p.path>>]]
  OBVIOUS
<1>2. Copies(root, repo, files) = {g[p] : p \in files}
  BY <1>1 DEF Copies
<1>3. IsFiniteSet(files)
  BY QualityAssumption, FS_Subset DEF LocalFiles, GitFiles
<1>4. IsFiniteSet(Copies(root, repo, files))
  BY <1>2, <1>3, ImageIsFinite
<1>5. \A f \in Copies(root, repo, files) :
        f.name[1] = root /\ \E p \in files : f = [name |-> <<root, p.path>>, source |-> <<repo, p.path>>]
  BY DEF Copies
<1> QED
  BY <1>4, <1>5

\* A corpus has finitely many names, and no two files of one name.
LEMMA PreparedIs ==
  ASSUME NEW c, Prepared(c)
  PROVE  /\ IsFiniteSet({f.name : f \in c})
         /\ \A f, g \in c : f.name = g.name => f = g
<1>1. CASE c = {}
  BY <1>1, FS_EmptySet
<1>2. CASE c # {}
  <2>1. PICK files \in [Repos -> {LocalFiles, GitFiles}] :
           \/ c = MultiCorpus(files)
           \/ \E r \in Repos : c = Copies(0, r, files[r])
    BY <1>2 DEF Prepared
  <2>2. \A r \in Repos : files[r] \in {LocalFiles, GitFiles}
    OBVIOUS
  <2>3. PICK D : D = [r \in Repos |-> Copies(r, r, files[r])]
    OBVIOUS
  <2>4. CASE c = MultiCorpus(files)
    <3>1. c = UNION {D[r] : r \in Repos}
      BY <2>3, <2>4 DEF MultiCorpus
    <3>2. IsFiniteSet(c)
      <4>1. IsFiniteSet({D[r] : r \in Repos})
        BY QualityAssumption, ImageIsFinite
      <4>2. \A r \in Repos : IsFiniteSet(D[r])
        BY <2>2, <2>3, CopiesAre
      <4>3. \A T \in {D[r] : r \in Repos} : IsFiniteSet(T)
        BY <4>2
      <4> QED
        BY <3>1, <4>1, <4>3, FS_UNION
    <3>3. \A f \in c : \E r \in Repos : \E p \in files[r] :
            f = [name |-> <<r, p.path>>, source |-> <<r, p.path>>]
      <4> SUFFICES ASSUME NEW f \in c
                   PROVE  \E r \in Repos : \E p \in files[r] : f = [name |-> <<r, p.path>>, source |-> <<r, p.path>>]
        OBVIOUS
      <4>1. PICK r \in Repos : f \in D[r]
        BY <3>1
      <4> QED
        BY <2>2, <2>3, <4>1, CopiesAre
    <3>4. \A f, g \in c : f.name = g.name => f = g
      <4> SUFFICES ASSUME NEW f \in c, NEW g \in c, f.name = g.name PROVE f = g
        OBVIOUS
      <4>1. PICK r, p : f = [name |-> <<r, p.path>>, source |-> <<r, p.path>>]
        BY <3>3
      <4>2. PICK q, o : g = [name |-> <<q, o.path>>, source |-> <<q, o.path>>]
        BY <3>3
      <4>3. <<r, p.path>> = <<q, o.path>>
        BY <4>1, <4>2
      <4> QED
        BY <4>1, <4>2, <4>3
    <3> QED
      <4>1. PICK e : e = [f \in c |-> f.name]
        OBVIOUS
      <4>2. {f.name : f \in c} = {e[f] : f \in c}
        BY <4>1
      <4>3. IsFiniteSet({e[f] : f \in c})
        BY <3>2, ImageIsFinite
      <4> QED
        BY <3>4, <4>2, <4>3
  <2>5. CASE \E r \in Repos : c = Copies(0, r, files[r])
    <3>1. PICK r \in Repos : c = Copies(0, r, files[r])
      BY <2>5
    <3>2. IsFiniteSet(c) /\ \A f \in c : \E p \in files[r] : f = [name |-> <<0, p.path>>, source |-> <<r, p.path>>]
      BY <2>2, <3>1, CopiesAre
    <3>3. \A f, g \in c : f.name = g.name => f = g
      <4> SUFFICES ASSUME NEW f \in c, NEW g \in c, f.name = g.name PROVE f = g
        OBVIOUS
      <4>1. PICK p : f = [name |-> <<0, p.path>>, source |-> <<r, p.path>>]
        BY <3>2
      <4>2. PICK o : g = [name |-> <<0, o.path>>, source |-> <<r, o.path>>]
        BY <3>2
      <4>3. <<0, p.path>> = <<0, o.path>>
        BY <4>1, <4>2
      <4> QED
        BY <4>1, <4>2, <4>3
    <3> QED
      <4>1. PICK e : e = [f \in c |-> f.name]
        OBVIOUS
      <4>2. {f.name : f \in c} = {e[f] : f \in c}
        BY <4>1
      <4>3. IsFiniteSet({e[f] : f \in c})
        BY <3>2, ImageIsFinite
      <4> QED
        BY <3>3, <4>2, <4>3
  <2> QED
    BY <2>1, <2>4, <2>5
<1> QED
  BY <1>1, <1>2

\* A longer numerator makes no smaller fraction.
LEMMA LongerIsMore ==
  ASSUME NEW x \in Nat, NEW y \in Nat, NEW c \in Nat, x <= y
  PROVE  x * c <= y * c
<1>1. PICK z \in Nat : y = x + z
  <2>1. y - x \in Nat /\ y = x + (y - x)
    OBVIOUS
  <2> QED
    BY <2>1
<1>2. (x + z) * c = x * c + z * c /\ z * c \in Nat /\ x * c \in Nat
  OBVIOUS
<1> QED
  BY <1>1, <1>2

\* Recall is a fraction, if nothing is found twice, and grows with k.
LEMMA RecallIs ==
  ASSUME NEW m \in Nat, NEW S, NEW p, p \in [1 .. m -> S], NEW W, IsFiniteSet(W)
  PROVE  /\ Leq(RecallAtK(p, W, Few), RecallAtK(p, W, Many))
         /\ (\A i, j \in 1 .. m : i # j => p[i] # p[j]) => Leq(RecallAtK(p, W, Many), One)
<1>1. Few \in Nat /\ Many \in Nat /\ Few <= Many
  BY QualityAssumption
<1>2. Cardinality(W) \in Nat
  BY FS_CardinalityType
<1>3. PICK x, y \in Nat : /\ x = Found(p, W, Few) /\ y = Found(p, W, Many) /\ x <= y
                          /\ (\A i, j \in 1 .. m : i # j => p[i] # p[j]) => y <= Cardinality(W)
  <2>1. Found(p, W, Few) \in Nat
    BY <1>1, FoundIs
  <2>2. Found(p, W, Many) \in Nat /\ Found(p, W, Few) <= Found(p, W, Many)
    BY <1>1, FoundIs
  <2>3. ASSUME \A i, j \in 1 .. m : i # j => p[i] # p[j] PROVE Found(p, W, Many) <= Cardinality(W)
    BY <1>1, <2>3, FoundIs
  <2> QED
    BY <2>1, <2>2, <2>3
<1>4. CASE W = {} \/ p = <<>>
  <2>1. RecallAtK(p, W, Few) = <<0, 1>> /\ RecallAtK(p, W, Many) = <<0, 1>>
    BY <1>4 DEF RecallAtK, None
  <2> QED
    BY <2>1 DEF Leq, One
<1>5. CASE ~(W = {} \/ p = <<>>)
  <2>1. PICK c \in Nat : c = Cardinality(W)
    BY <1>2
  <2>2. RecallAtK(p, W, Few) = <<x, c>> /\ RecallAtK(p, W, Many) = <<y, c>>
    BY <1>3, <1>5, <2>1 DEF RecallAtK
  <2>3. x * c <= y * c
    BY <1>3, <2>1, LongerIsMore
  <2>4. Leq(<<x, c>>, <<y, c>>)
    BY <2>3 DEF Leq
  <2>5. y <= c => Leq(<<y, c>>, One)
    BY DEF Leq, One
  <2> QED
    BY <1>3, <2>1, <2>2, <2>4, <2>5
<1> QED
  BY <1>4, <1>5

\* Precision is a fraction.
LEMMA PrecisionIs ==
  ASSUME NEW m \in Nat, NEW S, NEW p, p \in [1 .. m -> S], NEW W
  PROVE  Leq(PrecisionAtK(p, W, Few), One)
<1>1. Few \in Nat
  BY QualityAssumption
<1>2. PICK x \in Nat : x = Found(p, W, Few) /\ x <= Few
  BY <1>1, FoundIs
<1>3. CASE p = <<>>
  BY <1>3 DEF PrecisionAtK, None, Leq, One
<1>4. CASE p # <<>>
  <2>1. PrecisionAtK(p, W, Few) = <<x, Few>>
    BY <1>2, <1>4 DEF PrecisionAtK
  <2> QED
    BY <1>1, <1>2, <2>1 DEF Leq, One
<1> QED
  BY <1>3, <1>4

\* So is the reciprocal rank.
LEMMA ReciprocalRankIs ==
  ASSUME NEW m \in Nat, NEW S, NEW p, p \in [1 .. m -> S], NEW W
  PROVE  Leq(ReciprocalRank(p, W), One)
<1>1. PICK H : H = {i \in 1 .. m : p[i] \in W}
  OBVIOUS
<1>2. H = {i \in DOMAIN p : p[i] \in W} /\ H \in SUBSET Nat
  BY <1>1
<1>3. CASE H = {}
  <2>1. ReciprocalRank(p, W) = <<0, 1>>
    BY <1>2, <1>3 DEF ReciprocalRank, None
  <2> QED
    BY <2>1 DEF Leq, One
<1>4. CASE H # {}
  <2>1. PICK i \in H : \A j \in H : i <= j
    BY <1>2, <1>4, Least
  <2>2. PICK w : w = CHOOSE k \in H : \A j \in H : k <= j
    OBVIOUS
  <2>3. w \in H
    BY <2>1, <2>2
  <2>4. ReciprocalRank(p, W) = <<1, w>>
    BY <1>2, <1>4, <2>2 DEF ReciprocalRank
  <2>5. w \in Nat /\ w >= 1
    BY <1>1, <2>3
  <2> QED
    BY <2>4, <2>5 DEF Leq, One
<1> QED
  BY <1>3, <1>4

\* nDCG is a fraction, and 1 only without a lower grade ahead of a higher one.
LEMMA NdcgIs ==
  ASSUME NEW F, IsFiniteSet(F), NEW h, h \in [F -> Nat], NEW m \in Nat, NEW p, p \in [1 .. m -> F],
         \A i, j \in 1 .. m : i # j => p[i] # p[j]
  PROVE  /\ Leq(NdcgAtK(p, h, Many), One)
         /\ NdcgAtK(p, h, Many)[1] = NdcgAtK(p, h, Many)[2] =>
              \A i, j \in 1 .. Len(Top(p, Many)) : i < j => h[p[i]] >= h[p[j]]
<1>1. PICK c, g : c = ComputeDcg(p, h, Many) /\ g = ComputeIdealDcg(h, Many)
  OBVIOUS
<1>2. /\ c \in Nat /\ g \in Nat /\ c <= g
      /\ c = g => \A i, j \in 1 .. Cut(m, Many) : i < j => h[p[i]] >= h[p[j]]
  BY <1>1, IdealIsBest
<1>3. CASE g = 0
  <2>1. NdcgAtK(p, h, Many) = <<0, 1>>
    BY <1>1, <1>3 DEF NdcgAtK, None
  <2> QED
    BY <2>1 DEF Leq, One
<1>4. CASE g # 0
  <2>1. NdcgAtK(p, h, Many) = <<c, g>>
    BY <1>1, <1>4 DEF NdcgAtK
  <2>2. Leq(<<c, g>>, One)
    BY <1>2 DEF Leq, One
  <2>3. Len(Top(p, Many)) = Cut(m, Many)
    <3>1. Many \in Nat
      BY QualityAssumption
    <3>5. p \in Seq(F) /\ Len(p) = m
      OBVIOUS
    <3>2. Top(p, Many) = SubSeq(p, 1, Cut(m, Many)) /\ p \in Seq(F) /\ Len(p) = m
      BY <3>5 DEF Top, Cut
    <3>3. PICK l \in Nat : l = Cut(m, Many) /\ l <= m
      BY <3>1, CutIs
    <3>4. Len(SubSeq(p, 1, l)) = l
      BY <3>2, <3>3
    <3> QED
      BY <3>2, <3>3, <3>4
  <2> QED
    BY <1>2, <2>1, <2>2, <2>3
<1> QED
  BY <1>3, <1>4

\* What a file before another is found by is as good.
LEMMA BestFirst ==
  ASSUME NEW m, NEW F, NEW res, IsAnswer(res, m, F),
         NEW f \in FilesOf(res), NEW g, FileScore(res, f) >= FileScore(res, g)
  PROVE  \A s \in Scores, c \in 1 .. m : res[c].file = g /\ res[c].score >= s =>
           \E i \in 1 .. m : res[i].file = f /\ res[i].score >= s
<1> SUFFICES ASSUME NEW s \in Scores, NEW c \in 1 .. m, res[c].file = g, res[c].score >= s
             PROVE  \E i \in 1 .. m : res[i].file = f /\ res[i].score >= s
  OBVIOUS
<1>7. m \in Nat /\ res \in [1 .. m -> [file : F, score : Scores]]
  BY DEF IsAnswer
<1>1. s \in Nat /\ \A i \in 1 .. m : res[i].score \in Nat
  BY <1>7, QualityAssumption
<1>2. /\ FileScore(res, f) \in Nat
      /\ \/ FileScore(res, f) = 0
         \/ \E i \in 1 .. m : res[i].file = f /\ res[i].score = FileScore(res, f)
  BY FileScoreIs
<1>3. FileScore(res, g) \in Nat /\ res[c].score <= FileScore(res, g)
  BY FileScoreIs
<1>4. s <= FileScore(res, f)
  BY <1>1, <1>2, <1>3
<1>5. CASE FileScore(res, f) = 0
  <2>1. PICK i \in 1 .. m : res[i].file = f
    BY <1>7 DEF FilesOf
  <2>2. s = 0
    BY <1>1, <1>4, <1>5
  <2> QED
    BY <1>1, <2>1, <2>2
<1>6. CASE \E i \in 1 .. m : res[i].file = f /\ res[i].score = FileScore(res, f)
  BY <1>1, <1>2, <1>4, <1>6
<1> QED
  BY <1>2, <1>5, <1>6

-----------------------------------------------------------------------------
\* At first nothing has been measured.
LEMMA QualityInitHolds == QualityInit => QualityInv
<1> SUFFICES ASSUME QualityInit PROVE QualityInv
  OBVIOUS
<1>1. corpus = {} /\ measured.kind = "nothing"
  BY DEF QualityInit
<1>2. Prepared(corpus)
  BY <1>1 DEF Prepared
<1> QED
  BY <1>1, <1>2 DEF QualityInv, MeasuresAreFractions

\* What MeasuresAreFractions says of a sample.
SampleRight(m) ==
  /\ m.queries[1] <= m.queries[2]
  /\ \A q \in {<<50, m.store[1]>>, <<95, m.store[2]>>} :
       LET upTo(x) == Cardinality({i \in DOMAIN m.samples : m.samples[i] <= x})
           needed  == q[1] * Len(m.samples)
       IN /\ 100 * upTo(q[2]) >= needed
          /\ \A x \in Range(m.samples) : 100 * upTo(x) >= needed => q[2] <= x

\* What has been measured stays right whatever the corpus.
LEMMA SameMeasures ==
  ASSUME MeasuresAreFractions, measured' = measured, \A f, g \in corpus' : f.name = g.name => f = g
  PROVE  MeasuresAreFractions'
<1>1. \A k : Ahead(k) => Ahead(k)'
  BY DEF Ahead, FoundBy
<1>2. Ahead(Few) /\ Ahead(Many) => Ahead(Few)' /\ Ahead(Many)'
  BY <1>1
<1>3. PICK m : m = measured
  OBVIOUS
<1>4. measured' = m
  BY <1>3
<1>5. m.kind = "semantic" =>
        /\ Leq(m.few, m.many) /\ Leq(m.many, One) /\ Leq(m.ndcg, One) /\ Leq(m.mrr, One)
        /\ Ahead(Few)' /\ Ahead(Many)'
        /\ m.ndcg[1] = m.ndcg[2] =>
             \A i, j \in 1 .. Len(Top(m.predicted, Many)) : i < j =>
               m.grades[m.predicted[i]] >= m.grades[m.predicted[j]]
  BY <1>2, <1>3 DEF MeasuresAreFractions
<1>6. m.kind = "structural" =>
        /\ Leq(m.few, m.many) /\ Leq(m.precision, One)
        /\ IsInjective(m.predicted) => Leq(m.many, One)
  BY <1>3 DEF MeasuresAreFractions
<1>7. measured.kind = "latency" => SampleRight(measured)
  BY DEF MeasuresAreFractions, SampleRight
<1>8. measured'.kind = "latency" => SampleRight(measured')
  BY <1>3, <1>4, <1>7
<1> QED
  BY <1>4, <1>5, <1>6, <1>8 DEF MeasuresAreFractions, SampleRight

\* A new corpus is one, and nothing is measured by it.
LEMMA PrepareCorpusKeeps == QualityInv /\ PrepareCorpus => QualityInv'
<1> SUFFICES ASSUME QualityInv, PrepareCorpus PROVE QualityInv'
  OBVIOUS
<1>1. Prepared(corpus')
  BY DEF PrepareCorpus, Prepared
<1>2. \A f, g \in corpus' : f.name = g.name => f = g
  BY <1>1, PreparedIs
<1>3. measured' = measured
  BY DEF PrepareCorpus
<1> QED
  BY <1>1, <1>2, <1>3, SameMeasures DEF QualityInv

\* After a query.
LEMMA ExecuteQueryKeeps == QualityInv /\ ExecuteQuery => QualityInv'
<1> SUFFICES ASSUME QualityInv, ExecuteQuery PROVE QualityInv'
  OBVIOUS
<1>1. corpus' = corpus /\ Prepared(corpus)
  BY DEF ExecuteQuery, QualityInv
<1>2. PICK F : F = FileNames
  OBVIOUS
<1>3. IsFiniteSet(F) /\ \A f, g \in corpus : f.name = g.name => f = g
  BY <1>1, <1>2, PreparedIs DEF FileNames
<1> DEFINE Of(results, grades, predicted, relevant) ==
      [kind |-> "semantic", results |-> results, grades |-> grades,
       predicted |-> predicted, wanted |-> relevant,
       few  |-> RecallAtK(predicted, relevant, Few),
       many |-> RecallAtK(predicted, relevant, Many),
       ndcg |-> NdcgAtK(predicted, grades, Many),
       mrr  |-> ReciprocalRank(predicted, relevant)]
<1>4. PICK results \in UpTo([file : F, score : Scores], MaxChunks), grades \in [F -> Grades] :
        \E predicted \in DedupeToFileRank(results) :
          measured' = Of(results, grades, predicted, {f \in F : grades[f] >= 1})
  BY <1>2 DEF ExecuteQuery
<1>5. PICK relevant, predicted :
        /\ predicted \in DedupeToFileRank(results) /\ relevant = {f \in F : grades[f] >= 1}
        /\ measured' = Of(results, grades, predicted, relevant)
  BY <1>4
<1>6. /\ measured'.kind = "semantic" /\ measured'.results = results /\ measured'.grades = grades
      /\ measured'.predicted = predicted
      /\ measured'.few = RecallAtK(predicted, relevant, Few) /\ measured'.many = RecallAtK(predicted, relevant, Many)
      /\ measured'.ndcg = NdcgAtK(predicted, grades, Many) /\ measured'.mrr = ReciprocalRank(predicted, relevant)
  BY <1>5
<1>7. PICK m \in Nat : results \in [1 .. m -> [file : F, score : Scores]]
  <2>1. PICK m \in 0 .. MaxChunks : results \in [1 .. m -> [file : F, score : Scores]]
    BY DEF UpTo
  <2>2. m \in Nat
    BY QualityAssumption
  <2> QED
    BY <2>1, <2>2
<1>8. FilesOf(results) \in SUBSET F
  BY <1>7 DEF FilesOf
<1>9. PICK n \in Nat : n = Cardinality(FilesOf(results))
  BY <1>3, <1>8, FS_Subset, FS_CardinalityType
<1>10. /\ predicted \in [1 .. n -> FilesOf(results)] /\ \A i, j \in 1 .. n : i # j => predicted[i] # predicted[j]
       /\ \A i, j \in 1 .. n : i < j => FileScore(results, predicted[i]) >= FileScore(results, predicted[j])
  BY <1>5, <1>9 DEF DedupeToFileRank, SetToSeqs
<1>11. predicted \in [1 .. n -> F] /\ IsFiniteSet(relevant)
  BY <1>3, <1>5, <1>8, <1>10, FS_Subset
<1>12. grades \in [F -> Nat]
  BY QualityAssumption
<1>13. Leq(measured'.few, measured'.many) /\ Leq(measured'.many, One)
  BY <1>6, <1>10, <1>11, RecallIs
<1>14. Leq(measured'.mrr, One)
  BY <1>6, <1>11, ReciprocalRankIs
<1>15. /\ Leq(measured'.ndcg, One)
       /\ measured'.ndcg[1] = measured'.ndcg[2] =>
            \A i, j \in 1 .. Len(Top(predicted, Many)) : i < j => grades[predicted[i]] >= grades[predicted[j]]
  BY <1>3, <1>6, <1>10, <1>11, <1>12, NdcgIs
<1>16. ASSUME NEW i \in 1 .. n, NEW j \in 1 .. n, i < j
       PROVE  \A s \in Scores, c \in 1 .. m : results[c].file = predicted[j] /\ results[c].score >= s =>
                \E e \in 1 .. m : results[e].file = predicted[i] /\ results[e].score >= s
  <2>1. FileScore(results, predicted[i]) >= FileScore(results, predicted[j]) /\ predicted[i] \in FilesOf(results)
    BY <1>10, <1>16
  <2>2. IsAnswer(results, m, F)
    BY <1>7 DEF IsAnswer
  <2> QED
    BY <2>1, <2>2, BestFirst
<1>17. \A k \in Nat : Ahead(k)'
  <2>1. DOMAIN results = 1 .. m /\ DOMAIN predicted = 1 .. n
    BY <1>7, <1>10
  <2>2. SUFFICES ASSUME NEW k \in Nat, NEW i \in 1 .. n, NEW j \in 1 .. n, i <= k, k < j, NEW s \in Scores,
                        FoundBy(predicted[j], s)'
                 PROVE  FoundBy(predicted[i], s)'
    BY <1>6, <2>1 DEF Ahead
  <2>3. PICK c \in 1 .. m : results[c].file = predicted[j] /\ results[c].score >= s
    BY <1>6, <2>1, <2>2 DEF FoundBy
  <2>5. i < j
    BY <2>2
  <2>4. \E e \in 1 .. m : results[e].file = predicted[i] /\ results[e].score >= s
    BY <1>16, <2>2, <2>3, <2>5
  <2> QED
    BY <1>6, <2>1, <2>4 DEF FoundBy
<1>18. Ahead(Few)' /\ Ahead(Many)'
  BY <1>17, QualityAssumption
<1> QED
  BY <1>1, <1>3, <1>6, <1>13, <1>14, <1>15, <1>18 DEF QualityInv, MeasuresAreFractions

\* After a query of the graph.
LEMMA ExecuteStructuralQueryKeeps == QualityInv /\ ExecuteStructuralQuery => QualityInv'
<1> SUFFICES ASSUME QualityInv, ExecuteStructuralQuery PROVE QualityInv'
  OBVIOUS
<1>1. corpus' = corpus /\ Prepared(corpus)
  BY DEF ExecuteStructuralQuery, QualityInv
<1>2. PICK P : P = FileNames \X Symbols
  OBVIOUS
<1>3. IsFiniteSet(P) /\ \A f, g \in corpus : f.name = g.name => f = g
  BY <1>1, <1>2, PreparedIs, FS_Product, QualityAssumption DEF FileNames
<1>4. PICK predicted \in UpTo(P, MaxChunks), expected \in SUBSET P :
        measured' = [kind |-> "structural", predicted |-> predicted, wanted |-> expected,
                     few       |-> RecallAtK(predicted, expected, Few),
                     many      |-> RecallAtK(predicted, expected, Many),
                     precision |-> PrecisionAtK(predicted, expected, Few)]
  BY <1>2 DEF ExecuteStructuralQuery
<1>5. /\ measured'.kind = "structural" /\ measured'.predicted = predicted
      /\ measured'.few = RecallAtK(predicted, expected, Few) /\ measured'.many = RecallAtK(predicted, expected, Many)
      /\ measured'.precision = PrecisionAtK(predicted, expected, Few)
  BY <1>4
<1>6. PICK m \in Nat : predicted \in [1 .. m -> P]
  <2>1. PICK m \in 0 .. MaxChunks : predicted \in [1 .. m -> P]
    BY DEF UpTo
  <2>2. m \in Nat
    BY QualityAssumption
  <2> QED
    BY <2>1, <2>2
<1>7. IsFiniteSet(expected)
  BY <1>3, FS_Subset
<1>8. Leq(measured'.few, measured'.many)
  BY <1>5, <1>6, <1>7, RecallIs
<1>9. IsInjective(measured'.predicted) => Leq(measured'.many, One)
  <2>1. ASSUME IsInjective(predicted) PROVE \A i, j \in 1 .. m : i # j => predicted[i] # predicted[j]
    BY <1>6, <2>1 DEF IsInjective
  <2> QED
    BY <1>5, <1>6, <1>7, <2>1, RecallIs
<1>10. Leq(measured'.precision, One)
  BY <1>5, <1>6, PrecisionIs
<1> QED
  BY <1>1, <1>3, <1>5, <1>8, <1>9, <1>10 DEF QualityInv, MeasuresAreFractions

\* After latencies.
LEMMA MeasureLatencyKeeps == QualityInv /\ MeasureLatency => QualityInv'
<1> SUFFICES ASSUME QualityInv, MeasureLatency PROVE QualityInv'
  OBVIOUS
<1>1. corpus' = corpus /\ Prepared(corpus) /\ \A f, g \in corpus : f.name = g.name => f = g
  BY DEF MeasureLatency, QualityInv, MeasuresAreFractions
<1> DEFINE Sample(n, x, y, c) == [i \in 1 .. n |-> IF i <= c THEN x ELSE y]
           Of(s) == [kind |-> "latency", samples |-> s,
                     store |-> <<Percentile(s, 50), Percentile(s, 95)>>,
                     queries |-> <<AggregatePercentile(s, 50), AggregatePercentile(s, 95)>>]
<1>2. PICK n \in 1 .. MaxSamples, x \in Latencies, y \in Latencies :
        \E c \in 0 .. n : measured' = Of(Sample(n, x, y, c))
  BY DEF MeasureLatency
<1>3. PICK s, c : s = Sample(n, x, y, c) /\ measured' = Of(s)
  BY <1>2
<1>4. n \in Nat /\ n >= 1 /\ x \in Nat /\ y \in Nat
  BY QualityAssumption
<1>5. s \in [1 .. n -> Nat]
  BY <1>3, <1>4
<1>6. /\ measured'.kind = "latency" /\ measured'.samples = s
      /\ measured'.store[1] = Percentile(s, 50) /\ measured'.store[2] = Percentile(s, 95)
      /\ measured'.queries[1] = AggregatePercentile(s, 50) /\ measured'.queries[2] = AggregatePercentile(s, 95)
  BY <1>3
<1>7. measured'.queries[1] <= measured'.queries[2]
  BY <1>4, <1>5, <1>6, AggregateGrows
<1>8. \A q \in {50, 95} :
        /\ 100 * Cardinality(UpToIn(s, n, Percentile(s, q))) >= q * n
        /\ \A z \in Range(s) : 100 * Cardinality(UpToIn(s, n, z)) >= q * n => Percentile(s, q) <= z
  BY <1>4, <1>5, PercentileIs
<1>9. Len(s) = n /\ \A z : {i \in DOMAIN s : s[i] <= z} = UpToIn(s, n, z)
  BY <1>4, <1>5 DEF UpToIn
<1>10. ASSUME NEW q \in {<<50, measured'.store[1]>>, <<95, measured'.store[2]>>}
       PROVE  /\ 100 * Cardinality({i \in DOMAIN s : s[i] <= q[2]}) >= q[1] * Len(s)
              /\ \A z \in Range(s) : 100 * Cardinality({i \in DOMAIN s : s[i] <= z}) >= q[1] * Len(s) => q[2] <= z
  <2>1. PICK p \in {50, 95} : q[1] = p /\ q[2] = Percentile(s, p)
    BY <1>6
  <2> QED
    BY <1>8, <1>9, <2>1
<1> QED
  BY <1>1, <1>6, <1>7, <1>10 DEF QualityInv, MeasuresAreFractions

\* Before the next query nothing is measured.
LEMMA NextQueryKeeps == QualityInv /\ NextQuery => QualityInv'
<1> SUFFICES ASSUME QualityInv, NextQuery PROVE QualityInv'
  OBVIOUS
<1>1. corpus' = corpus /\ measured'.kind = "nothing"
  BY DEF NextQuery
<1> QED
  BY <1>1 DEF QualityInv, MeasuresAreFractions

\* No step breaks the invariant.
LEMMA QualityNextKeeps == QualityInv /\ [QualityNext]_qualityVars => QualityInv'
<1>1. QualityInv /\ UNCHANGED qualityVars => QualityInv'
  <2> SUFFICES ASSUME QualityInv, UNCHANGED qualityVars PROVE QualityInv'
    OBVIOUS
  <2>1. corpus' = corpus /\ measured' = measured /\ \A f, g \in corpus : f.name = g.name => f = g
    BY DEF qualityVars, QualityInv, MeasuresAreFractions
  <2> QED
    BY <2>1, SameMeasures DEF QualityInv
<1> QED
  BY <1>1, PrepareCorpusKeeps, ExecuteQueryKeeps, ExecuteStructuralQueryKeeps, MeasureLatencyKeeps,
     NextQueryKeeps DEF QualityNext

\* Whatever search and graph answer, for any corpora, cut-offs and discounts that
\* fall, the measures are what they are called (bench/metrics.rs:105-241).
THEOREM MeasuresAreRight == QualitySpec => []MeasuresAreFractions
<1>1. QualityInv => MeasuresAreFractions
  BY DEF QualityInv
<1> QED
  BY <1>1, QualityInitHolds, QualityNextKeeps, PTL DEF QualitySpec
=============================================================================
