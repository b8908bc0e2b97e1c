------------------------------ MODULE Upgrade ------------------------------
(***************************************************************************)
(* vectorcode upgrade: the binary replaces itself (src/cli/upgrade.rs).     *)
(*                                                                         *)
(* A release is published in steps: its tag, its tarball, its list of       *)
(* checksums; a tarball may be built again, and its checksum follows.  The  *)
(* command asks for the tag, the tarball and the list one after another.  A *)
(* build is told from the others of its version, a tarball may be damaged   *)
(* on the way, and version 0 is a tag that is not a semantic version.       *)
(***************************************************************************)
EXTENDS Naturals

CONSTANTS
  Upgrades,      \* commands that run
  MaxVersion,    \* bound: versions
  MaxBuilds,     \* bound: builds, of all versions
  BadBuilds      \* builds whose tarball has an empty binary, or none

ASSUME UpgradeAssumption ==
  /\ {MaxVersion, MaxBuilds} \subseteq Nat \ {0}
  /\ BadBuilds \subseteq [build : 1 .. MaxBuilds, holds : {"empty", "nothing"}]

Versions == 1 .. MaxVersion
Tags     == 0 .. MaxVersion

VARIABLES
  builds,    \* how many builds there were
  latest,    \* the tag of the latest release
  tarball,   \* the build behind the tarball of each tag, 0 before there is one
  sums,      \* the build whose checksum SHA256SUMS has for this target, or 0
  upgrade,   \* the commands
  exe        \* the installed binary, and where it comes from

upgradeVars == <<builds, latest, tarball, sums, upgrade, exe>>

\* A command that is not running, and how the last one ended.
Resting(how) ==
  [pc |-> "idle", check |-> FALSE, named |-> FALSE, current |-> 0, target |-> 0,
   build |-> 0, damaged |-> FALSE, listed |-> FALSE, bytes |-> "nothing", outcome |-> how]

UpgradeInit ==
  /\ builds = 0
  /\ latest = 1
  /\ tarball = [t \in Tags |-> 0]
  /\ sums = [t \in Tags |-> 0]
  /\ upgrade = [u \in Upgrades |-> Resting("none")]
  /\ exe = [version |-> 1, bytes |-> "whole", named |-> FALSE, over |-> 0,
            listed |-> FALSE]

-----------------------------------------------------------------------------
(* The releases. *)

PublishTag == /\ latest' \in Tags \ {latest}
              /\ UNCHANGED <<builds, tarball, sums, upgrade, exe>>

UploadTarball(t) == /\ builds < MaxBuilds
                    /\ builds' = builds + 1
                    /\ tarball' = [tarball EXCEPT ![t] = builds + 1]
                    /\ UNCHANGED <<latest, sums, upgrade, exe>>

\* The checksum of the tarball there is; other targets may be listed before.
UploadSums(t) == /\ sums[t] # tarball[t]
                 /\ sums' = [sums EXCEPT ![t] = tarball[t]]
                 /\ UNCHANGED <<builds, latest, tarball, upgrade, exe>>

-----------------------------------------------------------------------------
(* The command. *)

\* is_update_available: both must be semantic versions.
IsUpdateAvailable(current, target) == current < target

Ended(u, how) == upgrade' = [upgrade EXCEPT ![u] = Resting(how)]

\* execute: the process is of the version that is installed when it starts.
StartUpgrade(u) ==
  /\ upgrade[u].pc = "idle"
  /\ \E check \in BOOLEAN :
       LET it == [Resting("none") EXCEPT !.check = check, !.current = exe.version]
       IN \/ upgrade' = [upgrade EXCEPT ![u] = [it EXCEPT !.pc = "latest"]]
          \/ \E t \in Tags : upgrade' = [upgrade EXCEPT ![u] =
               [it EXCEPT !.pc = "check", !.named = TRUE, !.target = t]]
  /\ UNCHANGED <<builds, latest, tarball, sums, exe>>

\* fetch_github_release_json, parse_version_from_json; or no answer, or not one
\* that can be used.
FetchLatest(u) ==
  /\ upgrade[u].pc = "latest"
  /\ \/ upgrade' = [upgrade EXCEPT ![u].pc = "check", ![u].target = latest]
     \/ Ended(u, "error")
  /\ UNCHANGED <<builds, latest, tarball, sums, exe>>

\* Mutant: the installed version is not compared with.
CheckOnlyWhenAsked(u) ==
  LET it == upgrade[u]
  IN /\ it.pc = "check"
     /\ IF it.check THEN Ended(u, "told")
        ELSE upgrade' = [upgrade EXCEPT ![u].pc = "download"]
     /\ UNCHANGED <<builds, latest, tarball, sums, exe>>

\* --check only tells; a version that was named is not compared.
Check(u) ==
  LET it == upgrade[u]
  IN /\ it.pc = "check"
     /\ IF ~it.check /\ it.named
        THEN upgrade' = [upgrade EXCEPT ![u].pc = "download"]
        ELSE CASE it.target = 0 -> Ended(u, "error")
               [] it.target # 0 /\ it.check -> Ended(u, "told")
               [] it.target # 0 /\ ~it.check /\ ~IsUpdateAvailable(it.current, it.target) ->
                    Ended(u, "up to date")
               [] OTHER -> upgrade' = [upgrade EXCEPT ![u].pc = "download"]
     /\ UNCHANGED <<builds, latest, tarball, sums, exe>>

\* download_binary: the tarball, whole or damaged on its way.
DownloadBinary(u) ==
  /\ upgrade[u].pc = "download"
  /\ \/ /\ tarball[upgrade[u].target] # 0
        /\ \E damaged \in BOOLEAN : upgrade' = [upgrade EXCEPT
             ![u].pc = "verify", ![u].build = tarball[upgrade[u].target], ![u].damaged = damaged]
     \/ Ended(u, "error")
  /\ UNCHANGED <<builds, latest, tarball, sums, exe>>

Verified(u, listed) ==
  upgrade' = [upgrade EXCEPT ![u].pc = "extract", ![u].listed = listed]

\* Mutant: a checksum that differs is only warned of.
VerifyLeniently(u) ==
  /\ upgrade[u].pc = "verify"
  /\ Verified(u, sums[upgrade[u].target] # 0)
  /\ UNCHANGED <<builds, latest, tarball, sums, exe>>

\* verify_sha256_if_available: no list, an answer other than 2xx (which a service
\* may give at any time) and a list without this target are only warned of; no
\* answer, and another checksum, end it.
Verify(u) ==
  LET it == upgrade[u]
      list == sums[it.target]
  IN /\ it.pc = "verify"
     /\ \/ Verified(u, FALSE)
        \/ list = it.build /\ ~it.damaged /\ Verified(u, TRUE)
        \/ Ended(u, "error")
     /\ UNCHANGED <<builds, latest, tarball, sums, exe>>

Holds(build) == IF \E b \in BadBuilds : b.build = build
                THEN (CHOOSE b \in BadBuilds : b.build = build).holds
                ELSE "whole"

\* extract_binary_from_tarball stops behind the binary, so the checksum that
\* gzip has at its end is not read, and damage may go unseen; then the size.
Extract(u) ==
  LET it == upgrade[u]
      found == IF it.damaged THEN {"damaged", "nothing", "empty"} ELSE {Holds(it.build)}
  IN /\ it.pc = "extract"
     /\ \E bytes \in found :
          IF bytes \in {"nothing", "empty"} THEN Ended(u, "error")
          ELSE upgrade' = [upgrade EXCEPT ![u].pc = "replace", ![u].bytes = bytes]
     /\ UNCHANGED <<builds, latest, tarball, sums, exe>>

\* self_replace is one rename.
SelfReplace(u) ==
  LET it == upgrade[u]
  IN /\ it.pc = "replace"
     /\ \/ /\ \E v \in IF it.target = 0 THEN Versions ELSE {it.target} :
                exe' = [version |-> v, bytes |-> it.bytes, named |-> it.named,
                        over |-> it.current, listed |-> it.listed]
           /\ upgrade' = [upgrade EXCEPT ![u].pc = "chmod"]
        \/ Ended(u, "error") /\ UNCHANGED exe
     /\ UNCHANGED <<builds, latest, tarball, sums>>

Chmod(u) ==
  /\ upgrade[u].pc = "chmod"
  /\ \E how \in {"updated", "error"} : Ended(u, how)
  /\ UNCHANGED <<builds, latest, tarball, sums, exe>>

UpgradeNext ==
  \/ PublishTag
  \/ \E t \in Tags : UploadTarball(t) \/ UploadSums(t)
  \/ \E u \in Upgrades :
       \/ StartUpgrade(u) \/ FetchLatest(u) \/ Check(u) \/ DownloadBinary(u)
       \/ Verify(u) \/ Extract(u) \/ SelfReplace(u) \/ Chmod(u)

UpgradeSpec == UpgradeInit /\ [][UpgradeNext]_upgradeVars

-----------------------------------------------------------------------------
(* Properties. *)

\* What replaces the running binary is a binary, is newer than the one that
\* asked for it unless its version was named, and is the one that was built if
\* the release's checksum of it was read: neither a tarball that is built again
\* between the two requests nor damage that extracting does not see gets in
\* (cli/upgrade.rs:53-69, 140-220).
OnlyVerifiedReplaces ==
  /\ exe.bytes \in {"whole", "damaged"}
  /\ exe.listed => exe.bytes = "whole"
  /\ exe.named \/ exe.version > exe.over
=============================================================================
