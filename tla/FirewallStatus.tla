--------------------------- MODULE FirewallStatus ---------------------------
(***************************************************************************)
(* The status bits of a firewall, over the rules of one of its chains:     *)
(* every request that changes rules sets both, before its handler runs; a  *)
(* compilation writes the script and clears the first; an installation     *)
(* sends the script and clears the second.  None of them waits for the     *)
(* others.                                                                 *)
(***************************************************************************)
EXTENDS PolicyRules

VARIABLES
    status,     \* the bits set: "compile" (1), "install" (2)
    script,     \* what the script in the data directory was compiled from
    installed,  \* what the firewall runs
    compile,    \* the compilation: where it is, what it has read
    install     \* the installation: "idle" or "clear"

\* History: no change has overlapped the last compilation, or installation,
\* that one has not failed and this one has sent what the rules say.  No action
\* reads them.
VARIABLES calm, kept

statusVars == <<status, script, installed, compile, install, calm, kept>>
allVars == <<rules, groups, nextId, ops, req, status, script, installed,
             compile, install, calm, kept>>

\* What a script depends on: the rules and their order, not the groups.
Content == {<<i, rules[i].order>> : i \in DOMAIN rules}
\* A script file that is being written.
Partial == {<<0, 0>>}
Contents == (SUBSET (Ids \X Nat)) \cup {Partial}

StatusTypeOK ==
    /\ TypeOK
    /\ status \subseteq {"compile", "install"}
    /\ script \in Contents /\ installed \in Contents
    /\ compile \in [pc : {"idle", "read", "end", "clear"}, seen : Contents]
    /\ install \in {"idle", "clear"}
    /\ calm \in BOOLEAN /\ kept \in BOOLEAN

\* A new firewall: never compiled, never installed.
StatusInit ==
    /\ Init
    /\ status = {"compile", "install"}
    /\ script = {} /\ installed = {}
    /\ compile = [pc |-> "idle", seen |-> {}]
    /\ install = "idle"
    /\ calm = FALSE /\ kept = FALSE
-----------------------------------------------------------------------------
\* Variant: status | 1.
Uncompiled == {"compile"}

\* Variant: status | 2.
Uninstalled == {"install"}

\* status | 3
Flagged == {"compile", "install"}

Changes == {"create", "update", "copy", "move", "delete"}

\* disableFirewallCompileStatus, for the requests of rule.js.
ReceiveChange(r) ==
    /\ ReceiveRule(r)
    /\ status' = status \cup Flagged
    /\ calm' = (calm /\ compile.pc = "idle")
    /\ kept' = (kept /\ install = "idle")
    /\ UNCHANGED <<script, installed, compile, install>>

\* The requests of group.js set nothing.
ReceiveOther(r) == ReceiveOfGroup(r) /\ UNCHANGED statusVars

\* The script is opened for writing, which empties it.
CompileOpen ==
    /\ compile.pc = "idle" /\ ops < MaxOps
    /\ ops' = ops + 1
    /\ script' = Partial
    /\ compile' = [compile EXCEPT !.pc = "read"]
    /\ calm' = \A r \in Requests : req[r].op \notin Changes
    /\ kept' = (kept /\ install = "idle")
    /\ UNCHANGED <<rules, groups, nextId, req, status, installed, install>>

CompileAt(label) ==
    /\ compile.pc = label
    /\ UNCHANGED <<rules, groups, nextId, ops, req, installed, install, kept>>

CompileRead ==
    /\ CompileAt("read")
    /\ compile' = [pc |-> "end", seen |-> Content]
    /\ UNCHANGED <<status, script, calm>>

CompileEnd ==
    /\ CompileAt("end")
    /\ script' = compile.seen
    /\ compile' = [pc |-> "clear", seen |-> {}]
    /\ UNCHANGED <<status, calm>>

CompileClear ==
    /\ CompileAt("clear")
    /\ status' = status \ {"compile"}
    /\ compile' = [compile EXCEPT !.pc = "idle"]
    /\ UNCHANGED <<script, calm>>

\* An error while the rules are read or compiled: the script stays as it is.
CompileFails ==
    /\ compile.pc \in {"read", "end"}
    /\ compile' = [pc |-> "idle", seen |-> {}]
    /\ calm' = FALSE
    /\ UNCHANGED <<rules, groups, nextId, ops, req, status, script, installed,
                   install, kept>>

\* The script is sent whether or not it has been compiled since the last change.
InstallSend ==
    /\ install = "idle" /\ ops < MaxOps
    /\ ops' = ops + 1
    /\ installed' = script
    /\ install' = "clear"
    /\ kept' = (calm /\ compile.pc = "idle" /\ "compile" \notin status)
    /\ UNCHANGED <<rules, groups, nextId, req, status, script, compile, calm>>

InstallClear ==
    /\ install = "clear"
    /\ status' = status \ {"install"}
    /\ install' = "idle"
    /\ UNCHANGED <<rules, groups, nextId, ops, req, script, installed, compile,
                   calm, kept>>
-----------------------------------------------------------------------------
StatusNext ==
    \/ \E r \in Requests :
         \/ ReceiveChange(r) \/ ReceiveOther(r)
         \/ Serve(r) /\ UNCHANGED statusVars
    \/ CompileOpen \/ CompileRead \/ CompileEnd \/ CompileClear \/ CompileFails
    \/ InstallSend \/ InstallClear

StatusSpec == StatusInit /\ [][StatusNext]_allVars
-----------------------------------------------------------------------------
\* The first bit is clear only when the script is what the rules say, unless a
\* change overlapped the compilation that cleared it, or one has failed.
CompiledIsCurrent ==
    calm /\ compile.pc = "idle" /\ "compile" \notin status => script = Content

\* The second is clear only when the firewall runs what the rules say, unless
\* a change overlapped the installation that cleared it, or that installation
\* was asked for before the rules were compiled.
InstalledIsCurrent == kept /\ "install" \notin status => installed = Content
=============================================================================
