------------------------------ MODULE ToolGates -------------------------------
(***************************************************************************)
(* Project hooks of one run (hooks/hooks.go, hooks/config.go): the five    *)
(* configuration files are read once into a snapshot, SessionStart runs,   *)
(* every tool call runs its PreToolUse chain, the tool and its PostToolUse *)
(* chain, and SessionEnd runs when the run ends.  The files may be edited  *)
(* at any time, and the run may be canceled at any time.                   *)
(***************************************************************************)
EXTENDS Naturals, Sequences, SequencesExt, FiniteSets

CONSTANTS
  Files,          \* configuration files, in the order they are read
  Contents,       \* what a file may hold: [state, defs]
  Tools,          \* names of the tools the model calls
  Modes, Boxes,   \* execution modes; sandbox pairs [runner, enforcement]
  MaxHookCount,   \* maxHookCount
  MaxCalls, MaxEdits

VARIABLES
  hookMode, box,      \* execution policy of the run, runner and enforcement
  pathFits,       \* the workspace path is a valid environment value
  files, edits,   \* configuration files, edits made
  snap,           \* the loaded snapshot: [failure, hooks]
  phase,          \* load, begin, start, idle, pre, tool, post, end, ended
  canceled,       \* the context of the run
  calls, call,    \* calls made, tool of the current call
  chain,          \* hooks of the current chain still to run
  ran,            \* history: [hook, good] of the current chain
  verdict,        \* what the current chain returned: open, allow or block
  hookStarted,        \* history: hook processes started: [type, isolated]
  atLoad,         \* history: the files as Load read them
  toolRuns        \* history: [tool, ran] of the calls whose tool ran

hookVars == <<hookMode, box, pathFits, files, edits, snap, phase, canceled, calls, call, chain, ran, verdict, hookStarted, atLoad, toolRuns>>

Types == {"pre_tool_use", "post_tool_use", "session_start", "session_end"}

------------------------------------------------------------------------------
(* resolveRunSandboxExecution: full mode runs on the host and only full     *)
(* mode does.                                                               *)
PairAllowed(m, b) ==
  IF m = "full" THEN b.enforcement = "disabled" /\ b.runner = "unconfined"
  ELSE b.enforcement # "disabled"

HookInit ==
  /\ hookMode \in Modes /\ box \in {b \in Boxes : PairAllowed(hookMode, b)} /\ pathFits \in BOOLEAN
  /\ files \in [Range(Files) -> Contents] /\ edits = 0
  /\ snap = [failure |-> "none", hooks |-> <<>>]
  /\ phase = "load" /\ canceled = FALSE
  /\ calls = 0 /\ call = "none" /\ chain = <<>> /\ ran = <<>> /\ verdict = "open"
  /\ hookStarted = {} /\ atLoad = files /\ toolRuns = {}

------------------------------------------------------------------------------
(* validateHook and decodeClaudeHookDefinition: a matcher means something   *)
(* only where a target is known, a group has a handler, a handler decodes.  *)
ValidDefinition(d) ==
  /\ d.type \in Types
  /\ d.matcher.kind = "any" \/ (d.type \in {"pre_tool_use", "post_tool_use"} /\ d.matcher.kind # "invalid")
  /\ d.handlers # <<>> /\ \A i \in DOMAIN d.handlers : d.handlers[i] # "bad"

Flatten(d) == [i \in DOMAIN d.handlers |-> [type |-> d.type, matcher |-> d.matcher, form |-> d.handlers[i]]]

(* A file that does not exist declares nothing. *)
Declared(f) == IF files[f].state = "ok" THEN FlattenSeq([i \in DOMAIN files[f].defs |-> Flatten(files[f].defs[i])]) ELSE <<>>

(* readProjectConfig and extractHooksObject: one bad file, or one bad       *)
(* definition in it, rejects the whole configuration.                       *)
Readable(f) ==
  /\ files[f].state # "broken"
  /\ \A i \in DOMAIN files[f].defs : ValidDefinition(files[f].defs[i])

loadRegistrySnapshot ==
  LET hooks == FlattenSeq([i \in DOMAIN Files |-> Declared(Files[i])])
  IN IF (\E f \in Range(Files) : ~Readable(f)) \/ Len(hooks) > MaxHookCount
     THEN [failure |-> "config", hooks |-> <<>>]
     ELSE [failure |-> "none", hooks |-> hooks]

(* The members of a sequence that are in a set, in their order. *)
Chosen(s, P) == FlattenSeq([i \in DOMAIN s |-> IF s[i] \in P THEN <<s[i]>> ELSE <<>>])

(* hookMatcherMatches *)
Matches(h, tool) == h.matcher.kind = "any" \/ tool \in h.matcher.tools

------------------------------------------------------------------------------
(* ensureRuntime, policyForWorkspace and ValidatePolicy: hooks run on the   *)
(* host only in full mode, elsewhere behind filesystem and network          *)
(* isolation or not at all.                                                 *)
RuntimeFailure ==
  IF hookMode = "full" THEN IF box = [runner |-> "unconfined", enforcement |-> "disabled"] THEN "none" ELSE "policy"
  ELSE IF box.enforcement = "disabled" THEN "policy"
  ELSE IF box.runner # "isolating" THEN "capability"
  ELSE "none"

NoChain(v) == chain' = <<>> /\ ran' = <<>> /\ verdict' = v

(* A synthetic result blocks a PreToolUse chain and nothing else. *)
Refused(type) == NoChain(IF type = "pre_tool_use" THEN "block" ELSE "allow")

(* ExecuteContext up to its loop, in the order of its early returns. *)
ExecuteContext(type, tool, ended) ==
  LET candidates == Chosen(snap.hooks, {h \in Range(snap.hooks) : h.type = type})
      matching == Chosen(snap.hooks, {h \in Range(candidates) : Matches(h, tool)})
  IN IF snap.failure # "none" THEN Refused(type)
     ELSE IF candidates = <<>> THEN NoChain("allow")
     ELSE IF hookMode = "read-only" \/ ended \/ ~pathFits THEN Refused(type)
     ELSE IF matching = <<>> THEN NoChain("allow")
     ELSE IF RuntimeFailure # "none" THEN Refused(type)
     ELSE chain' = matching /\ ran' = <<>> /\ verdict' = "open"

Fixed == UNCHANGED <<hookMode, box, pathFits>>
Quiet == Fixed /\ UNCHANGED <<files, edits, atLoad, snap>>

------------------------------------------------------------------------------
(* Load, then BeginHookSession. *)
Load ==
  /\ phase = "load" /\ snap' = loadRegistrySnapshot /\ atLoad' = files /\ phase' = "begin"
  /\ Fixed /\ UNCHANGED <<files, edits, canceled, calls, call, chain, ran, verdict, hookStarted, toolRuns>>

BeginHookSession ==
  /\ phase = "begin" /\ phase' = "start"
  /\ ExecuteContext("session_start", "none", canceled)
  /\ Quiet /\ UNCHANGED <<canceled, calls, call, hookStarted, toolRuns>>

(* The dispatcher calls PreHook for a validated call. *)
PreHook(t) ==
  /\ phase = "idle" /\ calls < MaxCalls /\ ~canceled
  /\ phase' = "pre" /\ calls' = calls + 1 /\ call' = t
  /\ ExecuteContext("pre_tool_use", t, canceled)
  /\ Quiet /\ UNCHANGED <<canceled, hookStarted, toolRuns>>

ChainType == CASE phase = "start" -> "session_start" [] phase = "pre" -> "pre_tool_use"
               [] phase = "post" -> "post_tool_use" [] OTHER -> "session_end"

(* A PreToolUse failure ends the chain; the others are observed. *)
StopsChain(type, failed) == type = "pre_tool_use" /\ failed

(* What a runner may return: how the process ended, and whether its report  *)
(* carries the enforcement and isolation the policy asked for.              *)
Outcomes == [end : {"ok", "nonzero", "timeout", "canceled", "overflow", "notStarted"}, evidence : BOOLEAN]

classifyHookFailure(o) ==
  IF o.end \in {"timeout", "canceled", "overflow"} THEN o.end
  ELSE IF o.end = "notStarted" THEN "startFailed"
  ELSE IF ~o.evidence THEN "reportInvalid"
  ELSE IF o.end = "nonzero" THEN "nonzero"
  ELSE "none"

(* runHook: a result without failure is a hook that exited zero and was     *)
(* isolated as asked.  SessionEnd runs on a context that is not canceled    *)
(* with the run.                                                            *)
runHook(o) ==
  LET failed == classifyHookFailure(o) # "none"
  IN
  /\ phase \in {"start", "pre", "post", "end"} /\ chain # <<>>
  /\ (canceled /\ phase # "end") => o.end \in {"canceled", "notStarted"}
  /\ ran' = Append(ran, [hook |-> Head(chain), good |-> o.end = "ok" /\ o.evidence])
  /\ hookStarted' = IF o.end = "notStarted" THEN hookStarted
                ELSE hookStarted \cup {[type |-> ChainType, isolated |-> box.runner = "isolating"]}
  /\ IF StopsChain(ChainType, failed)
     THEN chain' = <<>> /\ verdict' = "block"
     ELSE chain' = Tail(chain) /\ verdict' = verdict
  /\ Quiet /\ UNCHANGED <<phase, canceled, calls, call, toolRuns>>

(* The chain has no hook left. *)
StartDone ==
  /\ phase = "start" /\ chain = <<>> /\ phase' = "idle"
  /\ Quiet /\ UNCHANGED <<canceled, calls, call, chain, ran, verdict, hookStarted, toolRuns>>

PreDone ==
  /\ phase = "pre" /\ chain = <<>>
  /\ phase' = IF verdict = "block" THEN "idle" ELSE "tool"
  /\ Quiet /\ UNCHANGED <<canceled, calls, call, chain, ran, verdict, hookStarted, toolRuns>>

(* The tool runs and its PostToolUse chain starts. *)
RunTool ==
  /\ phase = "tool" /\ phase' = "post"
  /\ toolRuns' = toolRuns \cup {[tool |-> call, ran |-> ran]}
  /\ ExecuteContext("post_tool_use", call, canceled)
  /\ Quiet /\ UNCHANGED <<canceled, calls, call, hookStarted>>

PostDone ==
  /\ phase = "post" /\ chain = <<>> /\ phase' = "idle"
  /\ Quiet /\ UNCHANGED <<canceled, calls, call, chain, ran, verdict, hookStarted, toolRuns>>

(* context.WithoutCancel(ctx) *)
EndContext == FALSE

(* The finalizer of the run, from any return of the loop. *)
SessionEnd ==
  /\ phase = "idle" /\ phase' = "end"
  /\ ExecuteContext("session_end", "none", EndContext)
  /\ Quiet /\ UNCHANGED <<canceled, calls, call, hookStarted, toolRuns>>

EndDone ==
  /\ phase = "end" /\ chain = <<>> /\ phase' = "ended"
  /\ Quiet /\ UNCHANGED <<canceled, calls, call, chain, ran, verdict, hookStarted, toolRuns>>

------------------------------------------------------------------------------
(* Somebody edits a file, or stops the run. *)
Edit(f, c) ==
  /\ edits < MaxEdits /\ files[f] # c
  /\ files' = [files EXCEPT ![f] = c] /\ edits' = edits + 1
  /\ Fixed /\ UNCHANGED <<snap, phase, canceled, calls, call, chain, ran, verdict, hookStarted, atLoad, toolRuns>>

Cancel ==
  /\ ~canceled /\ phase \notin {"load", "ended"} /\ canceled' = TRUE
  /\ Quiet /\ UNCHANGED <<phase, calls, call, chain, ran, verdict, hookStarted, toolRuns>>

Step ==
  \/ Load \/ BeginHookSession
  \/ \E o \in Outcomes : runHook(o)
  \/ StartDone \/ PreDone \/ RunTool \/ PostDone \/ SessionEnd \/ EndDone

HookNext ==
  \/ Step
  \/ \E t \in Tools : PreHook(t)
  \/ \E f \in Range(Files), c \in Contents : Edit(f, c)
  \/ Cancel

HookSpec == HookInit /\ [][HookNext]_hookVars

------------------------------------------------------------------------------
(* Values the variables of the hook session take. *)
HookTypeOK ==
  /\ phase \in {"load", "begin", "start", "idle", "pre", "tool", "post", "end", "ended"}
  /\ snap.failure \in {"none", "config"} /\ (snap.failure # "none" => snap.hooks = <<>>)
  /\ verdict \in {"open", "allow", "block"} /\ canceled \in BOOLEAN
  /\ calls \in 0..MaxCalls /\ edits \in 0..MaxEdits
  /\ Len(snap.hooks) <= MaxHookCount
  /\ \A h \in Range(snap.hooks) : h.type \in Types /\ h.matcher.kind # "invalid"

(* A tool of a run ran only if every configuration file was whole when the  *)
(* run loaded them, and every handler any of them declares for that tool    *)
(* ran for this very call, isolated as asked, and exited zero: neither an edit made since, nor a  *)
(* missing sandbox, nor a hook that failed lets a call past its hooks       *)
(* (Registry.Load, ExecuteContext, PreHook of the loop).                    *)
ToolPassedItsHooks ==
  \A r \in toolRuns :
    /\ \A f \in DOMAIN atLoad : atLoad[f].state # "broken"
    /\ \A k \in DOMAIN r.ran : r.ran[k].good
    /\ \A f \in DOMAIN atLoad : \A i \in DOMAIN atLoad[f].defs :
         LET d == atLoad[f].defs[i]
         IN (atLoad[f].state = "ok" /\ d.type = "pre_tool_use"
             /\ (d.matcher.kind = "any" \/ r.tool \in d.matcher.tools))
            => \A j \in DOMAIN d.handlers :
                 \E k \in DOMAIN r.ran : r.ran[k].hook.matcher = d.matcher /\ r.ran[k].hook.form = d.handlers[j]

(* No hook process exists in a read-only run, and one without isolation     *)
(* only in a run whose mode is full (secureHookPolicy, the package comment  *)
(* of hooks.go).                                                            *)
HookProcessesConfined ==
  \A p \in hookStarted : hookMode # "read-only" /\ (~p.isolated => hookMode = "full")

(* A hook that only observes cannot hide another one: when a PostToolUse,   *)
(* SessionStart or SessionEnd chain is over, every hook of its type that    *)
(* matched has run, whatever the ones before it returned.                   *)
ObserversAllRun ==
  (phase \in {"start", "post", "end"} /\ chain = <<>> /\ ran # <<>>)
    => Cardinality({i \in DOMAIN snap.hooks :
          snap.hooks[i].type = ChainType /\ (phase = "post" => Matches(snap.hooks[i], call))}) = Len(ran)

(* SessionEnd is cleanup: a run that began its session ends with every      *)
(* SessionEnd hook having run once, canceled or not, wherever hooks can run *)
(* at all (BeginHookSession and the finalizer of the run).                  *)
CleanupRuns ==
  (phase = "ended" /\ hookMode # "read-only" /\ RuntimeFailure = "none" /\ pathFits)
    => Len(ran) = Cardinality({i \in DOMAIN snap.hooks : snap.hooks[i].type = "session_end"})

------------------------------------------------------------------------------

(***************************************************************************)
(* Authority of a run and of the runs it starts (executionpolicy/policy.go) *)
(* and the decision about each tool call (agent/permission.go,             *)
(* hooks/permissions.go, the authorization part of agent/tool_dispatch.go). *)
(* A run captures the permission settings once; they may be edited at any  *)
(* time.  A run resolves its execution policy from a user request, a child *)
(* from its parent's policy.                                               *)
(***************************************************************************)
CONSTANTS
  Runs, Root,       \* run identities; the one a user starts
  Levels,           \* settings files, lowest priority first
  Settings,         \* what a settings file may hold: [allow, deny, mode]
  Calls,            \* tool calls: [tool, text, effect, path, blocked, kind]
  Isolation,        \* whether the runner of the host isolates the filesystem
  PermissionMaxEdits, PermissionMaxCalls   \* bounds on edits and on calls remembered

VARIABLES
  isolated,         \* FilesystemIsolation of this host's runner
  settings, permissionEdits,
  run,              \* per run: [status, parent, policy, perms, atStart]
  revision,         \* executionPolicyRevisions
  selectedFull,     \* history: revisions at which the user selected full mode
  decided           \* history: [run, call, decision, approved, ran]

permissionVars == <<isolated, settings, permissionEdits, run, revision, selectedFull, decided>>

PermissionModes == {"read-only", "workspace", "full"}
Rank(m) == CASE m = "read-only" -> 0 [] m = "workspace" -> 1 [] m = "full" -> 2 [] OTHER -> 9
(* A mode, a source or a pattern that is left empty is "unset". *)
NoPolicy == [mode |-> "unset", revision |-> 0, parentRevision |-> 0, fullRevision |-> 0, source |-> "unset"]
NoPerms == [allow |-> {}, deny |-> {}, mode |-> "default"]
Unstarted == [status |-> "none", parent |-> "none", policy |-> NoPolicy, perms |-> NoPerms, atStart |-> <<>>]

PermissionInit ==
  /\ isolated \in Isolation
  /\ settings \in [Range(Levels) -> Settings] /\ permissionEdits = 0
  /\ run = [r \in Runs |-> Unstarted]
  /\ revision = 0 /\ selectedFull = {} /\ decided = {}

------------------------------------------------------------------------------
(* CapturePermissions: the default rules for read tools, then each level;   *)
(* a mode set at a higher level replaces the lower one's.                   *)
DefaultAllow == {[tool |-> t, pattern |-> "unset"] : t \in {"Read", "Glob", "Grep"}}

CapturePermissions ==
  LET named == {i \in DOMAIN Levels : settings[Levels[i]].mode # "unset"}
  IN [allow |-> DefaultAllow \cup UNION {settings[l].allow : l \in Range(Levels)},
      deny |-> UNION {settings[l].deny : l \in Range(Levels)},
      mode |-> IF named = {} THEN "default" ELSE settings[Levels[Max(named)]].mode]

matchRule(rule, c) == rule.tool \in {"*", c.tool} /\ (rule.pattern = "unset" \/ rule.pattern \in c.text)

(* PermissionSnapshot.Decide *)
Decide(perms, c) ==
  IF perms.mode = "bypassPermissions" THEN "allow"
  ELSE IF perms.mode = "dontAsk" THEN "deny"
  ELSE IF perms.mode = "acceptEdits" /\ c.tool \in {"Write", "Edit"} THEN "allow"
  ELSE IF \E rule \in perms.deny : matchRule(rule, c) THEN "deny"
  ELSE IF \E rule \in perms.allow : matchRule(rule, c) THEN "allow"
  ELSE "ask"

------------------------------------------------------------------------------
(* Resolve: no request means workspace; only an explicit request is full.   *)
Resolve(request, rev) ==
  [mode |-> IF request = "unset" THEN "workspace" ELSE request, revision |-> rev, parentRevision |-> 0,
   fullRevision |-> IF request = "full" THEN rev ELSE 0,
   source |-> IF request = "unset" THEN "default" ELSE "user"]

ValidateSnapshot(p) ==
  /\ p.mode \in PermissionModes /\ p.revision # 0
  /\ \/ p.source \in {"default", "user"} /\ p.parentRevision = 0
     \/ p.source \in {"inherited", "restriction"} /\ p.parentRevision = p.revision
  /\ p.mode = "full" => p.fullRevision # 0 /\ (p.source = "user" => p.fullRevision = p.revision)
  /\ (p.source = "user" /\ p.mode # "full") => p.fullRevision = 0

(* ResolveChild and deriveChildExecutionPolicy: an escalation, or a parent  *)
(* without provenance, yields an empty policy.                              *)
ResolveChild(parent, requested) ==
  LET mode == IF requested = "unset" THEN parent.mode ELSE requested
  IN IF ~ValidateSnapshot(parent) \/ mode \notin PermissionModes \/ Rank(mode) > Rank(parent.mode)
     THEN NoPolicy
     ELSE [mode |-> mode, revision |-> parent.revision, parentRevision |-> parent.revision,
           fullRevision |-> parent.fullRevision,
           source |-> IF requested = "unset" THEN "inherited" ELSE "restriction"]

------------------------------------------------------------------------------

(* The run loop validates the policy it was given, then captures. *)
Started(parent, policy) ==
  IF ValidateSnapshot(policy)
  THEN [status |-> "active", parent |-> parent, policy |-> policy, perms |-> CapturePermissions, atStart |-> settings]
  ELSE [Unstarted EXCEPT !.status = "refused", !.parent = parent]

(* resolveServerExecutionPolicy for a request of the user; the run loop     *)
(* validates the policy and captures the permissions.                       *)
StartRoot(request) ==
  /\ run[Root].status = "none"
  /\ revision' = revision + 1
  /\ run' = [run EXCEPT ![Root] = Started("none", Resolve(request, revision + 1))]
  /\ selectedFull' = IF request = "full" THEN selectedFull \cup {revision + 1} ELSE selectedFull
  /\ UNCHANGED <<isolated, settings, permissionEdits, decided>>

(* A sub-agent or team worker; a read-only task asks for that mode, and the *)
(* request of a child is otherwise anything.                                *)
StartChild(p, c, requested) ==
  /\ run[p].status = "active" /\ run[c].status = "none" /\ c # Root
  /\ run' = [run EXCEPT ![c] = Started(p, ResolveChild(run[p].policy, requested))]
  /\ UNCHANGED <<isolated, settings, permissionEdits, revision, selectedFull, decided>>

------------------------------------------------------------------------------
(* ClassifyDanger *)
Danger(c) ==
  CASE c.tool \in {"Bash", "Git"} -> (CASE c.effect = "read" -> "safe" [] c.effect = "mutate" -> "moderate"
                                        [] c.effect = "destroy" -> "dangerous" [] OTHER -> "unknown")
    [] c.tool \in {"Read", "Glob", "Grep", "Edit"} -> "safe"
    [] OTHER -> "moderate"

(* CheckPermission with AutoApprove "all": what no rule can override. *)
HardAllowed(c, mode) == ~c.blocked /\ (c.path = "inside" \/ (c.path = "outside" /\ mode = "full"))

requiresWorkspaceProcessApproval(c, mode) == mode = "workspace" /\ ~isolated /\ c.tool \in {"Bash", "Git"}

(* The threshold of the loop is "moderate". *)
AutoAllowed(c) == Danger(c) \notin {"dangerous", "unknown"}

ResolvePermissionWithPolicy(c, r) ==
  LET mode == run[r].policy.mode
      rule == Decide(run[r].perms, c)
  IN IF ~HardAllowed(c, mode) \/ rule = "deny" THEN "deny"
     ELSE IF rule = "allow" \/ mode = "full" THEN "allow"
     ELSE IF requiresWorkspaceProcessApproval(c, mode) \/ ~AutoAllowed(c) THEN "approval"
     ELSE "allow"

(* The read-only gate of the dispatcher, ahead of the permission. *)
ReadOnlyRefuses(c) ==
  \/ c.tool \in {"Bash", "Git"} /\ ~isolated
  \/ c.kind # "builtin"
  \/ ~(c.tool \in {"Read", "Glob", "Grep"} \/ (c.tool \in {"Bash", "Git"} /\ c.effect = "read"))

(* needsBoundAuthorization: plugins and host interaction need an approval   *)
(* of this very call even where the permission says allow.                  *)
NeedsBoundAuthorization(c, mode) == c.tool = "ComputerUse" \/ c.kind = "plugin" \/ (mode = "full" /\ c.kind # "builtin")

(* One call up to its execution; yes is what the user answers if asked. *)
DispatchCall(r, c, yes) ==
  LET mode == run[r].policy.mode
      refused == mode = "read-only" /\ ReadOnlyRefuses(c)
      decision == IF refused THEN "deny" ELSE ResolvePermissionWithPolicy(c, r)
      asked == ~refused /\ (decision = "approval" \/ (decision = "allow" /\ NeedsBoundAuthorization(c, mode)))
  IN
  /\ run[r].status = "active" /\ Cardinality(decided) < PermissionMaxCalls
  /\ asked \/ ~yes
  /\ decided' = decided \cup {[run |-> r, call |-> c, decision |-> decision, approved |-> asked /\ yes,
                               ran |-> decision # "deny" /\ (asked => yes)]}
  /\ UNCHANGED <<isolated, settings, permissionEdits, run, revision, selectedFull>>

EditSettings(l, s) ==
  /\ permissionEdits < PermissionMaxEdits /\ settings[l] # s
  /\ settings' = [settings EXCEPT ![l] = s] /\ permissionEdits' = permissionEdits + 1
  /\ UNCHANGED <<isolated, run, revision, selectedFull, decided>>

PermissionNext ==
  \/ \E request \in PermissionModes \cup {"unset"} : StartRoot(request)
  \/ \E p, c \in Runs, requested \in PermissionModes \cup {"unset"} : StartChild(p, c, requested)
  \/ \E r \in Runs, c \in Calls, yes \in BOOLEAN : DispatchCall(r, c, yes)
  \/ \E l \in Range(Levels), s \in Settings : EditSettings(l, s)

PermissionSpec == PermissionInit /\ [][PermissionNext]_permissionVars

------------------------------------------------------------------------------
(* An active run carries a policy whose provenance is valid; a refused one  *)
(* carries none and starts nothing.                                         *)
PermissionTypeOK ==
  /\ \A r \in Runs : run[r].status \in {"none", "active", "refused"}
  /\ \A r \in Runs : (run[r].status = "active") = (run[r].policy # NoPolicy)
  /\ \A d \in decided : run[d.run].status = "active"

(* No chain of children ever gains authority: each is within its parent,    *)
(* and a run in full mode exists only below a user request for full mode    *)
(* with that very revision (ResolveChild, ValidateSnapshot).                *)
AuthorityNeverGrows ==
  \A r \in Runs : run[r].status = "active" =>
    /\ run[r].parent # "none" => Rank(run[r].policy.mode) <= Rank(run[run[r].parent].policy.mode)
    /\ run[r].policy.mode = "full" => run[r].policy.fullRevision \in selectedFull

(* In a read-only run no call with an effect ran, and no process of the     *)
(* host ran without filesystem isolation (the gate of dispatchToolCalls).   *)
ReadOnlyHasNoEffect ==
  \A d \in decided : (d.ran /\ run[d.run].policy.mode = "read-only") =>
    d.call.effect = "read" /\ (d.call.tool \in {"Bash", "Git"} => isolated)

(* A host command of a workspace run without isolation ran only because the *)
(* user approved that call or the settings of the run's start allow it      *)
(* (requiresWorkspaceProcessApproval).                                      *)
HostCommandsConsented ==
  \A d \in decided :
    (d.ran /\ run[d.run].policy.mode = "workspace" /\ ~isolated /\ d.call.tool \in {"Bash", "Git"}) =>
      \/ d.approved
      \/ \E l \in DOMAIN run[d.run].atStart :
           \/ run[d.run].atStart[l].mode = "bypassPermissions"
           \/ \E rule \in run[d.run].atStart[l].allow : matchRule(rule, d.call)

(* The permissions of a run are those of its start: the same call gets the  *)
(* same decision however the settings are edited meanwhile                  *)
(* (PermissionSnapshot, "immutable for this session").                      *)
SettingsFrozenForRun ==
  \A d, e \in decided : (d.run = e.run /\ d.call = e.call) => d.decision = e.decision

------------------------------------------------------------------------------

(***************************************************************************)
(* Executable plugins of one run (agent/plugins.go, plugin_execution.go,   *)
(* plugin_approval.go) and the immutable tool catalog they enter           *)
(* (agent/tool_schema.go).  Plugin directories are files that anybody may  *)
(* edit while the run discovers them, waits for an approval or executes.   *)
(* Contents of manifests and executables are version numbers; a digest is  *)
(* equal exactly when the version is.                                      *)
(***************************************************************************)
CONSTANTS
  Plugins,          \* plugin directories
  Tool(_),          \* name of the plugin's tool
  BuiltIns,         \* reserved tool names
  Batch,            \* calls of one turn, in order: sequence of plugins
  Versions,         \* contents of a file
  PluginMaxEdits, MaxClock, Lifetime   \* bounds; lifetime of an approval

VARIABLES
  disk,        \* plugin -> [form, man, exe]: form of the manifest, contents of both files
  pluginEdits, clock,
  pluginRun,         \* [mode, explicit, isolates, phase, loaded, bound]
  pluginCalls,       \* one record per call of the batch: [state, expires, checked]
  used,        \* usedPluginApprovals: the calls whose proof is remembered
  runs         \* history: sequence of started processes [call, checked, isolation]

pluginVars == <<disk, pluginEdits, clock, pluginRun, pluginCalls, used, runs>>

Forms == {"absent", "invalid", "legacy", "exec"}
PluginFiles == [form : Forms, man : Versions, exe : Versions]
NoBinding == [man |-> 0, exe |-> 0]
Waiting == [state |-> "queued", expires |-> 0, checked |-> NoBinding]

PluginInit ==
  /\ disk \in [Plugins -> {f \in PluginFiles : f.man = f.exe}]
  /\ pluginEdits = 0 /\ clock = 0
  /\ \E m \in {"read-only", "workspace", "full"}, e \in BOOLEAN, i \in BOOLEAN :
       pluginRun = [mode |-> m, explicit |-> e, isolates |-> i, phase |-> "start", loaded |-> <<>>, bound |-> <<>>]
  /\ pluginCalls = [i \in DOMAIN Batch |-> Waiting] /\ used = {} /\ runs = <<>>

------------------------------------------------------------------------------
(* Somebody edits a manifest or an executable; time passes.                 *)
EditFile ==
  /\ pluginEdits < PluginMaxEdits /\ pluginEdits' = pluginEdits + 1
  /\ \E p \in Plugins, f \in PluginFiles :
       /\ disk[p].form # "absent" /\ f # disk[p] /\ f.form # "absent"
       /\ (f.form # disk[p].form) => (f.man # disk[p].man)
       /\ disk' = [disk EXCEPT ![p] = f]
  /\ UNCHANGED <<clock, pluginRun, pluginCalls, used, runs>>

Tick ==
  /\ clock < MaxClock /\ clock' = clock + 1
  /\ UNCHANGED <<disk, pluginEdits, pluginRun, pluginCalls, used, runs>>

------------------------------------------------------------------------------
(* Discovery.  A read-only run looks for no plugin.                         *)
Present == {p \in Plugins : disk[p].form # "absent"}

(* validatePluginManifest and the duplicate checks of loadPluginManifests   *)
ManifestsValid ==
  /\ \A p \in Present : disk[p].form # "invalid" /\ Tool(p) \notin BuiltIns
  /\ \A p, q \in Present : Tool(p) = Tool(q) => p = q

Fails(reason) == pluginRun' = [pluginRun EXCEPT !.phase = reason]

(* A plugin error ends a run that asked for plugins; otherwise the run      *)
(* keeps its base catalog.                                                  *)
PluginError == IF pluginRun.explicit THEN Fails("plugin_configuration_failed")
               ELSE pluginRun' = [pluginRun EXCEPT !.phase = "register", !.bound = <<>>]

LoadAllStrict ==
  /\ pluginRun.phase = "start" /\ pluginRun.mode # "read-only"
  /\ IF ManifestsValid
     THEN pluginRun' = [pluginRun EXCEPT !.phase = "bind",
            !.loaded = [p \in Present |-> [exec |-> disk[p].form = "exec", man |-> disk[p].man]]]
     ELSE PluginError

SkipPlugins ==
  /\ pluginRun.phase = "start" /\ pluginRun.mode = "read-only"
  /\ pluginRun' = [pluginRun EXCEPT !.phase = "register"]

(* normalizePluginExecutionOptions: full mode takes the unconfined runner,  *)
(* every other mode a runner that isolates files and network.               *)
normalizePluginExecutionOptions == pluginRun.mode = "full" \/ pluginRun.isolates

(* ExecutableToolDefs: hash each executable and fix the binding.            *)
ExecutableToolDefs ==
  /\ pluginRun.phase = "bind"
  /\ LET execs == {p \in DOMAIN pluginRun.loaded : pluginRun.loaded[p].exec}
     IN IF execs # {} /\ ~normalizePluginExecutionOptions THEN PluginError
        ELSE pluginRun' = [pluginRun EXCEPT !.phase = "register",
               !.bound = [p \in execs |-> [man |-> pluginRun.loaded[p].man, exe |-> disk[p].exe]]]

(* validatePluginBindingDefinition: every binding demands isolation.        *)
validatePluginBindingDefinition == pluginRun.mode # "full" /\ pluginRun.isolates

(* registerRunToolCatalogSchemas and snapshotForAllowedTools: one invalid   *)
(* binding invalidates the catalog.                                         *)
RegisterCatalog ==
  /\ pluginRun.phase = "register"
  /\ IF DOMAIN pluginRun.bound # {} /\ ~validatePluginBindingDefinition
     THEN Fails("tool_catalog_failed") ELSE pluginRun' = [pluginRun EXCEPT !.phase = "ready"]

Compose == /\ LoadAllStrict \/ SkipPlugins \/ ExecutableToolDefs \/ RegisterCatalog
           /\ UNCHANGED <<disk, pluginEdits, clock, pluginCalls, used, runs>>

------------------------------------------------------------------------------
(* Dispatch of one turn: every call is checked and approved, in order,      *)
(* before the first of them executes.                                       *)
OnDisk(p) == [man |-> disk[p].man, exe |-> disk[p].exe]
validatePluginBindingArtifacts_Manifest(p) == disk[p].man = pluginRun.bound[p].man
validatePluginBindingArtifacts(p) == OnDisk(p) = pluginRun.bound[p]

Denied(i) == pluginCalls' = [pluginCalls EXCEPT ![i].state = "denied"]

Turn(i, from) == /\ pluginRun.phase = "ready" /\ pluginCalls[i].state = from
                 /\ \A j \in 1..(i - 1) : pluginCalls[j].state \notin {"queued", "asked"}

validateToolExecutorIdentity(i) ==
  /\ Turn(i, "queued")
  /\ LET p == Batch[i]
     IN IF p \notin DOMAIN pluginRun.bound \/ ~validatePluginBindingArtifacts(p) THEN Denied(i)
        ELSE pluginCalls' = [pluginCalls EXCEPT ![i] = [@ EXCEPT !.state = "asked", !.expires = clock + Lifetime]]
  /\ UNCHANGED <<disk, pluginEdits, clock, pluginRun, used, runs>>

(* requestToolApproval and mintPluginApproval: the answer must arrive       *)
(* before the request expires; the proof carries its expiry.                *)
requestToolApproval(i) ==
  /\ Turn(i, "asked")
  /\ \E allowed \in BOOLEAN :
       IF allowed /\ pluginCalls[i].expires > clock THEN pluginCalls' = [pluginCalls EXCEPT ![i].state = "proven"] ELSE Denied(i)
  /\ UNCHANGED <<disk, pluginEdits, clock, pluginRun, used, runs>>

Prepared == \A i \in DOMAIN pluginCalls : pluginCalls[i].state \notin {"queued", "asked"}
MayExecute(i) == /\ pluginRun.phase = "ready" /\ Prepared
                 /\ \A j \in 1..(i - 1) : pluginCalls[j].state \notin {"proven", "checked"}

consumePluginApprovalProof(i) == pluginCalls[i].expires > clock /\ i \notin used

(* executeBoundPluginTool up to the start of the process.                   *)
executeBoundPluginTool(i) ==
  /\ MayExecute(i) /\ pluginCalls[i].state = "proven"
  /\ IF validatePluginBindingArtifacts(Batch[i]) /\ consumePluginApprovalProof(i)
     THEN /\ pluginCalls' = [pluginCalls EXCEPT ![i] = [@ EXCEPT !.state = "checked", !.checked = OnDisk(Batch[i])]]
          /\ used' = {u \in used : pluginCalls[u].expires > clock} \cup {i}
     ELSE Denied(i) /\ UNCHANGED used
  /\ UNCHANGED <<disk, pluginEdits, clock, pluginRun, runs>>

(* The runner starts the executable and reports; only a started, isolated   *)
(* and successful process is a success.                                     *)
RunProcess(i) ==
  /\ MayExecute(i) /\ pluginCalls[i].state = "checked"
  /\ \E started \in BOOLEAN, isolation \in BOOLEAN, good \in BOOLEAN :
       /\ pluginCalls' = [pluginCalls EXCEPT ![i].state =
            IF started /\ ~isolation THEN "blocked" ELSE IF started /\ good THEN "ok" ELSE "failed"]
       /\ runs' = IF started THEN Append(runs, [call |-> i, checked |-> pluginCalls[i].checked, isolation |-> isolation]) ELSE runs
  /\ UNCHANGED <<disk, pluginEdits, clock, pluginRun, used>>

(* The executor is handed the same envelope of input and proof again.       *)
HandedAgain(i) ==
  /\ MayExecute(i) /\ pluginCalls[i].state \in {"blocked", "ok", "failed"} /\ i = Len(Batch) /\ Len(runs) < 3
  /\ IF validatePluginBindingArtifacts(Batch[i]) /\ consumePluginApprovalProof(i)
     THEN /\ pluginCalls' = [pluginCalls EXCEPT ![i] = [@ EXCEPT !.state = "checked", !.checked = OnDisk(Batch[i])]]
          /\ used' = {u \in used : pluginCalls[u].expires > clock} \cup {i}
     ELSE UNCHANGED <<pluginCalls, used>>
  /\ UNCHANGED <<disk, pluginEdits, clock, pluginRun, runs>>

PluginNext ==
  \/ EditFile \/ Tick \/ Compose
  \/ \E i \in DOMAIN pluginCalls : \/ validateToolExecutorIdentity(i) \/ requestToolApproval(i)
                             \/ executeBoundPluginTool(i) \/ RunProcess(i) \/ HandedAgain(i)

PluginSpec == PluginInit /\ [][PluginNext]_pluginVars

------------------------------------------------------------------------------
Phases == {"start", "bind", "register", "ready", "plugin_configuration_failed", "tool_catalog_failed"}

(* Files, phases of the run and states of the calls have their types, and   *)
(* no call of a plugin goes past the catalog unless the run is ready.       *)
PluginTypeOK ==
  /\ disk \in [Plugins -> PluginFiles] /\ pluginEdits \in 0..PluginMaxEdits /\ clock \in 0..MaxClock
  /\ pluginRun.phase \in Phases /\ DOMAIN pluginRun.bound \subseteq Plugins
  /\ \A i \in DOMAIN pluginCalls : pluginCalls[i].state \in {"queued", "asked", "proven", "denied", "checked", "blocked", "ok", "failed"}
  /\ used \subseteq DOMAIN pluginCalls
  /\ (\E i \in DOMAIN pluginCalls : pluginCalls[i].state # "queued") => pluginRun.phase = "ready"

(* The files executeBoundPluginTool looked at before it started a process   *)
(* are those the run bound at its start, which are the ones the user        *)
(* approved: an edit while the approval was open, or while the approvals of *)
(* later calls were awaited, is never run.                                  *)
RunsWhatWasApproved == \A k \in DOMAIN runs : runs[k].checked = pluginRun.bound[Batch[runs[k].call]]

(* One approval starts at most one process, however often the executor is   *)
(* handed the proof, before or after used proofs have been cleaned up.      *)
OneRunPerApproval ==
  \A k, l \in DOMAIN runs : runs[k].call = runs[l].call => k = l

(* LoadAll "never a partially trusted catalog": an advertised plugin set    *)
(* is every executable plugin that was discovered, with distinct names that *)
(* no built-in tool has.                                                    *)
CatalogAllOrNothing ==
  pluginRun.phase = "ready" /\ DOMAIN pluginRun.bound # {} =>
    /\ \A p, q \in DOMAIN pluginRun.loaded : Tool(p) = Tool(q) => p = q
    /\ \A p \in DOMAIN pluginRun.bound : Tool(p) \notin BuiltIns
    /\ DOMAIN pluginRun.loaded = Present

=============================================================================
