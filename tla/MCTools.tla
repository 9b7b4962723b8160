------------------------------- MODULE MCTools --------------------------------
(***************************************************************************)
(* What a tool call passes and what it starts: hooks, permissions and      *)
(* plugins before it runs, the processes, language and MCP servers and web *)
(* requests behind it. A behaviour is one of the component named by part;  *)
(* the others stay Off.                                                    *)
(***************************************************************************)
EXTENDS Integers, Sequences, FiniteSets, TLC

CONSTANTS Off, k1, k2, c1, c2, c3

VARIABLES
  part,
  hookMode, box, pathFits, files, edits, snap, phase, canceled, calls, call, chain, ran,
  verdict, hookStarted, atLoad, toolRuns,
  isolated, settings, permissionEdits, run, revision, selectedFull, decided,
  disk, pluginEdits, clock, pluginRun, pluginCalls, used, runs,
  secure, route, policy, sandboxPhase, root, exit, kids, ctx, pipe, written, kept, truncated,
  limitHit, stopped, reason, killed, seenCtx, waitErr, jobErr, jobDone, applied, failure,
  isError,
  supervisorSecure, isolating, supervisorPhase, inJob, supervisorRoot, supervisorKids, unread,
  io, tmp, supervisorCtx, waiter, done, term, termErr, once, stopErr, supervisorCall, groupHit,
  op, lspPhase, server, out, sent, id, waiting, diag, lspStopped, ioClosed, result, told,
  answered,
  mcpPhase, outcome, pending, mcpWaiter, writers, mcpWritten, toServer, toClient, reader,
  running, stopping, alive, stale, cached, seen, newest, version, notes, unsolicited, closed, readers,
  executed,
  fetchCall, asked, docs, browsers,
  req, searchPhase, chosen, got, results, tried, fetched

hookVars == <<hookMode, box, pathFits, files, edits, snap, phase, canceled, calls, call, chain, ran,
    verdict, hookStarted, atLoad, toolRuns>>
permissionVars == <<isolated, settings, permissionEdits, run, revision, selectedFull, decided>>
pluginVars == <<disk, pluginEdits, clock, pluginRun, pluginCalls, used, runs>>
sandboxVars == <<secure, route, policy, sandboxPhase, root, exit, kids, ctx, pipe, written, kept,
    truncated, limitHit, stopped, reason, killed, seenCtx, waitErr, jobErr, jobDone, applied,
    failure, isError>>
supervisorVars == <<supervisorSecure, isolating, supervisorPhase, inJob, supervisorRoot, supervisorKids,
    unread, io, tmp, supervisorCtx, waiter, done, term, termErr, once, stopErr,
    supervisorCall, groupHit>>
lspVars == <<op, lspPhase, server, out, sent, id, waiting, diag, lspStopped, ioClosed, result, told,
    answered>>
mcpVars == <<mcpPhase, outcome, pending, mcpWaiter, writers, mcpWritten, toServer, toClient, reader,
    running, stopping, alive, stale, cached, seen, newest, version, notes, unsolicited, closed,
    readers, executed>>
fetchVars == <<fetchCall, asked, docs, browsers>>
searchVars == <<req, searchPhase, chosen, got, results, tried, fetched>>
vars == <<part, hookVars, permissionVars, pluginVars, sandboxVars, supervisorVars, lspVars, mcpVars, fetchVars, searchVars>>

NoHooks ==
  /\ hookMode = Off /\ box = Off /\ pathFits = Off /\ files = Off /\ edits = Off /\ snap = Off
  /\ phase = Off /\ canceled = Off /\ calls = Off /\ call = Off /\ chain = Off /\ ran = Off
  /\ verdict = Off /\ hookStarted = Off /\ atLoad = Off /\ toolRuns = Off
NoPermissions ==
  /\ isolated = Off /\ settings = Off /\ permissionEdits = Off /\ run = Off /\ revision = Off
  /\ selectedFull = Off /\ decided = Off
NoPlugins ==
  /\ disk = Off /\ pluginEdits = Off /\ clock = Off /\ pluginRun = Off /\ pluginCalls = Off
  /\ used = Off /\ runs = Off
NoSandbox ==
  /\ secure = Off /\ route = Off /\ policy = Off /\ sandboxPhase = Off /\ root = Off
  /\ exit = Off /\ kids = Off /\ ctx = Off /\ pipe = Off /\ written = Off /\ kept = Off
  /\ truncated = Off /\ limitHit = Off /\ stopped = Off /\ reason = Off /\ killed = Off
  /\ seenCtx = Off /\ waitErr = Off /\ jobErr = Off /\ jobDone = Off /\ applied = Off
  /\ failure = Off /\ isError = Off
NoSupervisor ==
  /\ supervisorSecure = Off /\ isolating = Off /\ supervisorPhase = Off /\ inJob = Off
  /\ supervisorRoot = Off /\ supervisorKids = Off /\ unread = Off /\ io = Off /\ tmp = Off
  /\ supervisorCtx = Off /\ waiter = Off /\ done = Off /\ term = Off /\ termErr = Off
  /\ once = Off /\ stopErr = Off /\ supervisorCall = Off /\ groupHit = Off
NoLsp ==
  /\ op = Off /\ lspPhase = Off /\ server = Off /\ out = Off /\ sent = Off /\ id = Off
  /\ waiting = Off /\ diag = Off /\ lspStopped = Off /\ ioClosed = Off /\ result = Off
  /\ told = Off /\ answered = Off
NoMcp ==
  /\ mcpPhase = Off /\ outcome = Off /\ pending = Off /\ mcpWaiter = Off /\ writers = Off
  /\ mcpWritten = Off /\ toServer = Off /\ toClient = Off /\ reader = Off /\ running = Off
  /\ stopping = Off /\ alive = Off /\ stale = Off /\ cached = Off /\ seen = Off /\ newest = Off
  /\ version = Off /\ notes = Off /\ unsolicited = Off /\ closed = Off /\ readers = Off
  /\ executed = Off
NoFetch ==
  /\ fetchCall = Off /\ asked = Off /\ docs = Off /\ browsers = Off
NoSearch ==
  /\ req = Off /\ searchPhase = Off /\ chosen = Off /\ got = Off /\ results = Off
  /\ tried = Off /\ fetched = Off

-----------------------------------------------------------------------------
\* Two configuration files, two tools, hooks for one of them or for all.
HookFiles == <<"settings", "codex">>
AnyTool == [kind |-> "any", tools |-> {}]
OnlyBash == [kind |-> "exact", tools |-> {"Bash"}]
HookDef(t, m, hs) == [type |-> t, matcher |-> m, handlers |-> hs]
Readable(defs) == [state |-> "ok", defs |-> defs]
HookContents == {
  [state |-> "absent", defs |-> <<>>],
  [state |-> "broken", defs |-> <<>>],
  Readable(<<HookDef("pre_tool_use", OnlyBash, <<"shell", "exec">>), HookDef("post_tool_use", AnyTool, <<"shell", "exec">>)>>),
  Readable(<<HookDef("pre_tool_use", AnyTool, <<"exec">>), HookDef("session_start", AnyTool, <<"shell">>),
             HookDef("session_end", AnyTool, <<"shell">>)>>),
  Readable(<<HookDef("session_end", OnlyBash, <<"shell">>)>>)}
HookBoxes == [runner : {"isolating", "bare", "unconfined"}, enforcement : {"required", "disabled"}]

\* A root run and its descendants, two settings files and five calls.
SettingsLevels == <<"project", "user">>
RuleFor(t, p) == [tool |-> t, pattern |-> p]
SettingsFiles == {
  [allow |-> {}, deny |-> {}, mode |-> "unset"],
  [allow |-> {RuleFor("Bash", "make")}, deny |-> {RuleFor("Edit", "unset")}, mode |-> "unset"],
  [allow |-> {}, deny |-> {RuleFor("Bash", "unset")}, mode |-> "unset"],
  [allow |-> {}, deny |-> {}, mode |-> "acceptEdits"]}
ToolCall(t, txt, e, p, k) == [tool |-> t, text |-> txt, effect |-> e, path |-> p, blocked |-> FALSE, kind |-> k]
ToolCalls == {
  ToolCall("Bash", {"make"}, "unknown", "inside", "builtin"),
  ToolCall("Bash", {}, "read", "inside", "builtin"),
  ToolCall("Edit", {}, "mutate", "inside", "builtin"),
  ToolCall("Read", {}, "read", "outside", "builtin"),
  ToolCall("deploy", {}, "mutate", "inside", "plugin")}
PluginTool(p) == CASE p = "lint" -> "lint_tool" [] p = "deploy" -> "deploy_tool" [] p = "shadow" -> "Bash"

\* Policies for execution, and all of them for admission.
BoxPolicy(e, needed, a, n, l) == [enforcement |-> e, required |-> needed, access |-> a, network |-> n, limits |-> l]
FewPolicies ==
  {BoxPolicy("disabled", {}, "none", "unset", FALSE), BoxPolicy("required", {}, "rw", "unset", FALSE),
   BoxPolicy("required", {}, "none", "unset", TRUE)}
AllPolicies ==
  {BoxPolicy(e, needed, a, n, l) :
     e \in {"", "required", "preferred", "disabled"}, needed \in SUBSET {"fs", "net", "proc", "env"},
     a \in {"none", "ro", "rw"}, n \in {"unset", "allow", "deny"}, l \in BOOLEAN}

Location(u) == [kind |-> "location", uri |-> u]
LspBodies ==
  {[shape |-> "null", items |-> <<>>],
   [shape |-> "array", items |-> <<Location("u1"), Location("u2")>>],
   [shape |-> "object", items |-> <<Location("u1")>>],
   [shape |-> "object", items |-> <<[kind |-> "link", uri |-> "u1"]>>]}

\* A small web with frames, redirects and naver addresses.
Url(s, h, p) == [s |-> s, h |-> h, p |-> p]
A1 == Url("http", "a", "1")
A2 == Url("http", "a", "2")
B1 == Url("http", "b", "1")
N1 == Url("http", "blog.naver", "post")
M1 == Url("http", "m.naver", "post")
LocalFile == Url("file", "a", "1")
WebUrls == {A1, A2, B1, N1, M1, LocalFile}
WebCanon == [u \in WebUrls |-> IF u = N1 THEN M1 ELSE u]
Frame(u, m) == [u |-> u, main |-> m]
Document(short, script, fs) == [k |-> "page", short |-> short, script |-> script, frames |-> fs]
FetchError == [k |-> "error"]
WebAnswers ==
  {FetchError, Document(FALSE, FALSE, <<>>), Document(TRUE, FALSE, <<Frame(N1, FALSE), Frame(M1, FALSE)>>),
   Document(TRUE, FALSE, <<Frame(B1, TRUE), Frame(A1, FALSE), Frame(A2, FALSE)>>),
   Document(FALSE, FALSE, <<Frame(LocalFile, FALSE), Frame(A2, TRUE)>>)}
  \cup {[k |-> "redirect", to |-> u] : u \in {A1, B1, N1}}
WebTargets == {A1, N1, LocalFile}
TwoUrls == {A1, LocalFile}
ShortAnswers == {FetchError, Document(TRUE, TRUE, <<>>), Document(FALSE, FALSE, <<>>)}

\* Three pages written in two forms, providers with and without dates.
Hit(p, f, pub, upd, t) == [url |-> [page |-> p, form |-> f], pub |-> pub, upd |-> upd, text |-> t]
Query(names, sort, from, to, max, top) ==
  [names |-> names, sort |-> sort, from |-> from, to |-> to, max |-> max, top |-> top]
SearchRequests ==
  {Query(<<>>, "relevance", 0, 0, 3, 2), Query(<<"ddg", "duckduckgo", "bing">>, "latest", 10, 30, 2, 1),
   Query(<<"naver", "naver-web">>, "relevance", 0, 20, 3, 2), Query(<<"bogus">>, "relevance", 0, 0, 3, 1),
   Query(<<"google">>, "latest", 0, 0, 3, 2), Query(<<"yahoo", "ollama">>, "relevance", 0, 0, 2, 2)}
SearchConfigured == {"duckduckgo", "bing", "naver-web", "yahoo", "ollama"}
HitLists ==
  {<<>>, <<Hit(1, 1, 0, 0, 1), Hit(2, 0, 15, 0, 1)>>,
   <<Hit(1, 0, 5, 15, 2), Hit(1, 1, 15, 0, 1), Hit(3, 0, 35, 0, 1)>>,
   <<Hit(2, 1, 15, 35, 3), Hit(1, 0, 35, 5, 1), Hit(0, 0, 0, 0, 1)>>,
   <<Hit(3, 0, 0, 25, 1), Hit(2, 0, 0, 0, 2), Hit(1, 0, 0, 0, 2)>>}
SearchOffers ==
  [p \in {"duckduckgo", "google", "naver-web", "naver-blog", "bing", "yahoo", "ollama"} |-> HitLists]

Gates == INSTANCE ToolGates WITH
  Files <- HookFiles, Contents <- HookContents, Boxes <- HookBoxes, Tools <- {"Bash", "Read"},
  Modes <- {"read-only", "workspace", "full"}, MaxHookCount <- 6, MaxCalls <- 1, MaxEdits <- 1,
  Root <- "root", Runs <- {"root"}, Levels <- SettingsLevels, Settings <- SettingsFiles, Calls <-
  ToolCalls, Isolation <- BOOLEAN, PermissionMaxEdits <- 1, PermissionMaxCalls <- 2, Plugins <-
  {"lint", "deploy"}, Tool <- PluginTool, BuiltIns <- {"Bash"}, Batch <- <<"lint", "deploy">>,
  Versions <- {1, 2}, PluginMaxEdits <- 1, MaxClock <- 2, Lifetime <- 2
\* Three generations of runs; a plugin that takes the name of a built-in tool.
WideGates == INSTANCE ToolGates WITH
  Files <- HookFiles, Contents <- HookContents, Boxes <- HookBoxes, Tools <- {"Bash", "Read"},
  Modes <- {"read-only", "workspace", "full"}, MaxHookCount <- 6, MaxCalls <- 1, MaxEdits <- 1,
  Root <- "root", Runs <- {"root", "child", "grandchild"}, Levels <- SettingsLevels, Settings <-
  SettingsFiles, Calls <- ToolCalls, Isolation <- BOOLEAN, PermissionMaxEdits <- 0,
  PermissionMaxCalls <- 1, Plugins <- {"lint", "deploy", "shadow"}, Tool <- PluginTool, BuiltIns
  <- {"Bash"}, Batch <- <<"lint", "deploy">>, Versions <- {1, 2}, PluginMaxEdits <- 1, MaxClock <-
  0, Lifetime <- 2
Commands == INSTANCE Processes WITH
  Adapters <- {"bubblewrap", "seatbelt", "windows"}, Policies <- FewPolicies, Limit <- 1,
  MaxOutput <- 3, Descendants <- {"piped", "silent", "escaped", "daemon"}, ApiFaults <- TRUE, SupervisorAdapters <- {"bubblewrap",
  "seatbelt", "windows", "unavailable"}, Users <- {"a", "b"}, Kids <- {"k1", "k2"}, Reads <- TRUE,
  Escapes <- TRUE, SupervisorApiFaults <- TRUE, phase <- sandboxPhase, call <- supervisorCall
\* Every policy on every adapter.
Admission == INSTANCE Processes WITH
  Adapters <- {"bubblewrap", "bubblewrap_nonet", "seatbelt", "windows", "unavailable"}, Policies
  <- AllPolicies, Limit <- 1, MaxOutput <- 0, Descendants <- {}, ApiFaults <- FALSE, SupervisorAdapters
  <- {"bubblewrap", "seatbelt", "windows", "unavailable"}, Users <- {"a", "b"}, Kids <- {"k1"},
  Reads <- TRUE, Escapes <- TRUE, SupervisorApiFaults <- TRUE, phase <- sandboxPhase, call <-
  supervisorCall
Servers == INSTANCE ToolServers WITH
  Operations <- {"definition", "diagnostics"}, Bodies <- LspBodies, MaxResults <- 1, MaxFrames <-
  3, Callers <- {k1, k2}, MaxPending <- 2, MaxUnsolicited <- 2, MaxVersion <- 2, MaxNotes <- 1,
  Timeouts <- TRUE, Crashes <- TRUE, phase <- lspPhase, stopped <- lspStopped, waiter <-
  mcpWaiter, written <- mcpWritten
Web == INSTANCE WebTools WITH
  Calls <- {c1}, Urls <- WebUrls, Canon <- WebCanon, NaverHosts <- {"blog.naver", "m.naver"},
  Answers <- WebAnswers, Targets <- WebTargets, Providers <- {"direct"}, MaxFrameDepth <- 2,
  MaxFrameFetches <- 2, MaxRedirects <- 2, BrowserSlots <- 2, Offline <- FALSE, Pages <- {1, 2,
  3}, Requests <- SearchRequests, Configured <- SearchConfigured, Offers <- SearchOffers,
  Relevance <- <<50, 100, 100>>, Authority <- <<65, 65, 95>>, call <- fetchCall, phase <-
  searchPhase
\* Three calls that need one of two browsers.
Browsers == INSTANCE WebTools WITH
  Calls <- {c1, c2, c3}, Urls <- TwoUrls, Canon <- [u \in TwoUrls |-> u], NaverHosts <- {},
  Answers <- ShortAnswers, Targets <- TwoUrls, Providers <- {"auto", "browser"}, MaxFrameDepth <-
  2, MaxFrameFetches <- 3, MaxRedirects <- 2, BrowserSlots <- 2, Offline <- FALSE, Pages <- {1, 2,
  3}, Requests <- SearchRequests, Configured <- SearchConfigured, Offers <- SearchOffers,
  Relevance <- <<50, 100, 100>>, Authority <- <<65, 65, 95>>, call <- fetchCall, phase <-
  searchPhase

Symmetry == Permutations({k1, k2})

Parts ==
  {"hooks", "permissions", "children", "plugins", "catalog", "commands", "admission",
   "supervisor", "lsp", "mcp", "fetch", "browsers", "search"}

Init ==
  /\ part \in Parts
  /\ IF part = "hooks" THEN Gates!HookInit ELSE NoHooks
  /\ CASE part = "permissions" -> Gates!PermissionInit
       [] part = "children" -> WideGates!PermissionInit
       [] OTHER -> NoPermissions
  /\ CASE part = "plugins" -> Gates!PluginInit
       [] part = "catalog" -> WideGates!PluginInit
       [] OTHER -> NoPlugins
  /\ CASE part = "commands" -> Commands!SandboxInit
       [] part = "admission" -> Admission!SandboxInit
       [] OTHER -> NoSandbox
  /\ IF part = "supervisor" THEN Commands!SupervisorInit ELSE NoSupervisor
  /\ IF part = "lsp" THEN Servers!LspInit ELSE NoLsp
  /\ IF part = "mcp" THEN Servers!McpInit ELSE NoMcp
  /\ CASE part = "fetch" -> Web!FetchInit
       [] part = "browsers" -> Browsers!FetchInit
       [] OTHER -> NoFetch
  /\ IF part = "search" THEN Web!SearchInit ELSE NoSearch

Next ==
  /\ part' = part
  /\ IF part = "hooks" THEN Gates!HookNext ELSE UNCHANGED hookVars
  /\ CASE part = "permissions" -> Gates!PermissionNext
       [] part = "children" -> WideGates!PermissionNext
       [] OTHER -> UNCHANGED permissionVars
  /\ CASE part = "plugins" -> Gates!PluginNext
       [] part = "catalog" -> WideGates!PluginNext
       [] OTHER -> UNCHANGED pluginVars
  /\ CASE part = "commands" -> Commands!SandboxNext
       [] part = "admission" -> Admission!SandboxNext
       [] OTHER -> UNCHANGED sandboxVars
  /\ IF part = "supervisor" THEN Commands!SupervisorNext ELSE UNCHANGED supervisorVars
  /\ IF part = "lsp" THEN Servers!LspNext ELSE UNCHANGED lspVars
  /\ IF part = "mcp" THEN Servers!McpNext ELSE UNCHANGED mcpVars
  /\ CASE part = "fetch" -> Web!FetchNext
       [] part = "browsers" -> Browsers!FetchNext
       [] OTHER -> UNCHANGED fetchVars
  /\ IF part = "search" THEN Web!SearchNext ELSE UNCHANGED searchVars

Spec == Init /\ [][Next]_vars

-----------------------------------------------------------------------------
\* Nothing runs that was not let through: a tool passed its hooks and these
\* are confined, a read-only run has no effect, commands on the host were
\* consented to, settings are frozen for a run, a child never has more
\* authority than its parent, and a plugin runs the artifact that was
\* approved, once per approval, from a catalog that loads whole or not at all.
ToolsAdmitted ==
  /\ part = "hooks" =>
       /\ Gates!HookTypeOK /\ Gates!ToolPassedItsHooks /\ Gates!HookProcessesConfined
       /\ Gates!ObserversAllRun /\ Gates!CleanupRuns
  /\ part = "permissions" =>
       /\ Gates!PermissionTypeOK /\ Gates!ReadOnlyHasNoEffect /\ Gates!HostCommandsConsented
       /\ Gates!SettingsFrozenForRun
  /\ part = "children" => WideGates!AuthorityNeverGrows
  /\ part = "plugins" => Gates!PluginTypeOK /\ Gates!RunsWhatWasApproved /\ Gates!OneRunPerApproval
  /\ part = "catalog" => WideGates!CatalogAllOrNothing

\* A command that is reported finished left nothing running in a job or a
\* namespace, after a kill only what had left its process group, and after a
\* success nothing that holds its output; its success is complete output of
\* an orderly end, required isolation is never dropped,
\* and a supervised process that failed to start, was stopped or lost its
\* job leaves neither process nor temporary files in use.
ProcessesContained ==
  /\ part = "commands" =>
       /\ Commands!SandboxTypeOK /\ Commands!SuccessIsComplete /\ Commands!TreeGone /\ Commands!QuietIsOrderly
  /\ part = "admission" => Admission!IsolationHolds
  /\ part = "supervisor" =>
       /\ Commands!SupervisorTypeOK /\ Commands!FailedStartLeavesNothing /\ Commands!StopReportsTheEnd
       /\ Commands!TemporaryOutlivesHolders /\ Commands!JobEndsWithItsChild

\* A caller of a language or MCP server gets the answer to its own question
\* or none: not one of an earlier request, another document or a server that
\* is gone, the reader never blocks on a caller that left, and a change of
\* the tool list that was announced is not forgotten, unless an older refresh
\* ended after a newer one.  What the web tools return
\* belongs to what was asked: frames to their page, every address once, every
\* page once, dates in the window, the failure of a provider stays local, and
\* browsers never exceed their slots.
AnswersAreOwn ==
  /\ part = "lsp" =>
       /\ Servers!LspTypeOK /\ Servers!LocationsAnswerTheQuestion /\ Servers!DiagnosticsBelong
       /\ Servers!ServerDoesNotOutliveCall
  /\ part = "mcp" => Servers!McpTypeOK /\ Servers!ReaderNeverBlocks /\ Servers!AnswersOwn /\ Servers!ChangeOwed
  /\ part = "fetch" => Web!FetchTypeOK /\ Web!FramesBelongToThePage /\ Web!EachUrlOnce
  /\ part = "browsers" => Browsers!BrowsersBounded
  /\ part = "search" =>
       /\ Web!SearchTypeOK /\ Web!EachPageOnce /\ Web!DatesInWindow /\ Web!FailuresStayLocal /\ Web!EnoughPages

=============================================================================
