------------------------------- MODULE WebTools -------------------------------
(***************************************************************************)
(* WebFetch (agent/tool_web.go, agent/tool_web_browser.go): a page is read *)
(* directly, with its frames when it has little text of its own, and       *)
(* rendered in a headless browser when that is not enough.  Calls run      *)
(* concurrently and share the two browser slots.  A call keeps the stack   *)
(* of the recursion of directWebFetchRecursive; the web answers every      *)
(* request in any way it likes.                                            *)
(***************************************************************************)
EXTENDS Naturals, Sequences, SequencesExt, FiniteSets, FiniteSetsExt

CONSTANTS
  Calls,            \* concurrent WebFetch calls
  Urls,             \* [s |-> scheme, h |-> host, p |-> path]
  Canon,            \* url -> url: mobile form of a naver post, else itself
  NaverHosts,
  Answers,          \* what the web may answer: error, redirect, page
  Targets,          \* urls a model asks for
  Providers,        \* provider argument: "auto", "direct" or "browser"
  MaxFrameDepth, MaxFrameFetches, MaxRedirects, BrowserSlots,
  Offline           \* OfflineMode()

VARIABLES
  call,             \* call -> [phase, url, provider, alive, stack, visited, script]
  asked,            \* call -> sequence of urls a recursion step requested
  docs,             \* call -> documents that were read, the page's own first
  browsers          \* calls that own a browser process and a profile

fetchVars == <<call, asked, docs, browsers>>

NoUrl == [s |-> "", h |-> "", p |-> ""]
Idle == [phase |-> "idle", url |-> NoUrl, provider |-> "auto", alive |-> TRUE,
         stack |-> <<>>, visited |-> {}, script |-> FALSE]
Phases == {"idle", "direct", "wait", "prepare", "launch", "render", "ok", "failed"}
Holding == {"prepare", "launch", "render"}      \* phases that hold a slot
Ended == {"ok", "failed"}

FetchInit ==
  /\ call = [c \in Calls |-> Idle]
  /\ asked = [c \in Calls |-> <<>>] /\ docs = [c \in Calls |-> <<>>]
  /\ browsers = {}

------------------------------------------------------------------------------
IsHttp(u) == u.s \in {"http", "https"}

(* canFetchFrame: same scheme and host, or two naver hosts.  Ports follow   *)
(* the scheme here, and no url carries credentials.                         *)
canFetchFrame(parent, child) ==
  /\ IsHttp(child) /\ parent.s = child.s
  /\ (parent.h = child.h \/ {parent.h, child.h} \subseteq NaverHosts)

(* extractFrameSources: frames by priority, then in page order, cut to the  *)
(* limit, and only then filtered by origin.                                 *)
Priority(f, base) == IF f.main THEN 2 ELSE IF canFetchFrame(base, f.u) THEN 1 ELSE 0
ByPriority(fs, base) ==
  LET At(n) == SelectSeq(fs, LAMBDA f : IsHttp(f.u) /\ Priority(f, base) = n)
  IN  At(2) \o At(1) \o At(0)
FirstN(s, n) == IF Len(s) <= n THEN s ELSE SubSeq(s, 1, n)
UrlsOf(fs) == [i \in DOMAIN fs |-> fs[i].u]

extractFrameSources(fs, base) ==
  UrlsOf(SelectSeq(FirstN(ByPriority(fs, base), MaxFrameFetches),
                   LAMBDA f : canFetchFrame(base, f.u)))

(* shouldFetchFrames: shallow enough, a frame, and little text or a main one.*)
shouldFetchFrames(a, depth) ==
  /\ depth < MaxFrameDepth /\ a.frames # <<>>
  /\ (a.short \/ \E i \in DOMAIN a.frames : a.frames[i].main)

------------------------------------------------------------------------------
Entry(u, depth, parent) ==
  [url |-> u, depth |-> depth, parent |-> parent, at |-> "new", hops |-> 0, queue |-> <<>>]
Top(c) == Last(call[c].stack)
SetTop(c, e) == [call[c].stack EXCEPT ![Len(call[c].stack)] = e]

(* fetchWeb: the provider decides; auto and browser refuse a url that a     *)
(* browser could not open.                                                  *)
Start(c, u, p) ==
  /\ call[c].phase = "idle"
  /\ call' = [call EXCEPT ![c] =
       [Idle EXCEPT !.url = u, !.provider = p,
          !.phase = IF p # "direct" /\ ~IsHttp(u) THEN "failed"
                    ELSE IF p = "browser" THEN (IF Offline THEN "failed" ELSE "wait")
                    ELSE "direct",
          !.stack = IF p = "browser" \/ (p = "auto" /\ ~IsHttp(u)) THEN <<>> ELSE <<Entry(u, 0, NoUrl)>>]]
  /\ UNCHANGED <<asked, docs, browsers>>

(* What a finished direct fetch leads to: autoWebFetch renders the page     *)
(* when it failed or when scripts hold its text.                            *)
AfterDirect(c, ok, script) ==
  IF call[c].provider = "direct" THEN (IF ok THEN "ok" ELSE "failed")
  ELSE IF ok /\ ~script THEN "ok"
  ELSE IF ~call[c].alive \/ Offline THEN "failed" ELSE "wait"

(* A recursion step returns: its caller goes on with the next frame, and    *)
(* the error of a frame is ignored.                                         *)
Return(c, ok) ==
  call' = [call EXCEPT ![c] =
    [@ EXCEPT !.stack = Front(@),
              !.phase = IF Len(call[c].stack) > 1 THEN @ ELSE AfterDirect(c, ok, call[c].script)]]

Enter(c) ==
  LET u == Canon[Top(c).url] IN
  /\ call[c].phase = "direct" /\ Top(c).at = "new"
  /\ IF ~IsHttp(u) \/ u \in call[c].visited
     THEN Return(c, FALSE) /\ UNCHANGED asked
     ELSE /\ call' = [call EXCEPT ![c].visited = @ \cup {u},
                                  ![c].stack = SetTop(c, [Top(c) EXCEPT !.url = u, !.at = "sent"])]
          /\ asked' = [asked EXCEPT ![c] = Append(@, u)]
  /\ UNCHANGED <<docs, browsers>>

CheckRedirect(e, to) ==
  /\ e.hops < MaxRedirects
  /\ (e.parent = NoUrl \/ canFetchFrame(e.parent, to))

(* The answer to the request of a recursion step; a call whose context is   *)
(* done gets none.                                                          *)
Respond(c, a) ==
  /\ call[c].phase = "direct" /\ Top(c).at = "sent"
  /\ (a.k # "error" => call[c].alive)
  /\ CASE a.k = "error" -> Return(c, FALSE) /\ UNCHANGED docs
       [] a.k = "redirect" ->
            /\ UNCHANGED docs
            /\ IF CheckRedirect(Top(c), a.to)
               THEN call' = [call EXCEPT ![c].stack =
                              SetTop(c, [Top(c) EXCEPT !.url = a.to, !.hops = @ + 1])]
               ELSE Return(c, FALSE)
       [] a.k = "page" ->
            /\ docs' = [docs EXCEPT ![c] = Append(@, Top(c).url)]
            /\ call' = [call EXCEPT
                 ![c].script = IF Len(call[c].stack) = 1 THEN a.short /\ a.script ELSE @,
                 ![c].stack = SetTop(c, [Top(c) EXCEPT !.at = "read",
                     !.queue = IF shouldFetchFrames(a, Top(c).depth)
                               THEN extractFrameSources(a.frames, Top(c).url) ELSE <<>>])]
  /\ UNCHANGED <<asked, browsers>>

NextFrame(c) ==
  /\ call[c].phase = "direct" /\ Top(c).at = "read" /\ Top(c).queue # <<>>
  /\ call' = [call EXCEPT ![c].stack =
       Append(SetTop(c, [Top(c) EXCEPT !.queue = Tail(@)]),
              Entry(Head(Top(c).queue), Top(c).depth + 1, Top(c).url))]
  /\ UNCHANGED <<asked, docs, browsers>>

FinishPage(c) ==
  /\ call[c].phase = "direct" /\ Top(c).at = "read" /\ Top(c).queue = <<>>
  /\ Return(c, TRUE)
  /\ UNCHANGED <<asked, docs, browsers>>

------------------------------------------------------------------------------
(* browserWebFetch: a slot, or the end of the context, whichever the select *)
(* takes; every way out gives the slot back.                                *)
Held == Cardinality({c \in Calls : call[c].phase \in Holding})

AcquireSlot(c) ==
  /\ call[c].phase = "wait" /\ Held < BrowserSlots
  /\ call' = [call EXCEPT ![c].phase = "prepare"]
  /\ UNCHANGED <<asked, docs, browsers>>

GiveUpSlot(c) ==
  /\ call[c].phase = "wait" /\ ~call[c].alive
  /\ call' = [call EXCEPT ![c].phase = "failed"]
  /\ UNCHANGED <<asked, docs, browsers>>

Prepare(c, ok) ==
  /\ call[c].phase = "prepare" /\ (ok => call[c].alive)
  /\ call' = [call EXCEPT ![c].phase = IF ok THEN "launch" ELSE "failed"]
  /\ UNCHANGED <<asked, docs, browsers>>

(* The profile and the process; a launch that fails kills what it started   *)
(* and removes the profile.                                                 *)
Launch(c, ok) ==
  /\ call[c].phase = "launch" /\ (ok => call[c].alive)
  /\ call' = [call EXCEPT ![c].phase = IF ok THEN "render" ELSE "failed"]
  /\ browsers' = IF ok THEN browsers \cup {c} ELSE browsers
  /\ UNCHANGED <<asked, docs>>

Render(c, ok) ==
  /\ call[c].phase = "render" /\ (ok => call[c].alive)
  /\ call' = [call EXCEPT ![c].phase = IF ok THEN "ok" ELSE "failed"]
  /\ browsers' = browsers \ {c}
  /\ UNCHANGED <<asked, docs>>

(* The deadline of executeWebFetchWithContext, or the end of the run.       *)
Expire(c) ==
  /\ call[c].alive /\ call[c].phase \notin Ended \cup {"idle"}
  /\ call' = [call EXCEPT ![c].alive = FALSE]
  /\ UNCHANGED <<asked, docs, browsers>>

FetchNext ==
  \E c \in Calls :
    \/ \E u \in Targets, p \in Providers : Start(c, u, p)
    \/ Enter(c) \/ NextFrame(c) \/ FinishPage(c)
    \/ \E a \in Answers : Respond(c, a)
    \/ AcquireSlot(c) \/ GiveUpSlot(c)
    \/ \E ok \in BOOLEAN : Prepare(c, ok) \/ Launch(c, ok) \/ Render(c, ok)
    \/ Expire(c)

FetchSpec == FetchInit /\ [][FetchNext]_fetchVars

------------------------------------------------------------------------------
(* The type of the state: a call that left the direct fetch keeps no stack. *)
FetchTypeOK ==
  \A c \in Calls :
    /\ call[c].phase \in Phases /\ call[c].visited \subseteq Urls
    /\ (call[c].stack = <<>> <=> call[c].phase # "direct")
    /\ \A i \in DOMAIN call[c].stack : call[c].stack[i].depth = i - 1

Related(a, b) == (a.s = b.s /\ a.h = b.h) \/ {a.h, b.h} \subseteq NaverHosts

(* Whatever chain of frames, frame redirects and rewritten naver addresses  *)
(* was followed, each document whose text enters the result comes from the  *)
(* site of the page itself (the document at the end of the page's own       *)
(* redirects).                                                              *)
FramesBelongToThePage == \A c \in Calls : \A i \in DOMAIN docs[c] : Related(docs[c][1], docs[c][i])

(* No recursion step of a call requests a url that an earlier step of it    *)
(* requested: the desktop and the mobile address of one post count once.    *)
EachUrlOnce == \A c \in Calls : \A i, j \in DOMAIN asked[c] : asked[c][i] = asked[c][j] => i = j

(* A browser process and its profile exist only while their call holds a    *)
(* slot: at most two pages run at once, and none outlives its call.         *)
BrowsersBounded ==
  /\ browsers \subseteq {c \in Calls : call[c].phase = "render"}
  /\ Cardinality({c \in Calls : call[c].phase \in Holding}) <= BrowserSlots

------------------------------------------------------------------------------

(***************************************************************************)
(* WebSearch and WebResearch (agent/tool_web_search.go, tool_web.go): the  *)
(* providers are asked concurrently, their results fused into one ranked   *)
(* list, and WebResearch then reads the first pages of it.                 *)
(* A result is [url, pub, upd, text]: url names a page and the form it was *)
(* written in (tracking parameters, fragment, slash), dates are numbers    *)
(* with 0 for none, text is the length of the snippet.                     *)
(***************************************************************************)
CONSTANTS
  Pages,            \* pages of the web, ordered numbers (the order of urls)
  Requests,         \* [names, sort, from, to, max, top] of the calls modelled
  Configured,       \* providers whose keys are set
  Offers,           \* provider -> what its service may answer: sequences of results
  Relevance,        \* page -> percent of the query words it holds
  Authority         \* page -> authority of its host, percent

Registry == <<"duckduckgo", "google", "naver-web", "naver-blog", "bing", "yahoo", "ollama">>

VARIABLES
  req,              \* the arguments of the call
  phase,            \* select | search | fetch | done | error
  chosen,           \* providers that are asked, in order
  got,              \* provider -> "running", "failed" or what it returned
  results,          \* the fused list
  tried, fetched    \* research: results tried, and those whose page was read

searchVars == <<req, phase, chosen, got, results, tried, fetched>>

Running == [state |-> "running", items |-> <<>>]
Failed == [state |-> "failed", items |-> <<>>]
Returned(items) == [state |-> "ok", items |-> items]

SearchInit ==
  /\ req \in Requests /\ phase = "select" /\ chosen = <<>>
  /\ got = [p \in Range(Registry) |-> Running]
  /\ results = <<>> /\ tried = {} /\ fetched = {}

------------------------------------------------------------------------------
SearchFirstN(s, n) == IF Len(s) <= n THEN s ELSE SubSeq(s, 1, n)
KeepFirst(s, Same(_, _)) ==
  LET idx == {i \in DOMAIN s : \A j \in 1..(i - 1) : ~Same(s[i], s[j])}
  IN  [i \in 1..Cardinality(idx) |-> s[CHOOSE k \in idx : Cardinality({m \in idx : m < k}) = i - 1]]

(* selectSearchProviders: the names asked for, or DuckDuckGo and whatever   *)
(* is configured; naver stands for two providers and only notes what is not *)
(* configured, any other unknown or unconfigured name is an error.          *)
defaultSearchProviderNames ==
  <<"duckduckgo">> \o SelectSeq(<<"google", "naver-web", "naver-blog", "bing">>, LAMBDA p : p \in Configured)
normalizeSearchProviderName(n) == IF n = "ddg" THEN "duckduckgo" ELSE n
Names == IF req.names = <<>> THEN defaultSearchProviderNames ELSE req.names
Expanded ==
  FlattenSeq([i \in DOMAIN Names |->
    LET n == normalizeSearchProviderName(Names[i]) IN
    IF n = "naver" THEN SelectSeq(<<"naver-web", "naver-blog">>, LAMBDA p : p \in Configured) ELSE <<n>>])

dedupeSearchProviders(s) == KeepFirst(s, LAMBDA a, b : a = b)

selectSearchProviders ==
  /\ phase = "select"
  /\ IF Expanded # <<>> /\ Range(Expanded) \subseteq Configured
     THEN chosen' = dedupeSearchProviders(Expanded) /\ phase' = "search"
     ELSE chosen' = <<>> /\ phase' = "error"
  /\ UNCHANGED <<req, got, results, tried, fetched>>

(* What each provider makes of the answer of its service.                   *)
NoDates(r) == [r EXCEPT !.pub = 0, !.upd = 0]
Plain(s) == [i \in DOMAIN s |-> NoDates(s[i])]
HasUrl(r) == r.url.page # 0
RawText == [url |-> [page |-> 0, form |-> 0], pub |-> 0, upd |-> 0, text |-> 9]

Extracted(s) == SearchFirstN(KeepFirst(SelectSeq(Plain(s), HasUrl), LAMBDA a, b : a.url = b.url), req.max)

duckDuckGoSearch(s) == IF Extracted(s) = <<>> THEN <<RawText>> ELSE Extracted(s)
googleSearch(s) == s
naverSearch(s) == [i \in DOMAIN s |-> [s[i] EXCEPT !.upd = 0]]
bingSearch(s) == s
yahooSearch(s) == Extracted(s)
ollamaWebSearch(s) == SelectSeq(Plain(s), HasUrl)

Search(p, s) ==
  CASE p = "duckduckgo" -> duckDuckGoSearch(s)
    [] p = "google" -> googleSearch(s)
    [] p \in {"naver-web", "naver-blog"} -> naverSearch(s)
    [] p = "bing" -> bingSearch(s)
    [] p = "yahoo" -> yahooSearch(s)
    [] p = "ollama" -> ollamaWebSearch(s)

(* A provider's goroutine ends: with results, or with an error, an HTTP     *)
(* status or its own eight second timeout.                                  *)
Answer(p, s) ==
  /\ phase = "search" /\ p \in Range(chosen) /\ got[p] = Running
  /\ got' = [got EXCEPT ![p] = Returned(Search(p, s))]
  /\ UNCHANGED <<req, phase, chosen, results, tried, fetched>>

Fail(p) ==
  /\ phase = "search" /\ p \in Range(chosen) /\ got[p] = Running
  /\ got' = [got EXCEPT ![p] = Failed]
  /\ UNCHANGED <<req, phase, chosen, results, tried, fetched>>

------------------------------------------------------------------------------
(* fuseSearchResults.                                                       *)
wantsLatest == req.sort = "latest" \/ req.from # 0 \/ req.to # 0
bestResultTime(r) == IF r.upd # 0 THEN r.upd ELSE r.pub

resultWithinDateWindow(r) ==
  LET t == bestResultTime(r) IN
  t = 0 \/ ((req.from = 0 \/ t >= req.from) /\ (req.to = 0 \/ t <= req.to))

(* orderedSearchProviderNames: the fixed order of the providers, not the    *)
(* order in which they answered.                                            *)
Kept ==
  FlattenSeq([i \in DOMAIN Registry |->
    IF Registry[i] \in Range(chosen)
    THEN SelectSeq([j \in DOMAIN got[Registry[i]].items |->
                      [r |-> got[Registry[i]].items[j], from |-> Registry[i]]],
                   LAMBDA x : HasUrl(x.r) /\ resultWithinDateWindow(x.r))
    ELSE <<>>])

canonicalSearchURL(url) == <<url.page, 0>>
FirstDate(s, f) ==
  LET known == {i \in DOMAIN s : (IF f = "pub" THEN s[i].r.pub ELSE s[i].r.upd) # 0}
  IN  IF known = {} THEN 0 ELSE IF f = "pub" THEN s[Min(known)].r.pub ELSE s[Min(known)].r.upd
Merged(key) ==
  LET same == SelectSeq(Kept, LAMBDA x : canonicalSearchURL(x.r.url) = key) IN
  [url |-> same[1].r.url, providers |-> {x.from : x \in Range(same)},
   text |-> Max({x.r.text : x \in Range(same)}),
   pub |-> FirstDate(same, "pub"), upd |-> FirstDate(same, "upd")]
Fused == {Merged(canonicalSearchURL(x.r.url)) : x \in Range(Kept)}

(* freshnessScore (dates count days, SearchedAt is day 40) and              *)
(* combinedSearchScore, in hundredths of a percent.                         *)
Age(t) == IF t >= 40 THEN 0 ELSE 40 - t
freshnessScore(r) ==
  LET t == bestResultTime(r) IN
  IF t = 0 THEN (IF wantsLatest THEN 10 ELSE 40)
  ELSE CASE Age(t) <= 1 -> 100 [] Age(t) > 1 /\ Age(t) <= 7 -> 90
         [] Age(t) > 7 /\ Age(t) <= 31 -> 75 [] OTHER -> 55
combinedSearchScore(r) ==
  LET n == Cardinality(r.providers)
      raw == 45 * Relevance[r.url.page] + (IF wantsLatest THEN 35 ELSE 20) * freshnessScore(r)
             + 25 * Authority[r.url.page] + 10 * (IF n >= 3 THEN 100 ELSE 33 * n)
      late == IF wantsLatest /\ bestResultTime(r) = 0 THEN 1500 ELSE 0
  IN  IF raw <= late THEN 0 ELSE IF raw - late > 10000 THEN 10000 ELSE raw - late

Before(a, b) ==
  LET ta == bestResultTime(a)
      tb == bestResultTime(b)
  IN  IF wantsLatest /\ ta # tb THEN ta > tb
      ELSE IF combinedSearchScore(a) # combinedSearchScore(b)
           THEN combinedSearchScore(a) > combinedSearchScore(b)
           ELSE \/ a.url.page < b.url.page
                \/ a.url.page = b.url.page /\ a.url.form < b.url.form
Ranked(S) == [i \in 1..Cardinality(S) |-> CHOOSE r \in S : Cardinality({x \in S : Before(x, r)}) = i - 1]

(* After wg.Wait: an empty list is an error, otherwise the list is cut; a   *)
(* WebSearch call ends here, a WebResearch call goes on.                    *)
AllDone == \A p \in Range(chosen) : got[p] # Running

Fuse ==
  /\ phase = "search" /\ AllDone
  /\ results' = SearchFirstN(Ranked(Fused), req.max)
  /\ phase' = IF Fused = {} THEN "error" ELSE "fetch"
  /\ UNCHANGED <<req, chosen, got, tried, fetched>>

MoreToFetch == Cardinality(tried) < Len(results) /\ Cardinality(fetched) < req.top

Fetch(ok) ==
  LET i == Cardinality(tried) + 1 IN
  /\ phase = "fetch" /\ MoreToFetch
  /\ tried' = tried \cup {i}
  /\ fetched' = IF ok THEN fetched \cup {i} ELSE fetched
  /\ UNCHANGED <<req, phase, chosen, got, results>>

Finish ==
  /\ phase = "fetch" /\ ~MoreToFetch
  /\ phase' = "done"
  /\ UNCHANGED <<req, chosen, got, results, tried, fetched>>

SearchNext ==
  \/ selectSearchProviders
  \/ \E p \in Range(chosen) : Fail(p) \/ \E s \in Offers[p] : Answer(p, s)
  \/ Fuse
  \/ \E ok \in BOOLEAN : Fetch(ok)
  \/ Finish

SearchSpec == SearchInit /\ [][SearchNext]_searchVars

------------------------------------------------------------------------------
(* The type of the state: a provider is asked at most once, aliases and     *)
(* overlapping names included.                                              *)
SearchTypeOK ==
  /\ phase \in {"select", "search", "fetch", "done", "error"}
  /\ \A i, j \in DOMAIN chosen : chosen[i] = chosen[j] => i = j
  /\ Len(results) <= req.max /\ tried \subseteq DOMAIN results /\ fetched \subseteq tried

(* A page is listed once, whichever providers found it and in whatever form *)
(* they wrote its address.                                                  *)
EachPageOnce == \A i, j \in DOMAIN results : results[i].url.page = results[j].url.page => i = j

(* The date shown for a listed result lies in the window asked for: merging *)
(* the dates of several providers after each was filtered brings none back. *)
DatesInWindow ==
  \A i \in DOMAIN results :
    LET t == IF results[i].upd # 0 THEN results[i].upd ELSE results[i].pub IN
    t # 0 => (req.from # 0 => t >= req.from) /\ (req.to # 0 => t <= req.to)

(* The providers that failed do not hide what the others found: the search  *)
(* is an error only if no provider returned an acceptable result.           *)
FailuresStayLocal ==
  (phase = "error" /\ chosen # <<>>) =>
    \A p \in Range(chosen) : \A r \in Range(got[p].items) :
      HasUrl(r) => LET t == IF r.upd # 0 THEN r.upd ELSE r.pub IN
                   t # 0 /\ ((req.from # 0 /\ t < req.from) \/ (req.to # 0 /\ t > req.to))

(* WebResearch reads as many pages as it was asked for unless it has tried  *)
(* every result, and never more.                                            *)
EnoughPages ==
  phase = "done" =>
    /\ Cardinality(fetched) <= req.top
    /\ (Cardinality(fetched) < req.top => tried = DOMAIN results)

=============================================================================
