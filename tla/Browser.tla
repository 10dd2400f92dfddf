------------------------------- MODULE Browser -------------------------------
(***************************************************************************)
(* cmd/claw-browser/main.go: the tools that share one headless Chromium.   *)
(*                                                                         *)
(* Requests are served by one goroutine each.  browser.run holds           *)
(* browser.mu for as long as its chromedp actions take, without a time     *)
(* limit (its first parameter is ignored, main.go:93); checkSelector asks  *)
(* Chromium without the mutex.  chromedp and Chromium are outside src/ and *)
(* modelled from how they are used: a page is what its URL stands for, and *)
(* an action on a selector waits until an element it matches is visible.   *)
(* A script that does not end, or a dialog nobody closes, keeps the page   *)
(* from answering anything: it is stuck.                                   *)
(***************************************************************************)
EXTENDS Integers

CONSTANTS
    Handlers,    \* the requests served at one time
    Urls,        \* the pages there are
    Blank,       \* about:blank, which a new target shows
    Selectors,   \* the CSS selectors requests use
    Landing,     \* Urls -> Urls: where a navigation ends, after redirects
    Elements,    \* Urls -> SUBSET Selectors: what querySelector finds
    Visible,     \* Urls -> SUBSET Selectors: what is there and visible
    Bodiless,    \* the pages without a body: no HTML document
    Dynamic,     \* pages may go elsewhere, or get stuck, by themselves
    NoOne,       \* nobody holds the mutex
    NoSelector,  \* the request names no selector
    NoUrl        \* the request names no URL

ASSUME BrowserAssumption ==
    /\ Blank \in Urls
    /\ Landing \in [Urls -> Urls]
    /\ Elements \in [Urls -> SUBSET Selectors]
    /\ Visible \in [Urls -> SUBSET Selectors]
    /\ \A u \in Urls : Visible[u] \subseteq Elements[u]
    /\ Bodiless \subseteq Urls
    /\ Dynamic \in BOOLEAN
    /\ NoOne \notin Handlers
    /\ NoSelector \notin Selectors
    /\ NoUrl \notin Urls

VARIABLES
    mu,          \* the handler that holds browser.mu
    page,        \* the page the shared target shows
    stuck,       \* it answers nothing: a script does not end, a dialog is open
    pc,          \* where a handler is
    tool,        \* the tool it was called for
    sel,         \* p.Selector or p.WaitSelector
    url          \* p.URL of a navigation

vars == <<mu, page, stuck, pc, tool, sel, url>>

\* browser_evaluate, browser_content and browser_screenshot differ only in
\* what they read; a script that is evaluated may leave the page.
Tools == {"navigate", "click", "type", "screenshot", "evaluate", "content"}

\* The steps of a handler: "check" in checkSelector, "lock" waiting for the
\* mutex, "act" and "wait" inside chromedp.Run, "relock" and "locate" in the
\* second run of a navigation.
Labels == {"idle", "check", "lock", "act", "wait", "relock", "locate"}

TypeOK ==
    /\ mu \in Handlers \cup {NoOne}
    /\ page \in Urls
    /\ stuck \in BOOLEAN
    /\ pc \in [Handlers -> Labels]
    /\ tool \in [Handlers -> Tools]
    /\ sel \in [Handlers -> Selectors \cup {NoSelector}]
    /\ url \in [Handlers -> Urls \cup {NoUrl}]
    /\ \A h \in Handlers :
           /\ mu = h <=> pc[h] \in {"act", "wait", "locate"}
           /\ tool[h] = "navigate" <=> url[h] # NoUrl

Init ==
    /\ mu = NoOne
    /\ page = Blank
    /\ stuck = FALSE
    /\ pc = [h \in Handlers |-> "idle"]
    /\ tool = [h \in Handlers |-> "content"]
    /\ sel = [h \in Handlers |-> NoSelector]
    /\ url = [h \in Handlers |-> NoUrl]

-----------------------------------------------------------------------------
(* A request comes in. *)

Call(h, t, s, u, label) ==
    /\ pc[h] = "idle"
    /\ pc' = [pc EXCEPT ![h] = label]
    /\ tool' = [tool EXCEPT ![h] = t]
    /\ sel' = [sel EXCEPT ![h] = s]
    /\ url' = [url EXCEPT ![h] = u]
    /\ UNCHANGED <<mu, page, stuck>>

CallNavigate(h) ==
    \E u \in Urls, s \in Selectors \cup {NoSelector} :
        Call(h, "navigate", s, u, "lock")

\* The tools that look for their element first.
CallElement(h) ==
    \E t \in {"click", "type"}, s \in Selectors :
        Call(h, t, s, NoUrl, "check")

CallScreenshot(h) ==
    \E s \in Selectors \cup {NoSelector} :
        Call(h, "screenshot", s, NoUrl, "lock")

CallPage(h) ==
    \E t \in {"evaluate", "content"} :
        Call(h, t, NoSelector, NoUrl, "lock")

\* The handler answers and forgets its request.
Answer(h) ==
    /\ pc' = [pc EXCEPT ![h] = "idle"]
    /\ tool' = [tool EXCEPT ![h] = "content"]
    /\ sel' = [sel EXCEPT ![h] = NoSelector]
    /\ url' = [url EXCEPT ![h] = NoUrl]

-----------------------------------------------------------------------------
(* checkSelector *)

CheckFinds(h) ==
    /\ pc[h] = "check"
    /\ ~stuck
    /\ sel[h] \in Elements[page]
    /\ pc' = [pc EXCEPT ![h] = "lock"]
    /\ UNCHANGED <<mu, page, stuck, tool, sel, url>>

CheckFails(h) ==
    /\ pc[h] = "check"
    /\ ~stuck
    /\ sel[h] \notin Elements[page]
    /\ Answer(h)
    /\ UNCHANGED <<mu, page, stuck>>

-----------------------------------------------------------------------------
(* browser.run *)

\* A slip: run does not take the mutex it releases.
LockNothing(h) ==
    /\ pc[h] \in {"lock", "relock"}
    /\ mu' = h
    /\ pc' = [pc EXCEPT ![h] = IF @ = "lock" THEN "act" ELSE "locate"]
    /\ UNCHANGED <<page, stuck, tool, sel, url>>

Lock(h) ==
    /\ pc[h] \in {"lock", "relock"}
    /\ mu = NoOne
    /\ mu' = h
    /\ pc' = [pc EXCEPT ![h] = IF @ = "lock" THEN "act" ELSE "locate"]
    /\ UNCHANGED <<page, stuck, tool, sel, url>>

\* A slip: the mutex is kept.
KeepMutex(h) ==
    IF tool[h] = "navigate" /\ pc[h] # "locate"
    THEN pc' = [pc EXCEPT ![h] = "relock"] /\ UNCHANGED <<mu, tool, sel, url>>
    ELSE Answer(h) /\ UNCHANGED mu

\* The end of run: the deferred unlock; a navigation goes on to ask where it is.
EndRun(h) ==
    /\ mu' = NoOne
    /\ IF tool[h] = "navigate" /\ pc[h] # "locate"
       THEN pc' = [pc EXCEPT ![h] = "relock"] /\ UNCHANGED <<tool, sel, url>>
       ELSE Answer(h)

\* chromedp.Navigate, the first of the actions of a navigation, when the new
\* page has loaded; nothing says that it ever does.
Navigate(h) ==
    /\ pc[h] = "act" /\ tool[h] = "navigate"
    /\ page' = Landing[url[h]]
    /\ stuck' = FALSE
    /\ IF sel[h] = NoSelector
       THEN EndRun(h)
       ELSE pc' = [pc EXCEPT ![h] = "wait"] /\ UNCHANGED <<mu, tool, sel, url>>

\* A navigation that fails leaves Chromium's error page and no answer but the
\* error.
NavigateFails(h) ==
    /\ pc[h] = "act" /\ tool[h] = "navigate"
    /\ page' = Blank
    /\ stuck' = FALSE
    /\ mu' = NoOne
    /\ Answer(h)

\* chromedp.WaitVisible, its second.
WaitVisible(h) ==
    /\ pc[h] = "wait"
    /\ ~stuck
    /\ sel[h] \in Visible[page]
    /\ UNCHANGED <<page, stuck>>
    /\ EndRun(h)

\* chromedp.Click, SendKeys and Screenshot of an element that is visible; a
\* click or a key may lead to another page.
ActOnElement(h) ==
    /\ pc[h] = "act" /\ tool[h] \in {"click", "type", "screenshot"}
    /\ sel[h] # NoSelector
    /\ ~stuck
    /\ sel[h] \in Visible[page]
    /\ page' \in IF tool[h] = "screenshot" THEN {page} ELSE Urls
    /\ stuck' = stuck
    /\ EndRun(h)

\* The actions on the page as a whole, when they return: a picture, a script
\* that ends, and the inner HTML of the body, which is waited for.
ActOnPage(h) ==
    /\ pc[h] = "act"
    /\ tool[h] \in {"screenshot", "evaluate", "content"}
    /\ sel[h] = NoSelector
    /\ ~stuck
    /\ tool[h] = "content" => page \notin Bodiless
    /\ page' \in IF tool[h] = "evaluate" THEN Urls ELSE {page}
    /\ stuck' = stuck
    /\ EndRun(h)

\* The script that browser_evaluate runs does not end.
EvaluateHangs(h) ==
    /\ pc[h] = "act" /\ tool[h] = "evaluate"
    /\ ~stuck
    /\ stuck' = TRUE
    /\ UNCHANGED <<mu, page, pc, tool, sel, url>>

\* chromedp.Location: the page that the navigation will report.
Locate(h) ==
    /\ pc[h] = "locate"
    /\ ~stuck
    /\ UNCHANGED <<page, stuck>>
    /\ EndRun(h)

-----------------------------------------------------------------------------
\* What Chromium does for a handler as soon as its page answers.
Served(h) ==
    \/ CheckFinds(h) \/ CheckFails(h)
    \/ WaitVisible(h) \/ ActOnElement(h)
    \/ ActOnPage(h) \/ EvaluateHangs(h)
    \/ Locate(h)

HandlerStep(h) == Served(h) \/ Navigate(h) \/ NavigateFails(h)

\* A page that goes elsewhere by itself, gets stuck, or answers again.
PageMoves ==
    /\ Dynamic
    /\ ~stuck
    /\ page' \in Urls \ {page}
    /\ UNCHANGED <<mu, stuck, pc, tool, sel, url>>

PageHangs ==
    /\ Dynamic
    /\ ~stuck
    /\ stuck' = TRUE
    /\ UNCHANGED <<mu, page, pc, tool, sel, url>>

PageAnswers ==
    /\ stuck
    /\ stuck' = FALSE
    /\ UNCHANGED <<mu, page, pc, tool, sel, url>>

Next ==
    \/ \E h \in Handlers :
        \/ CallNavigate(h) \/ CallElement(h) \/ CallScreenshot(h) \/ CallPage(h)
        \/ Lock(h)
        \/ HandlerStep(h)
    \/ PageMoves \/ PageHangs \/ PageAnswers

Spec == Init /\ [][Next]_vars

\* A page that is not stuck does what it is asked, a script that is run ends or
\* makes it stuck; sync.Mutex hands itself over to the goroutine that has
\* waited longest (its starvation mode), so a waiter gets it if it is released
\* again and again.  Nothing makes a navigation end, an element appear, or a
\* stuck page answer: run sets no time limit (main.go:93-97).
FairSpec ==
    /\ Spec
    /\ \A h \in Handlers : WF_vars(Served(h)) /\ SF_vars(Lock(h))

-----------------------------------------------------------------------------
(* What a client may rely on *)

\* The handler is inside chromedp.Run and can not go on before an element it
\* looked for is visible.
WaitsForElement(h) ==
    /\ pc[h] \in {"act", "wait"}
    /\ pc[h] = "act" => tool[h] # "navigate"
    /\ sel[h] # NoSelector
    /\ sel[h] \notin Visible[page]

\* Or before the page it navigates to has loaded, or has a body.
WaitsForPage(h) ==
    /\ pc[h] = "act"
    /\ \/ tool[h] = "navigate"
       \/ tool[h] = "content" /\ page \in Bodiless

\* Between its lock and its unlock nobody but the handler moves the target: a
\* click can not land on a page another request navigates to meanwhile.  A
\* page that goes elsewhere by itself is nobody's step.
RunIsExclusive ==
    [][\A h \in Handlers :
          pc[h] \in {"act", "wait", "locate"} /\ page' # page /\ pc' # pc =>
              pc'[h] # pc[h]]_vars

\* Every request is answered, unless the page is stuck or the holder of the
\* mutex waits inside chromedp.Run for something of the page: its load, its
\* body, an element.  Nobody waits for a mutex that was not given back
\* (main.go:93-97, 147-150, 296, 313).
OnlyThePageHangs ==
    \A h \in Handlers :
        pc[h] # "idle" ~>
            \/ pc[h] = "idle"
            \/ stuck
            \/ \E g \in Handlers :
                   mu = g /\ (WaitsForElement(g) \/ WaitsForPage(g))
=============================================================================
