---------------------------- MODULE BrowserProofs ----------------------------
(* The types of Browser, with which goes whose the mutex is, and from them the *)
(* exclusion of browser.run, for any handlers, pages and selectors.            *)
EXTENDS Browser, TLAPS

Inside == {"act", "wait", "locate"}

LEMMA InitialTypes == ASSUME Init PROVE TypeOK
<1> USE BrowserAssumption DEF Init
<1>1. /\ mu \in Handlers \cup {NoOne} /\ page \in Urls
      /\ pc \in [Handlers -> Labels] /\ tool \in [Handlers -> Tools]
  BY DEF Labels, Tools
<1>2. sel \in [Handlers -> Selectors \cup {NoSelector}] /\ url \in [Handlers -> Urls \cup {NoUrl}]
  OBVIOUS
<1>3. \A h \in Handlers : mu # h /\ pc[h] = "idle" /\ tool[h] = "content" /\ url[h] = NoUrl
  OBVIOUS
<1> QED BY <1>1, <1>2, <1>3 DEF TypeOK

\* A request comes in at a label where the mutex is not held.
LEMMA CallTypes ==
    ASSUME TypeOK, NEW h \in Handlers, NEW t \in Tools, NEW s \in Selectors \cup {NoSelector},
           NEW u \in Urls \cup {NoUrl}, NEW label \in {"check", "lock"},
           t = "navigate" <=> u # NoUrl, Call(h, t, s, u, label)
    PROVE  TypeOK'
BY DEF TypeOK, Call, Labels

\* Answering is for a handler that does not hold the mutex any more.
LEMMA AnswerTypes ==
    ASSUME TypeOK, NEW h \in Handlers, Answer(h), page' \in Urls, stuck' \in BOOLEAN,
           mu' \in Handlers \cup {NoOne},
           mu' # h, \A g \in Handlers \ {h} : mu' = g <=> mu = g
    PROVE  TypeOK'
BY DEF TypeOK, Answer, Labels, Tools

\* Neither is a navigation that goes on to ask where it is.
LEMMA EndRunTypes ==
    ASSUME TypeOK, NEW h \in Handlers, pc[h] \in Inside, EndRun(h), page' \in Urls,
           stuck' \in BOOLEAN
    PROVE  TypeOK' /\ pc'[h] # pc[h]
<1>1. mu = h /\ mu' = NoOne /\ mu' # h
  BY BrowserAssumption DEF TypeOK, Inside, EndRun
<1>2. \A g \in Handlers \ {h} : mu' = g <=> mu = g
  BY <1>1, BrowserAssumption
<1>3. CASE Answer(h)
  BY <1>1, <1>2, <1>3, AnswerTypes DEF Answer, TypeOK, Inside
<1>4. CASE pc' = [pc EXCEPT ![h] = "relock"] /\ UNCHANGED <<tool, sel, url>>
  BY <1>1, <1>2, <1>4 DEF TypeOK, Labels, Inside
<1> QED BY <1>3, <1>4 DEF EndRun

LEMMA HandlerTypes ==
    ASSUME TypeOK, NEW h \in Handlers, HandlerStep(h)
    PROVE  TypeOK'
<1>0. /\ page \in Urls /\ stuck \in BOOLEAN /\ \A u \in Urls : Landing[u] \in Urls
      /\ pc[h] \in Inside <=> mu = h
      /\ \A g \in Handlers : mu = g <=> mu = g
  BY BrowserAssumption DEF TypeOK, Inside
<1>1. CASE CheckFinds(h)
  BY <1>1 DEF CheckFinds, TypeOK, Labels
<1>2. CASE CheckFails(h)
  BY <1>2, <1>0, AnswerTypes DEF CheckFails, Inside, TypeOK
<1>3. CASE Navigate(h)
  <2>1. page' \in Urls /\ stuck' \in BOOLEAN
    BY <1>3, BrowserAssumption DEF Navigate, TypeOK, Call
  <2>2. CASE EndRun(h)
    BY <1>3, <2>1, <2>2, EndRunTypes DEF Navigate, Inside
  <2>3. CASE pc' = [pc EXCEPT ![h] = "wait"] /\ UNCHANGED <<mu, tool, sel, url>>
    BY <1>3, <2>1, <2>3 DEF Navigate, TypeOK, Labels
  <2> QED BY <1>3, <2>2, <2>3 DEF Navigate
<1>4. CASE NavigateFails(h)
  <2>1. mu = h /\ mu' # h /\ \A g \in Handlers \ {h} : mu' = g <=> mu = g
    BY <1>4, <1>0, BrowserAssumption DEF NavigateFails, Inside
  <2> QED BY <1>4, <2>1, AnswerTypes, BrowserAssumption DEF NavigateFails
<1>5. CASE WaitVisible(h)
  BY <1>5, <1>0, EndRunTypes DEF WaitVisible, Inside
<1>6. CASE ActOnElement(h)
  BY <1>6, <1>0, EndRunTypes DEF ActOnElement, Inside
<1>7. CASE ActOnPage(h)
  BY <1>7, <1>0, EndRunTypes DEF ActOnPage, Inside
<1>8. CASE Locate(h)
  BY <1>8, <1>0, EndRunTypes DEF Locate, Inside
<1>9. CASE EvaluateHangs(h)
  BY <1>9 DEF EvaluateHangs, TypeOK
<1> QED BY <1>1, <1>2, <1>3, <1>4, <1>5, <1>6, <1>7, <1>8, <1>9
        DEF HandlerStep, Served

LEMMA StepTypes == ASSUME TypeOK, Next PROVE TypeOK'
<1>1. CASE PageMoves \/ PageHangs \/ PageAnswers
  BY <1>1 DEF PageMoves, PageHangs, PageAnswers, TypeOK
<1>2. ASSUME NEW h \in Handlers, CallNavigate(h) PROVE TypeOK'
  BY <1>2, CallTypes, BrowserAssumption DEF CallNavigate, Tools
<1>3. ASSUME NEW h \in Handlers, CallElement(h) PROVE TypeOK'
  BY <1>3, CallTypes DEF CallElement, Tools
<1>4. ASSUME NEW h \in Handlers, CallScreenshot(h) PROVE TypeOK'
  BY <1>4, CallTypes DEF CallScreenshot, Tools
<1>5. ASSUME NEW h \in Handlers, CallPage(h) PROVE TypeOK'
  BY <1>5, CallTypes DEF CallPage, Tools
<1>6. ASSUME NEW h \in Handlers, Lock(h) PROVE TypeOK'
  BY <1>6, BrowserAssumption DEF Lock, TypeOK, Labels
<1> QED BY <1>1, <1>2, <1>3, <1>4, <1>5, <1>6, HandlerTypes DEF Next

(* Every variable keeps its type, and the mutex is held by exactly the handler *)
(* that is inside browser.run (main.go:93-99).                                 *)
THEOREM TypeCorrect == Spec => []TypeOK
<1>1. Init => TypeOK
  BY InitialTypes
<1>2. TypeOK /\ [Next]_vars => TypeOK'
  BY StepTypes DEF TypeOK, vars
<1> QED BY <1>1, <1>2, PTL DEF Spec

-----------------------------------------------------------------------------
\* A step that moves the page is that of the holder of the mutex, who goes on.
LEMMA OnlyTheHolderMoves ==
    ASSUME TypeOK, NEW g \in Handlers, HandlerStep(g), page' # page
    PROVE  mu = g /\ pc'[g] # pc[g]
<1>1. pc[g] = "act" => mu = g
  BY DEF TypeOK
<1>2. page' \in Urls /\ stuck' \in BOOLEAN => (pc[g] \in Inside /\ EndRun(g) => pc'[g] # pc[g])
  BY EndRunTypes
<1>3. page' \in Urls /\ stuck' \in BOOLEAN
  BY HandlerTypes DEF TypeOK
<1>4. CASE Navigate(g)
  BY <1>1, <1>2, <1>3, <1>4 DEF Navigate, Inside, TypeOK
<1>5. CASE NavigateFails(g)
  BY <1>1, <1>5 DEF NavigateFails, Answer, TypeOK
<1>6. CASE ActOnElement(g)
  BY <1>1, <1>2, <1>3, <1>6 DEF ActOnElement, Inside
<1>7. CASE ActOnPage(g)
  BY <1>1, <1>2, <1>3, <1>7 DEF ActOnPage, Inside
<1> QED BY <1>4, <1>5, <1>6, <1>7
        DEF HandlerStep, Served, CheckFinds, CheckFails, WaitVisible,
            EvaluateHangs, Locate

(* While a handler is inside browser.run no step of another one moves the     *)
(* shared page (main.go:90-99): it is the page it was when the mutex was      *)
(* taken, unless it goes elsewhere by itself.                                 *)
THEOREM RunExcludes == Spec => RunIsExclusive
<1> DEFINE Exclusive == \A h \in Handlers :
              pc[h] \in Inside /\ page' # page /\ pc' # pc => pc'[h] # pc[h]
<1>1. TypeOK /\ [Next]_vars => [Exclusive]_vars
  <2> SUFFICES ASSUME TypeOK, [Next]_vars, NEW h \in Handlers,
                      pc[h] \in Inside, page' # page, pc' # pc
               PROVE  pc'[h] # pc[h]
    OBVIOUS
  <2>1. PICK g \in Handlers : HandlerStep(g)
    BY DEF Next, vars, CallNavigate, CallElement, CallScreenshot, CallPage, Call, Lock, PageMoves,
       PageHangs, PageAnswers
  <2>2. mu = g /\ pc'[g] # pc[g]
    BY <2>1, OnlyTheHolderMoves
  <2>3. mu = h
    BY DEF TypeOK, Inside
  <2> QED BY <2>2, <2>3
<1>2. Spec => [][Exclusive]_vars
  BY <1>1, TypeCorrect, PTL DEF Spec
<1> QED BY <1>2 DEF RunIsExclusive, Inside
=============================================================================
