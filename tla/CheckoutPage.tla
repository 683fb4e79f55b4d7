---------------------------- MODULE CheckoutPage ----------------------------
(***************************************************************************)
(* One visit of the checkout page (web/src/App.tsx, CheckoutPage) and the  *)
(* captcha store behind it (srv/src/captcha.rs).  The page's requests      *)
(* (pictures, the order, the polls of the QR code) are answered in any     *)
(* order or not at all, while the customer types, asks for another picture,*)
(* submits, edits the form behind the QR code, or leaves.                  *)
(*                                                                         *)
(* A challenge stands for its picture and for the answer to it.  Request   *)
(* numbers and closures are modelled by what the code asks of them: whether*)
(* a request is the latest of its kind, whether its effect still runs.     *)
(* There is a payment method and stock, and the other fields are valid.    *)
(*                                                                         *)
(* What a handler sets shows when React renders.  That is a step of its own*)
(* where an order has arrived, as the effect of the code shown before still*)
(* runs till then; elsewhere it is part of the step.                       *)
(***************************************************************************)
EXTENDS Naturals, FiniteSets

CONSTANTS Challenge,  \* challenge ids; one that is not referred to is used again
          Order,      \* order ids, likewise
          MaxFetches, \* bound: requests for a picture under way
          MaxPolls,   \* bound: polls under way
          Wrong,      \* an answer that fits no picture
          None

ASSUME PageAssumption ==
    /\ {Wrong, None} \cap (Challenge \cup Order) = {}
    /\ Wrong # None
    /\ MaxFetches \in Nat /\ MaxPolls \in Nat

VARIABLES
    where,      \* the page the customer is on, and the order it is about
    fetches,    \* refreshCaptcha: requests under way
    challenge, loading, answer,  \* captchaChallenge, captchaLoading, captchaAnswer
    post,       \* createOrder: the request under way; submitting = (post # NoPost)
    live,       \* CaptchaService.challenges
    passes,     \* history: how often an issued challenge has passed verify_once
    tried,      \* history: the issued challenges this page has submitted
    qr,         \* qrOrder
    past,       \* its payment deadline has passed
    polling,    \* the effect's two timers run
    polls,      \* queryOrder: polls under way
    last        \* history: the order whose creation was answered last

captcha == <<fetches, challenge, loading, answer>>
server == <<live, passes, tried>>
code == <<qr, past, polling, polls>>
vars == <<where, captcha, post, server, code, last>>

-----------------------------------------------------------------------------
NoPost == [at |-> "none", challenge |-> None, answer |-> None, order |-> None]

\* A picture that was asked for is issued, with a challenge, or not yet.
NewFetch == [challenge |-> None, latest |-> TRUE]

Form == [at |-> "form", order |-> None]
OnForm == where = Form

\* Ids are fresh (Uuid::new_v4): one nobody refers to any more stands for a new
\* one.
Unused(c) ==
    /\ c \notin {challenge, answer, post.challenge}
    /\ \A f \in fetches : f.challenge # c

Unknown(o) ==
    /\ o \notin {qr, last, post.order, where.order}
    /\ \A p \in polls : p.order # o

\* The cleanup of an effect: what it has asked for is of no interest any more.
StaleFetches == {[challenge |-> f.challenge, latest |-> FALSE] : f \in fetches}
StalePolls == {[order |-> p.order, fresh |-> FALSE] : p \in polls}

\* refreshCaptcha begins.
RefreshCaptcha ==
    /\ Cardinality(fetches) < MaxFetches
    /\ fetches' = StaleFetches \cup {NewFetch}
    /\ loading' = TRUE
    /\ answer' = None
    /\ UNCHANGED challenge

\* The component goes with its state and its effects, whose late answers set
\* nothing any more.
Unmount(page) ==
    /\ where' = page
    /\ fetches' = {}
    /\ challenge' = None /\ loading' = FALSE /\ answer' = None
    /\ qr' = None /\ past' = FALSE /\ polling' = FALSE
    /\ polls' = {}

\* The effect of the QR code begins (again).
StartPolling(over) ==
    /\ polling' = ~over
    /\ polls' = StalePolls

-----------------------------------------------------------------------------
Init ==
    /\ where = Form
    /\ fetches = {NewFetch}
    /\ challenge = None /\ loading = TRUE /\ answer = None
    /\ post = NoPost
    /\ live = {} /\ passes = [c \in Challenge |-> 0] /\ tried = {}
    /\ qr = None /\ past = FALSE /\ polling = FALSE /\ polls = {}
    /\ last = None

(* The captcha store                                                       *)

\* issue
Issue(f, c) ==
    /\ f.challenge = None
    /\ Unused(c)
    /\ live' = live \cup {c}
    /\ passes' = [passes EXCEPT ![c] = 0]
    /\ tried' = tried \ {c}
    /\ fetches' = (fetches \ {f}) \cup {[challenge |-> c, latest |-> f.latest]}
    /\ UNCHANGED <<where, challenge, loading, answer, post, code, last>>

\* Mutant: verify_once looks the challenge up and leaves it there.
TakenNever(c) == live

\* verify_once takes the challenge out, whatever the answer.
Taken(c) == live \ {c}

VerifyAccepts ==
    /\ post.at = "sent"
    /\ post.challenge \in live /\ post.answer = post.challenge
    /\ live' = Taken(post.challenge)
    /\ passes' = [passes EXCEPT ![post.challenge] = @ + 1]
    /\ post' = [NoPost EXCEPT !.at = "passed"]
    /\ UNCHANGED <<where, captcha, tried, code, last>>

VerifyRefuses ==
    /\ post.at = "sent"
    /\ post.challenge \notin live \/ post.answer # post.challenge
    /\ live' = Taken(post.challenge)
    /\ post' = [NoPost EXCEPT !.at = "error"]
    /\ UNCHANGED <<where, captcha, passes, tried, code, last>>

\* Somebody else submits the same challenge with its answer: a second tab, a
\* repeated request.
Repeat(c) ==
    /\ c \in live
    /\ passes[c] < 2
    /\ live' = Taken(c)
    /\ passes' = [passes EXCEPT ![c] = @ + 1]
    /\ UNCHANGED <<where, captcha, post, tried, code, last>>

\* Five minutes, 10,000 challenges or a restart end it.
Forget(c) ==
    /\ c \in live
    /\ live' = live \ {c}
    /\ UNCHANGED <<where, captcha, post, passes, tried, code, last>>

(* The picture on the page                                                 *)

\* Mutant: an answer is taken whichever request it belongs to.
CurrentAlways(f) == TRUE

\* requestId === captchaRequestId.current
Current(f) == f.latest

FetchReturns(f) ==
    /\ f.challenge # None
    /\ IF Current(f)
       THEN challenge' = f.challenge /\ loading' = FALSE
       ELSE UNCHANGED <<challenge, loading>>
    /\ fetches' = fetches \ {f}
    /\ UNCHANGED <<where, answer, post, server, code, last>>

FetchFails(f) ==
    /\ IF Current(f)
       THEN challenge' = None /\ loading' = FALSE
       ELSE UNCHANGED <<challenge, loading>>
    /\ fetches' = fetches \ {f}
    /\ UNCHANGED <<where, answer, post, server, code, last>>

ClickRefresh ==
    /\ OnForm /\ ~loading
    /\ RefreshCaptcha
    /\ UNCHANGED <<where, post, server, code, last>>

\* The customer copies the picture, which is shown unless one is loading.
TypeAnswer ==
    /\ OnForm /\ challenge # None /\ ~loading
    /\ answer' = challenge
    /\ UNCHANGED <<where, fetches, challenge, loading, post, server, code, last>>

\* Or types something else, at any time.
Mistype ==
    /\ OnForm
    /\ answer' = Wrong
    /\ UNCHANGED <<where, fetches, challenge, loading, post, server, code, last>>

(* The order                                                               *)

Submit ==
    /\ OnForm /\ post = NoPost
    /\ challenge # None /\ ~loading /\ answer # None
    /\ post' = [at |-> "sent", challenge |-> challenge, answer |-> answer, order |-> None]
    /\ tried' = tried \cup {challenge}
    /\ UNCHANGED <<where, captcha, live, passes, code, last>>

\* create_order after the captcha: an order with a QR code, with a redirect to
\* the gateway, or with no payment entry; or an error.
PlaceOrder(o) ==
    /\ post.at = "passed"
    /\ Unknown(o)
    /\ \E action \in {"qr", "gateway", "query"} :
          post' = [NoPost EXCEPT !.at = action, !.order = o]
    /\ UNCHANGED <<where, captcha, server, code, last>>

Arrived == {"showing", "entering"}

\* The request fails, or its answer is lost whatever came of it.
PostFails ==
    /\ post.at \notin {"none", "error"} \cup Arrived
    /\ post' = [NoPost EXCEPT !.at = "error"]
    /\ UNCHANGED <<where, captcha, server, code, last>>

\* The order arrives: setQrOrder, or navigate, or the gateway's address, for
\* which the page is left at once.
OrderReturns ==
    /\ last' = post.order
    /\ \/ /\ post.at = "gateway"
          /\ post' = NoPost
          /\ Unmount([at |-> "gateway", order |-> post.order])
       \/ /\ post.at \in {"qr", "query"}
          /\ post' = [NoPost EXCEPT !.at = IF post.at = "qr" THEN "showing" ELSE "entering",
                                    !.order = post.order]
          /\ UNCHANGED <<where, captcha, code>>
    /\ UNCHANGED server

\* React renders what has arrived: the QR code, whose effect replaces that of
\* the one before, or the order's page.  A page that was left shows no code.
Render ==
    /\ post' = NoPost
    /\ \/ /\ post.at = "showing" /\ OnForm
          /\ qr' = post.order
          /\ past' \in BOOLEAN
          /\ StartPolling(past')
          /\ UNCHANGED <<where, captcha>>
       \/ /\ post.at = "showing" /\ ~OnForm
          /\ UNCHANGED <<where, captcha, code>>
       \/ /\ post.at = "entering"
          /\ Unmount([at |-> "query", order |-> post.order])
    /\ UNCHANGED <<server, last>>

\* The page goes elsewhere: the last navigation is the one that counts.
GoElsewhere(page) ==
    /\ Unmount(page)
    /\ post' = IF post.at = "entering" THEN NoPost ELSE post
    /\ UNCHANGED <<server, last>>

\* Mutant: the toast tells the customer, who sees the same picture.
OrderFailsQuietly ==
    /\ post.at = "error"
    /\ post' = NoPost
    /\ UNCHANGED <<where, captcha, server, code, last>>

\* The error arrives: the challenge is spent, ask for another one.
OrderFails ==
    /\ post.at = "error"
    /\ post' = NoPost
    /\ IF OnForm THEN RefreshCaptcha ELSE UNCHANGED captcha
    /\ UNCHANGED <<where, server, code, last>>

(* The QR code                                                             *)

SendPoll ==
    /\ polling /\ ~past
    /\ Cardinality(polls) < MaxPolls
    /\ polls' = polls \cup {[order |-> qr, fresh |-> TRUE]}
    /\ UNCHANGED <<where, captcha, post, server, qr, past, polling, last>>

\* Mutant: the answer is not asked whether the effect still runs.
RunningAlways(p) == TRUE

\* !stopped
Running(p) == p.fresh

\* The answer says delivered: stop the polls and enter the order's page.
PollEnters(p) ==
    /\ Running(p)
    /\ GoElsewhere([at |-> "query", order |-> p.order])

\* It says something else, is an error, or comes too late.
PollIgnored(p) ==
    /\ polls' = polls \ {p}
    /\ UNCHANGED <<where, captcha, post, server, qr, past, polling, last>>

\* The countdown, or the check before a poll, finds the deadline reached.
StopPolling ==
    /\ polling /\ past
    /\ polling' = FALSE
    /\ polls' = StalePolls
    /\ UNCHANGED <<where, captcha, post, server, qr, past, last>>

\* The password field behind the dialog is an input of the effect.
EditPassword ==
    /\ OnForm /\ qr # None
    /\ StartPolling(past)
    /\ UNCHANGED <<where, captcha, post, server, qr, past, last>>

CloseCode ==
    /\ OnForm /\ qr # None
    /\ GoElsewhere([at |-> "query", order |-> qr])

Back ==
    /\ OnForm
    /\ GoElsewhere([at |-> "left", order |-> None])

\* The clock reaches the deadline of the code that is shown.
DeadlinePasses ==
    /\ qr # None /\ ~past
    /\ past' = TRUE
    /\ UNCHANGED <<where, captcha, post, server, qr, polling, polls, last>>

-----------------------------------------------------------------------------
PageNext ==
    \/ TypeAnswer \/ Mistype \/ Submit \/ VerifyAccepts \/ VerifyRefuses
    \/ PostFails \/ OrderReturns \/ Render \/ OrderFails \/ ClickRefresh
    \/ SendPoll \/ StopPolling \/ EditPassword \/ DeadlinePasses \/ CloseCode \/ Back

Next ==
    \/ PageNext
    \/ \E c \in Challenge : Repeat(c) \/ Forget(c)
    \/ \E f \in fetches : \/ \E c \in Challenge : Issue(f, c)
                          \/ FetchReturns(f) \/ FetchFails(f)
    \/ \E o \in Order : PlaceOrder(o)
    \/ \E p \in polls : PollEnters(p) \/ PollIgnored(p)

Spec == Init /\ [][Next]_vars

-----------------------------------------------------------------------------
(***************************************************************************)
(* Properties                                                              *)
(***************************************************************************)

Page == [at : {"form", "query", "gateway", "left"}, order : Order \cup {None}]
Refresh == [challenge : Challenge \cup {None}, latest : BOOLEAN]
Query == [order : Order, fresh : BOOLEAN]
Post == [at : {"none", "sent", "passed", "error", "qr", "gateway", "query"} \cup Arrived,
         challenge : Challenge \cup {None},
         answer : Challenge \cup {Wrong, None}, order : Order \cup {None}]

\* The variables keep their types.
TypeOK ==
    /\ where \in Page
    /\ fetches \subseteq Refresh
    /\ challenge \in Challenge \cup {None} /\ loading \in BOOLEAN
    /\ answer \in Challenge \cup {Wrong, None}
    /\ post \in Post
    /\ live \subseteq Challenge
    /\ passes \in [Challenge -> 0 .. 2] /\ tried \subseteq Challenge
    /\ qr \in Order \cup {None} /\ past \in BOOLEAN /\ polling \in BOOLEAN
    /\ polls \subseteq Query
    /\ last \in Order \cup {None}

\* A challenge passes once, whoever submits it, how often and when
\* (captcha.rs:88-94).
OnePassPerChallenge ==
    \A c \in Challenge : passes[c] <= 1 /\ (c \in live => passes[c] = 0)

\* What was copied from a picture is submitted with that picture's id, however
\* the answers of several refreshes cross (App.tsx:678-706): while a picture
\* loads nothing copied is in the field, and when none loads no other picture
\* can arrive.
AnswerFitsPicture ==
    /\ answer \in {None, Wrong} \/ (answer = challenge /\ ~loading)
    /\ post.answer \in {None, Wrong, post.challenge}
    /\ \A f \in fetches : f.latest => loading

\* The page goes to the order it created last: a poll of an earlier QR code
\* answered late takes nobody away from the one shown now (App.tsx:735-797).
\* Only between an order's arrival and its rendering can the page still go to
\* the order of the code it shows.
GoesToLastOrder ==
    [][where' # where /\ where'.at # "left" =>
          \/ where'.order = last'
          \/ post.at \in Arrived /\ where'.order = qr]_vars

\* The customer never works on a picture that can only be refused: when nothing
\* is under way and no code is shown, the picture on the page has not been
\* submitted before, whatever came of the earlier orders and in whatever order
\* the requests were answered (App.tsx:854-862).
FreshPicture ==
    OnForm /\ post = NoPost /\ qr = None /\ ~loading => challenge \notin tried

\* Only the latest refresh can still show its picture, and no two requests, nor
\* the page, have the same challenge.
FetchesApart ==
    \A f \in fetches :
        /\ f.latest => \A g \in fetches : g.latest => g = f
        /\ f.challenge # None =>
              /\ f.challenge \notin tried \cup {challenge, post.challenge}
              /\ \A g \in fetches : g.challenge = f.challenge => g = f

\* The code shown is that of the order created last, unless that is not rendered
\* yet; only polls for it are listened to, and an answer with an order names it.
CodeIsLast ==
    /\ qr # None => qr = last \/ post.at \in Arrived
    /\ post.at \in Arrived => post.order = last
    /\ post.at \in {"qr", "gateway", "query"} \cup Arrived => post.order # None
    /\ polling => qr # None
    /\ \A p \in polls : p.fresh => p.order = qr
    /\ ~OnForm => qr = None /\ polls = {} /\ fetches = {}

\* All of it, which every step keeps: what a request may still do to the page
\* follows from when it was sent.
PageInv ==
    /\ TypeOK
    /\ OnePassPerChallenge /\ AnswerFitsPicture
    /\ FetchesApart /\ FreshPicture
    /\ CodeIsLast

=============================================================================
