------------------------- MODULE CheckoutPageProofs -------------------------
(***************************************************************************)
(* Proofs about CheckoutPage, for any number of challenges, orders and     *)
(* requests under way.                                                     *)
(***************************************************************************)
EXTENDS CheckoutPage, TLAPS

\* A record of a type is given by its fields.
LEMMA RefreshShape ==
  /\ \A f \in Refresh : f.challenge \in Challenge \cup {None} /\ f.latest \in BOOLEAN
  /\ \A c \in Challenge \cup {None}, b \in BOOLEAN : [challenge |-> c, latest |-> b] \in Refresh
BY DEF Refresh

LEMMA QueryShape ==
  /\ \A p \in Query : p.order \in Order /\ p.fresh \in BOOLEAN
  /\ \A o \in Order, b \in BOOLEAN : [order |-> o, fresh |-> b] \in Query
BY DEF Query

LEMMA PageShape ==
  /\ Form \in Page
  /\ [at |-> "left", order |-> None] \in Page \ {Form}
  /\ \A at \in {"query", "gateway"}, o \in Order \cup {None} :
        [at |-> at, order |-> o] \in Page \ {Form}
BY DEF Page, Form

LEMMA PostShape ==
  /\ \A q \in Post : /\ q.challenge \in Challenge \cup {None}
                     /\ q.answer \in Challenge \cup {Wrong, None}
                     /\ q.order \in Order \cup {None}
  /\ NoPost \in Post
  /\ NoPost.at = "none" /\ NoPost.challenge = None /\ NoPost.answer = None
  /\ NoPost.order = None
  /\ \A at \in {"passed", "error"} :
        LET q == [NoPost EXCEPT !.at = at] IN
        q \in Post /\ q # NoPost /\ q.at = at /\ q.challenge = None /\ q.answer = None /\ q.order = None
  /\ \A at \in {"qr", "gateway", "query"} \cup Arrived, o \in Order :
        LET q == [NoPost EXCEPT !.at = at, !.order = o] IN
        q \in Post /\ q # NoPost /\ q.at = at /\ q.challenge = None /\ q.answer = None /\ q.order = o
  /\ \A c \in Challenge, a \in Challenge \cup {Wrong} :
        LET q == [at |-> "sent", challenge |-> c, answer |-> a, order |-> None] IN
        q \in Post /\ q # NoPost /\ q.at = "sent" /\ q.challenge = c /\ q.answer = a /\ q.order = None
BY DEF Post, NoPost, Arrived

\* What an effect's cleanup leaves of its requests.
LEMMA StaleFetchesShape ==
  ASSUME fetches \subseteq Refresh
  PROVE  /\ StaleFetches \subseteq Refresh
         /\ \A g \in StaleFetches :
               /\ g.latest = FALSE
               /\ \E f \in fetches : g = [challenge |-> f.challenge, latest |-> FALSE]
<1>1. ASSUME NEW g \in StaleFetches
      PROVE  /\ g \in Refresh
             /\ g.latest = FALSE
             /\ \E f \in fetches : g = [challenge |-> f.challenge, latest |-> FALSE]
  <2>1. PICK f \in fetches : g = [challenge |-> f.challenge, latest |-> FALSE]
    BY DEF StaleFetches
  <2>2. f.challenge \in Challenge \cup {None}
    BY RefreshShape
  <2>3. QED
    BY <2>1, <2>2, RefreshShape
<1>2. QED
  BY <1>1

LEMMA StalePollsShape ==
  ASSUME polls \subseteq Query
  PROVE  /\ StalePolls \subseteq Query
         /\ \A p \in StalePolls : p.fresh = FALSE
<1>1. ASSUME NEW q \in StalePolls
      PROVE  q \in Query /\ q.fresh = FALSE
  <2>1. PICK p \in polls : q = [order |-> p.order, fresh |-> FALSE]
    BY DEF StalePolls
  <2>2. p.order \in Order
    BY QueryShape
  <2>3. QED
    BY <2>1, <2>2, QueryShape
<1>2. QED
  BY <1>1

\* What an order's arrival and its rendering do.
LEMMA ArrivalEffect ==
  ASSUME TypeOK, CodeIsLast, OrderReturns
  PROVE  /\ last' = post.order /\ UNCHANGED <<live, passes, tried>>
         /\ \/ /\ post' = NoPost
               /\ Unmount([at |-> "gateway", order |-> post.order])
            \/ /\ post' \in Post /\ post' # NoPost /\ post'.at \in Arrived
               /\ post'.challenge = None /\ post'.answer = None
               /\ post'.order = post.order
               /\ UNCHANGED <<where, fetches, challenge, loading, answer,
                             qr, past, polling, polls>>
<1>1. CASE post.at = "gateway"
  BY <1>1 DEF OrderReturns, server
<1>2. CASE post.at # "gateway"
  <2>1. PICK at \in Arrived : post' = [NoPost EXCEPT !.at = at, !.order = post.order]
    BY <1>2 DEF OrderReturns, Arrived
  <2>2. post.order \in Order
    BY <1>2, PostShape DEF OrderReturns, CodeIsLast, TypeOK
  <2>3. /\ post' \in Post /\ post' # NoPost /\ post'.at = at
        /\ post'.challenge = None /\ post'.answer = None /\ post'.order = post.order
    BY <2>1, <2>2 DEF Post, NoPost, Arrived
  <2> QED BY <1>2, <2>3 DEF OrderReturns, captcha, code, server
<1> QED BY <1>1, <1>2

LEMMA RenderEffect ==
  ASSUME Render
  PROVE  /\ post' = NoPost /\ UNCHANGED <<live, passes, tried, last>>
         /\ \/ /\ post.at \in Arrived /\ where = Form
               /\ qr' = post.order /\ past' \in BOOLEAN /\ polling' \in BOOLEAN
               /\ polls' = StalePolls
               /\ UNCHANGED <<where, fetches, challenge, loading, answer>>
            \/ /\ where # Form
               /\ UNCHANGED <<where, fetches, challenge, loading, answer,
                             qr, past, polling, polls>>
            \/ /\ post.at \in Arrived
               /\ Unmount([at |-> "query", order |-> post.order])
<1>1. ASSUME past' \in BOOLEAN PROVE (~past') \in BOOLEAN
  OBVIOUS
<1>2. CASE post.at = "showing" /\ OnForm
  <2>1. /\ qr' = post.order /\ past' \in BOOLEAN /\ polling' = ~past'
        /\ polls' = StalePolls /\ where = Form
        /\ UNCHANGED <<where, fetches, challenge, loading, answer>>
    BY <1>2, Zenon DEF Render, StartPolling, OnForm, captcha
  <2>2. polling' \in BOOLEAN
    BY <1>1, <2>1, Zenon
  <2> QED BY <1>2, <2>1, <2>2 DEF Render, Arrived, server
<1>3. CASE post.at = "showing" /\ ~OnForm
  BY <1>3 DEF Render, OnForm, captcha, code, server
<1>4. CASE post.at = "entering"
  BY <1>4 DEF Render, Arrived, server
<1> QED BY <1>2, <1>3, <1>4 DEF Render

LEMMA ElsewhereEffect ==
  ASSUME TypeOK, CodeIsLast,
         CloseCode \/ Back \/ \E p \in polls : PollEnters(p)
  PROVE  \E page \in Page \ {Form} :
            /\ page.at # "left" => page.order = qr
            /\ Unmount(page) /\ UNCHANGED <<live, passes, tried, last>>
            /\ post' = post \/ (post.at = "entering" /\ post' = NoPost)
<1> DEFINE Goes(page) ==
             /\ Unmount(page) /\ UNCHANGED <<live, passes, tried, last>>
             /\ post' = post \/ (post.at = "entering" /\ post' = NoPost)
<1>1. ASSUME NEW page, GoElsewhere(page) PROVE Goes(page)
  BY <1>1 DEF GoElsewhere, server
<1> HIDE DEF Goes
<1>2. CASE CloseCode
  <2>1. [at |-> "query", order |-> qr] \in Page \ {Form}
    BY PageShape DEF TypeOK
  <2> QED BY <1>1, <1>2, <2>1 DEF CloseCode, Goes
<1>3. CASE Back
  <2>1. [at |-> "left", order |-> None] \in Page \ {Form}
    BY PageShape
  <2> QED BY <1>1, <1>3, <2>1 DEF Back, Goes
<1>4. ASSUME NEW p \in polls, PollEnters(p)
      PROVE  \E page \in Page \ {Form} :
                /\ page.at # "left" => page.order = qr
                /\ Goes(page)
  <2>1. p.order \in Order /\ p.order = qr
    BY <1>4, QueryShape DEF TypeOK, CodeIsLast, PollEnters, Running
  <2>2. [at |-> "query", order |-> p.order] \in Page \ {Form}
    BY <2>1, PageShape
  <2> QED BY <1>1, <1>4, <2>1, <2>2 DEF PollEnters
<1> QED BY <1>2, <1>3, <1>4 DEF Goes

LEMMA PageStart == Init => PageInv
<1> SUFFICES ASSUME Init PROVE PageInv
  OBVIOUS
<1> USE DEF Init
<1>1. TypeOK
  <2>1. where \in Page /\ post \in Post
    BY PageShape, PostShape
  <2>2. fetches \subseteq Refresh
    BY RefreshShape DEF NewFetch
  <2>3. passes \in [Challenge -> 0 .. 2]
    <3>1. \A c \in Challenge : 0 \in 0 .. 2
      OBVIOUS
    <3>2. QED
      BY <3>1
  <2>4. QED
    BY <2>1, <2>2, <2>3 DEF TypeOK
<1>2. OnePassPerChallenge /\ AnswerFitsPicture
  BY PageAssumption DEF OnePassPerChallenge, AnswerFitsPicture, NoPost, NewFetch
<1>3. FetchesApart
  BY PageAssumption DEF FetchesApart, NoPost, NewFetch
<1>4. FreshPicture /\ CodeIsLast
  BY DEF FreshPicture, CodeIsLast, OnForm, NoPost, Arrived
<1>5. QED
  BY <1>1, <1>2, <1>3, <1>4 DEF PageInv

\* Every step keeps the types.
LEMMA PageTypes == PageInv /\ [Next]_vars => TypeOK'
<1> SUFFICES ASSUME PageInv, [Next]_vars PROVE TypeOK'
  OBVIOUS
<1> USE DEF TypeOK, OnForm, vars, captcha, server, code
<1>a. TypeOK
  BY DEF PageInv
<1>b. OnePassPerChallenge /\ CodeIsLast
  BY DEF PageInv
<1>1. CASE TypeAnswer
  BY <1>1, <1>a DEF TypeAnswer
<1>2. CASE Mistype
  BY <1>2, <1>a DEF Mistype
<1>3. CASE Submit
  BY <1>3, <1>a, PostShape DEF Submit
<1>4. CASE VerifyAccepts
  <2>1. post' \in Post
    BY <1>4, PostShape DEF VerifyAccepts
  <2>2. passes[post.challenge] = 0 /\ post.challenge \in Challenge
    BY <1>a, <1>b, <1>4 DEF VerifyAccepts, OnePassPerChallenge
  <2>3. passes' \in [Challenge -> 0 .. 2]
    BY <1>a, <1>4, <2>2 DEF VerifyAccepts
  <2>4. QED
    BY <1>4, <1>a, <2>1, <2>3 DEF VerifyAccepts, Taken, OnePassPerChallenge
<1>5. CASE VerifyRefuses
  BY <1>5, <1>a, PostShape DEF VerifyRefuses, Taken
<1>6. CASE PostFails
  BY <1>6, <1>a, PostShape DEF PostFails
<1>7. CASE OrderReturns
  <2>1. last' \in Order \cup {None} /\ UNCHANGED <<live, passes, tried>>
    <3>1. post.order \in Order \cup {None}
      BY <1>a, PostShape
    <3>2. last' = post.order /\ UNCHANGED <<live, passes, tried>>
      BY <1>7 DEF OrderReturns
    <3> QED BY <3>1, <3>2
  <2>2. CASE post' = NoPost /\ Unmount([at |-> "gateway", order |-> post.order])
    BY <1>a, <2>1, <2>2, PageShape, PostShape DEF Unmount
  <2>3. CASE /\ post' \in Post
             /\ UNCHANGED <<where, fetches, challenge, loading, answer,
                           qr, past, polling, polls>>
    BY <1>a, <2>1, <2>3
  <2> QED BY <1>7, <1>a, <1>b, <2>2, <2>3, ArrivalEffect
<1>8. CASE Render
  <2>1. post' = NoPost /\ UNCHANGED <<live, passes, tried, last>>
    BY <1>8, RenderEffect
  <2>2. CASE UNCHANGED <<where, fetches, challenge, loading, answer, qr, past, polling, polls>>
    BY <1>a, <2>1, <2>2, PostShape
  <2>3. CASE Unmount([at |-> "query", order |-> post.order])
    BY <1>a, <2>1, <2>3, PageShape, PostShape DEF Unmount
  <2>4. CASE /\ qr' = post.order /\ past' \in BOOLEAN /\ polling' \in BOOLEAN
             /\ polls' = StalePolls
             /\ UNCHANGED <<where, fetches, challenge, loading, answer>>
    BY <1>a, <2>1, <2>4, PostShape, StalePollsShape
  <2> QED BY <1>8, <2>2, <2>3, <2>4, RenderEffect
<1>9. CASE OrderFails
  <2>1. post' \in Post
    BY <1>9, PostShape DEF OrderFails
  <2>2. CASE where = Form
    <3>1. fetches' \subseteq Refresh
      BY <1>9, <1>a, <2>2, StaleFetchesShape, RefreshShape DEF OrderFails, RefreshCaptcha, NewFetch
    <3>2. QED
      BY <1>9, <1>a, <2>1, <2>2, <3>1 DEF OrderFails, RefreshCaptcha
  <2>3. CASE where # Form
    BY <1>9, <1>a, <2>1, <2>3 DEF OrderFails
  <2>4. QED
    BY <2>2, <2>3
<1>10. CASE ClickRefresh
  BY <1>10, <1>a, StaleFetchesShape, RefreshShape DEF ClickRefresh, RefreshCaptcha, NewFetch
<1>11. CASE SendPoll
  BY <1>11, <1>a, QueryShape, <1>b DEF SendPoll, CodeIsLast
<1>12. CASE StopPolling
  BY <1>12, <1>a, StalePollsShape DEF StopPolling
<1>13. CASE EditPassword
  BY <1>13, <1>a, StalePollsShape DEF EditPassword, StartPolling
<1>14. CASE DeadlinePasses
  BY <1>14, <1>a DEF DeadlinePasses
<1>15. CASE CloseCode \/ Back \/ \E p \in polls : PollEnters(p)
  <2>1. PICK page \in Page \ {Form} :
           /\ Unmount(page) /\ UNCHANGED <<live, passes, tried, last>>
           /\ post' = post \/ (post.at = "entering" /\ post' = NoPost)
    BY <1>15, <1>a, <1>b, ElsewhereEffect
  <2> QED BY <1>a, <2>1, PostShape DEF Unmount
<1>16. ASSUME NEW c \in Challenge, Repeat(c)
     PROVE TypeOK'
  BY <1>16, <1>a, <1>b DEF Repeat, Taken, OnePassPerChallenge
<1>17. ASSUME NEW c \in Challenge, Forget(c)
     PROVE TypeOK'
  BY <1>17, <1>a DEF Forget
<1>18. ASSUME NEW f \in fetches, NEW c \in Challenge, Issue(f, c)
     PROVE TypeOK'
  BY <1>18, <1>a, RefreshShape DEF Issue, Unused
<1>19. ASSUME NEW f \in fetches, FetchReturns(f)
     PROVE TypeOK'
  BY <1>19, <1>a, RefreshShape DEF FetchReturns, Current
<1>20. ASSUME NEW f \in fetches, FetchFails(f)
     PROVE TypeOK'
  BY <1>20, <1>a DEF FetchFails, Current
<1>21. ASSUME NEW o \in Order, PlaceOrder(o)
     PROVE TypeOK'
  <2>1. PICK action \in {"qr", "gateway", "query"} :
           post' = [NoPost EXCEPT !.at = action, !.order = o]
    BY <1>21 DEF PlaceOrder
  <2>2. post' \in Post
    BY <2>1, PostShape
  <2>3. QED
    BY <1>21, <1>a, <2>2 DEF PlaceOrder
<1>22. ASSUME NEW p \in polls, PollIgnored(p)
     PROVE TypeOK'
  BY <1>22, <1>a DEF PollIgnored
<1>23. CASE UNCHANGED vars
  BY <1>23, <1>a
<1> HIDE DEF TypeOK
<1>24. QED
  BY <1>1, <1>2, <1>3, <1>4, <1>5, <1>6, <1>7, <1>8, <1>9, <1>10, <1>11, <1>12,
     <1>13, <1>14, <1>15, <1>16, <1>17, <1>18, <1>19, <1>20, <1>21, <1>22, <1>23
  DEF Next, PageNext

\* Every step keeps what is said of challenges, of the answer and of the picture.
LEMMA PageSafety == PageInv /\ [Next]_vars => (OnePassPerChallenge /\ AnswerFitsPicture /\ FreshPicture)'
<1> SUFFICES ASSUME PageInv, [Next]_vars PROVE (OnePassPerChallenge /\ AnswerFitsPicture /\ FreshPicture)'
  OBVIOUS
<1>a. PageInv
  OBVIOUS
<1> USE PageAssumption, <1>a DEF PageInv, TypeOK, OnePassPerChallenge, AnswerFitsPicture, FetchesApart, FreshPicture, OnForm, NoPost, vars, captcha, server, code
<1>1. CASE TypeAnswer
  BY <1>1 DEF TypeAnswer
<1>2. CASE Mistype
  BY <1>2 DEF Mistype
<1>3. CASE Submit
  BY <1>3 DEF Submit
<1>4. CASE VerifyAccepts
  BY <1>4 DEF VerifyAccepts, Taken
<1>5. CASE VerifyRefuses
  BY <1>5 DEF VerifyRefuses, Taken
<1>6. CASE PostFails
  BY <1>6 DEF PostFails
<1>7. CASE OrderReturns
  <2>1. UNCHANGED <<live, passes, tried>>
    BY <1>7, ArrivalEffect
  <2>2. CASE post' = NoPost /\ Unmount([at |-> "gateway", order |-> post.order])
    <3>1. where' # Form
      BY <2>2 DEF Unmount, Form
    <3> QED BY <2>1, <2>2, <3>1 DEF Unmount
  <2>3. CASE /\ post' # NoPost /\ post'.answer = None
             /\ UNCHANGED <<where, fetches, challenge, loading, answer,
                           qr, past, polling, polls>>
    BY <2>1, <2>3
  <2> QED BY <1>7, <2>2, <2>3, ArrivalEffect
<1>8. CASE Render
  <2>1. post' = NoPost /\ UNCHANGED <<live, passes, tried, last>>
    BY <1>8, RenderEffect
  <2>2. CASE /\ where # Form
             /\ UNCHANGED <<where, fetches, challenge, loading, answer,
                           qr, past, polling, polls>>
    BY <2>1, <2>2
  <2>3. CASE Unmount([at |-> "query", order |-> post.order])
    <3>1. where' # Form
      BY <2>3 DEF Unmount, Form
    <3> QED BY <2>1, <2>3, <3>1 DEF Unmount
  <2>4. CASE /\ post.at \in Arrived /\ qr' = post.order
             /\ UNCHANGED <<where, fetches, challenge, loading, answer>>
    <3>1. qr' # None
      BY <2>4 DEF CodeIsLast
    <3> QED BY <2>1, <2>4, <3>1
  <2> QED BY <1>8, <2>2, <2>3, <2>4, RenderEffect
<1>9. CASE OrderFails
  BY <1>9, StaleFetchesShape DEF OrderFails, RefreshCaptcha, NewFetch
<1>10. CASE ClickRefresh
  BY <1>10, StaleFetchesShape DEF ClickRefresh, RefreshCaptcha, NewFetch
<1>11. CASE SendPoll
  BY <1>11 DEF SendPoll
<1>12. CASE StopPolling
  BY <1>12 DEF StopPolling
<1>13. CASE EditPassword
  BY <1>13 DEF EditPassword, StartPolling
<1>14. CASE DeadlinePasses
  BY <1>14 DEF DeadlinePasses
<1>15. CASE CloseCode \/ Back \/ \E p \in polls : PollEnters(p)
  <2>1. PICK page \in Page \ {Form} :
           /\ Unmount(page) /\ UNCHANGED <<live, passes, tried, last>>
           /\ post' = post \/ (post.at = "entering" /\ post' = NoPost)
    BY <1>15, ElsewhereEffect
  <2> QED BY <2>1 DEF Unmount
<1>16. ASSUME NEW c \in Challenge, Repeat(c)
     PROVE (OnePassPerChallenge /\ AnswerFitsPicture /\ FreshPicture)'
  BY <1>16 DEF Repeat, Taken
<1>17. ASSUME NEW c \in Challenge, Forget(c)
     PROVE (OnePassPerChallenge /\ AnswerFitsPicture /\ FreshPicture)'
  BY <1>17 DEF Forget
<1>18. ASSUME NEW f \in fetches, NEW c \in Challenge, Issue(f, c)
     PROVE (OnePassPerChallenge /\ AnswerFitsPicture /\ FreshPicture)'
  BY <1>18 DEF Issue, Unused
<1>19. ASSUME NEW f \in fetches, FetchReturns(f)
     PROVE (OnePassPerChallenge /\ AnswerFitsPicture /\ FreshPicture)'
  BY <1>19 DEF FetchReturns, Current
<1>20. ASSUME NEW f \in fetches, FetchFails(f)
     PROVE (OnePassPerChallenge /\ AnswerFitsPicture /\ FreshPicture)'
  BY <1>20 DEF FetchFails, Current
<1>21. ASSUME NEW o \in Order, PlaceOrder(o)
     PROVE (OnePassPerChallenge /\ AnswerFitsPicture /\ FreshPicture)'
  <2>1. PICK action \in {"qr", "gateway", "query"} :
           post' = [NoPost EXCEPT !.at = action, !.order = o]
    BY <1>21 DEF PlaceOrder
  <2>2. post'.answer = None /\ post'.at # "none"
    BY <2>1
  <2>3. post' # NoPost
    BY <2>2
  <2>4. QED
    BY <1>21, <2>2, <2>3 DEF PlaceOrder
<1>22. ASSUME NEW p \in polls, PollIgnored(p)
     PROVE (OnePassPerChallenge /\ AnswerFitsPicture /\ FreshPicture)'
  BY <1>22 DEF PollIgnored
<1>23. CASE UNCHANGED vars
  BY <1>23
<1>24. QED
  BY <1>1, <1>2, <1>3, <1>4, <1>5, <1>6, <1>7, <1>8, <1>9, <1>10, <1>11, <1>12,
     <1>13, <1>14, <1>15, <1>16, <1>17, <1>18, <1>19, <1>20, <1>21, <1>22, <1>23
  DEF Next, PageNext

\* Every step keeps the requests apart.
LEMMA PageRequests == PageInv /\ [Next]_vars => FetchesApart'
<1> SUFFICES ASSUME PageInv, [Next]_vars PROVE FetchesApart'
  OBVIOUS
<1>a. PageInv
  OBVIOUS
<1> USE PageAssumption, <1>a DEF PageInv, TypeOK, FetchesApart, AnswerFitsPicture, OnForm, NoPost, vars, captcha, server, code
<1>1. CASE TypeAnswer
  BY <1>1 DEF TypeAnswer
<1>2. CASE Mistype
  BY <1>2 DEF Mistype
<1>3. CASE Submit
  BY <1>3 DEF Submit
<1>4. CASE VerifyAccepts
  BY <1>4 DEF VerifyAccepts, Taken
<1>5. CASE VerifyRefuses
  BY <1>5 DEF VerifyRefuses, Taken
<1>6. CASE PostFails
  BY <1>6 DEF PostFails
<1>7. CASE OrderReturns
  BY <1>7, ArrivalEffect DEF Unmount
<1>8. CASE Render
  <2>1. post' = NoPost /\ UNCHANGED <<live, passes, tried, last>>
    BY <1>8, RenderEffect
  <2>2. CASE UNCHANGED <<fetches, challenge>>
    BY <2>1, <2>2
  <2>3. CASE Unmount([at |-> "query", order |-> post.order])
    BY <2>3 DEF Unmount
  <2> QED BY <1>8, <2>2, <2>3, RenderEffect
<1>9. CASE OrderFails
  <2>1. CASE where # Form
    BY <1>9, <2>1 DEF OrderFails
  <2>2. CASE where = Form
    <3>1. \A g \in fetches' : g.latest => g = NewFetch
      BY <1>9, <2>2, StaleFetchesShape DEF OrderFails, RefreshCaptcha
    <3>2. ASSUME NEW g \in fetches', g.challenge # None
          PROVE  \E f \in fetches : /\ g = [challenge |-> f.challenge, latest |-> FALSE]
                                    /\ f.challenge # None
      <4>1. g \in StaleFetches
        BY <1>9, <2>2, <3>2 DEF OrderFails, RefreshCaptcha, NewFetch
      <4>2. PICK f \in fetches : g = [challenge |-> f.challenge, latest |-> FALSE]
        BY <4>1, StaleFetchesShape
      <4>3. g.challenge = f.challenge
        BY <4>2
      <4>4. QED
        BY <3>2, <4>2, <4>3
    <3>3. \A f, h \in fetches : f.challenge # None /\ f.challenge = h.challenge => f = h
      BY DEF FetchesApart
    <3>4. ASSUME NEW g \in fetches', NEW h \in fetches', g.challenge # None,
                 h.challenge = g.challenge
          PROVE  g = h
      <4>1. PICK f \in fetches :
               g = [challenge |-> f.challenge, latest |-> FALSE] /\ f.challenge # None
        BY <3>2, <3>4
      <4>2. PICK e \in fetches :
               h = [challenge |-> e.challenge, latest |-> FALSE] /\ e.challenge # None
        BY <3>2, <3>4
      <4>3. f.challenge = e.challenge
        BY <3>4, <4>1, <4>2
      <4>4. f = e
        BY <3>3, <4>1, <4>3
      <4>5. QED
        BY <4>1, <4>2, <4>4
    <3>5. \A f \in fetches : f.challenge # None =>
             f.challenge \notin tried \cup {challenge}
      BY DEF FetchesApart
    <3>6. post'.challenge \in {None, post.challenge} /\ UNCHANGED <<tried, challenge>>
      BY <1>9, <2>2 DEF OrderFails, RefreshCaptcha
    <3>7. \A g \in fetches' : g.challenge # None =>
             g.challenge \notin (tried \cup {challenge, post.challenge})'
      BY <3>2, <3>5, <3>6 DEF FetchesApart
    <3>8. QED
      BY <3>1, <3>4, <3>7 DEF FetchesApart
  <2>3. QED
    BY <2>1, <2>2
<1>10. CASE ClickRefresh
  <2>1. CASE where # Form
    BY <1>10, <2>1 DEF ClickRefresh
  <2>2. CASE where = Form
    <3>1. \A g \in fetches' : g.latest => g = NewFetch
      BY <1>10, <2>2, StaleFetchesShape DEF ClickRefresh, RefreshCaptcha
    <3>2. ASSUME NEW g \in fetches', g.challenge # None
          PROVE  \E f \in fetches : /\ g = [challenge |-> f.challenge, latest |-> FALSE]
                                    /\ f.challenge # None
      <4>1. g \in StaleFetches
        BY <1>10, <2>2, <3>2 DEF ClickRefresh, RefreshCaptcha, NewFetch
      <4>2. PICK f \in fetches : g = [challenge |-> f.challenge, latest |-> FALSE]
        BY <4>1, StaleFetchesShape
      <4>3. g.challenge = f.challenge
        BY <4>2
      <4>4. QED
        BY <3>2, <4>2, <4>3
    <3>3. \A f, h \in fetches : f.challenge # None /\ f.challenge = h.challenge => f = h
      BY DEF FetchesApart
    <3>4. ASSUME NEW g \in fetches', NEW h \in fetches', g.challenge # None,
                 h.challenge = g.challenge
          PROVE  g = h
      <4>1. PICK f \in fetches :
               g = [challenge |-> f.challenge, latest |-> FALSE] /\ f.challenge # None
        BY <3>2, <3>4
      <4>2. PICK e \in fetches :
               h = [challenge |-> e.challenge, latest |-> FALSE] /\ e.challenge # None
        BY <3>2, <3>4
      <4>3. f.challenge = e.challenge
        BY <3>4, <4>1, <4>2
      <4>4. f = e
        BY <3>3, <4>1, <4>3
      <4>5. QED
        BY <4>1, <4>2, <4>4
    <3>5. \A f \in fetches : f.challenge # None =>
             f.challenge \notin tried \cup {challenge}
      BY DEF FetchesApart
    <3>6. post'.challenge \in {None, post.challenge} /\ UNCHANGED <<tried, challenge>>
      BY <1>10, <2>2 DEF ClickRefresh, RefreshCaptcha
    <3>7. \A g \in fetches' : g.challenge # None =>
             g.challenge \notin (tried \cup {challenge, post.challenge})'
      BY <3>2, <3>5, <3>6 DEF FetchesApart
    <3>8. QED
      BY <3>1, <3>4, <3>7 DEF FetchesApart
  <2>3. QED
    BY <2>1, <2>2
<1>11. CASE SendPoll
  BY <1>11 DEF SendPoll
<1>12. CASE StopPolling
  BY <1>12 DEF StopPolling
<1>13. CASE EditPassword
  BY <1>13 DEF EditPassword, StartPolling
<1>14. CASE DeadlinePasses
  BY <1>14 DEF DeadlinePasses
<1>15. CASE CloseCode \/ Back \/ \E p \in polls : PollEnters(p)
  <2>1. PICK page \in Page \ {Form} :
           /\ Unmount(page) /\ UNCHANGED <<live, passes, tried, last>>
           /\ post' = post \/ (post.at = "entering" /\ post' = NoPost)
    BY <1>15, ElsewhereEffect
  <2> QED BY <2>1 DEF Unmount
<1>16. ASSUME NEW c \in Challenge, Repeat(c)
     PROVE FetchesApart'
  BY <1>16 DEF Repeat, Taken
<1>17. ASSUME NEW c \in Challenge, Forget(c)
     PROVE FetchesApart'
  BY <1>17 DEF Forget
<1>18. ASSUME NEW f \in fetches, NEW c \in Challenge, Issue(f, c)
     PROVE FetchesApart'
  BY <1>18 DEF Issue, Unused
<1>19. ASSUME NEW f \in fetches, FetchReturns(f)
     PROVE FetchesApart'
  BY <1>19 DEF FetchReturns, Current
<1>20. ASSUME NEW f \in fetches, FetchFails(f)
     PROVE FetchesApart'
  BY <1>20 DEF FetchFails, Current
<1>21. ASSUME NEW o \in Order, PlaceOrder(o)
     PROVE FetchesApart'
  BY <1>21 DEF PlaceOrder
<1>22. ASSUME NEW p \in polls, PollIgnored(p)
     PROVE FetchesApart'
  BY <1>22 DEF PollIgnored
<1>23. CASE UNCHANGED vars
  BY <1>23
<1>24. QED
  BY <1>1, <1>2, <1>3, <1>4, <1>5, <1>6, <1>7, <1>8, <1>9, <1>10, <1>11, <1>12,
     <1>13, <1>14, <1>15, <1>16, <1>17, <1>18, <1>19, <1>20, <1>21, <1>22, <1>23
  DEF Next, PageNext

\* Every step keeps what is said of the code shown and its polls.
LEMMA PageCode == PageInv /\ [Next]_vars => CodeIsLast'
<1> SUFFICES ASSUME PageInv, [Next]_vars PROVE CodeIsLast'
  OBVIOUS
<1>a. PageInv
  OBVIOUS
<1> USE PageAssumption, <1>a DEF PageInv, TypeOK, CodeIsLast, Form, OnForm, NoPost, vars, captcha, server, code
<1>1. CASE TypeAnswer
  BY <1>1 DEF TypeAnswer
<1>2. CASE Mistype
  BY <1>2 DEF Mistype
<1>3. CASE Submit
  BY <1>3 DEF Submit, Arrived
<1>4. CASE VerifyAccepts
  BY <1>4 DEF VerifyAccepts, Taken, Arrived
<1>5. CASE VerifyRefuses
  BY <1>5 DEF VerifyRefuses, Taken, Arrived
<1>6. CASE PostFails
  BY <1>6 DEF PostFails, Arrived
<1>7. CASE OrderReturns
  <2>1. last' = post.order /\ post.order # None
    BY <1>7, ArrivalEffect DEF OrderReturns
  <2>2. CASE post' = NoPost /\ Unmount([at |-> "gateway", order |-> post.order])
    BY <2>1, <2>2 DEF Unmount, Arrived
  <2>3. CASE /\ post'.at \in Arrived /\ post'.order = post.order
             /\ UNCHANGED <<where, fetches, challenge, loading, answer,
                           qr, past, polling, polls>>
    BY <2>1, <2>3
  <2> QED BY <1>7, <2>2, <2>3, ArrivalEffect
<1>8. CASE Render
  <2>1. post' = NoPost /\ UNCHANGED <<live, passes, tried, last>>
    BY <1>8, RenderEffect
  <2>2. CASE /\ where # Form
             /\ UNCHANGED <<where, fetches, challenge, loading, answer,
                           qr, past, polling, polls>>
    BY <2>1, <2>2 DEF Arrived
  <2>3. CASE Unmount([at |-> "query", order |-> post.order])
    BY <2>1, <2>3 DEF Unmount, Arrived
  <2>4. CASE /\ post.at \in Arrived /\ where = Form
             /\ qr' = post.order /\ polls' = StalePolls
             /\ UNCHANGED <<where, fetches, challenge, loading, answer>>
    <3>1. qr' = last' /\ qr' # None
      BY <2>1, <2>4
    <3> QED BY <2>1, <2>4, <3>1, StalePollsShape DEF Arrived
  <2> QED BY <1>8, <2>2, <2>3, <2>4, RenderEffect
<1>9. CASE OrderFails
  BY <1>9 DEF OrderFails, RefreshCaptcha, NewFetch, Arrived
<1>10. CASE ClickRefresh
  BY <1>10 DEF ClickRefresh, RefreshCaptcha, NewFetch
<1>11. CASE SendPoll
  BY <1>11 DEF SendPoll
<1>12. CASE StopPolling
  BY <1>12, StalePollsShape DEF StopPolling
<1>13. CASE EditPassword
  BY <1>13, StalePollsShape DEF EditPassword, StartPolling
<1>14. CASE DeadlinePasses
  BY <1>14 DEF DeadlinePasses
<1>15. CASE CloseCode \/ Back \/ \E p \in polls : PollEnters(p)
  <2>1. PICK page \in Page \ {Form} :
           /\ Unmount(page) /\ UNCHANGED <<live, passes, tried, last>>
           /\ post' = post \/ (post.at = "entering" /\ post' = NoPost)
    BY <1>15, ElsewhereEffect
  <2> QED BY <2>1 DEF Unmount, Arrived
<1>16. ASSUME NEW c \in Challenge, Repeat(c)
     PROVE CodeIsLast'
  BY <1>16 DEF Repeat, Taken
<1>17. ASSUME NEW c \in Challenge, Forget(c)
     PROVE CodeIsLast'
  BY <1>17 DEF Forget
<1>18. ASSUME NEW f \in fetches, NEW c \in Challenge, Issue(f, c)
     PROVE CodeIsLast'
  BY <1>18 DEF Issue, Unused
<1>19. ASSUME NEW f \in fetches, FetchReturns(f)
     PROVE CodeIsLast'
  BY <1>19 DEF FetchReturns, Current
<1>20. ASSUME NEW f \in fetches, FetchFails(f)
     PROVE CodeIsLast'
  BY <1>20 DEF FetchFails, Current
<1>21. ASSUME NEW o \in Order, PlaceOrder(o)
     PROVE CodeIsLast'
  <2>1. PICK action \in {"qr", "gateway", "query"} :
           post' = [NoPost EXCEPT !.at = action, !.order = o]
    BY <1>21 DEF PlaceOrder
  <2>2. post'.order = o
    BY <2>1
  <2>3. QED
    BY <1>21, <2>1, <2>2 DEF PlaceOrder, Arrived
<1>22. ASSUME NEW p \in polls, PollIgnored(p)
     PROVE CodeIsLast'
  BY <1>22 DEF PollIgnored
<1>23. CASE UNCHANGED vars
  BY <1>23
<1>24. QED
  BY <1>1, <1>2, <1>3, <1>4, <1>5, <1>6, <1>7, <1>8, <1>9, <1>10, <1>11, <1>12,
     <1>13, <1>14, <1>15, <1>16, <1>17, <1>18, <1>19, <1>20, <1>21, <1>22, <1>23
  DEF Next, PageNext

LEMMA PageStep == PageInv /\ [Next]_vars => PageInv'
BY PageTypes, PageSafety, PageRequests, PageCode DEF PageInv

\* A challenge passes verify_once at most once (captcha.rs:88-94), and what was
\* copied from a picture is submitted with that picture's id; any number of
\* refreshes may cross (App.tsx:678-706).
THEOREM PageInvariance == Spec => []PageInv
BY PageStart, PageStep, PTL DEF Spec

\* One pass per challenge, whoever submits it and how often.
THEOREM ChallengesPassOnce == Spec => []OnePassPerChallenge
<1>1. PageInv => OnePassPerChallenge
  BY DEF PageInv
<1>2. QED
  BY <1>1, PageInvariance, PTL

\* The picture on an idle page has not been submitted before.
THEOREM PicturesAreFresh == Spec => []FreshPicture
<1>1. PageInv => FreshPicture
  BY DEF PageInv
<1>2. QED
  BY <1>1, PageInvariance, PTL

\* The page goes to the order created last, never to one whose code was
\* replaced, however late its polls are answered; the code it shows is older only
\* until the new order is rendered.
THEOREM GoesThere == Spec => GoesToLastOrder
<1> DEFINE ToLast == \/ where'.order = last'
                     \/ post.at \in Arrived /\ where'.order = qr
<1>1. ASSUME PageInv, [Next]_vars
      PROVE  [where' # where /\ where'.at # "left" => ToLast]_vars
  <2> SUFFICES ASSUME Next, where' # where, where'.at # "left"
               PROVE  ToLast
    BY <1>1
  <2>a. TypeOK /\ CodeIsLast
    BY <1>1 DEF PageInv
  <2>1. CASE OrderReturns
    <3>1. last' = post.order /\ (where' = where \/ where'.order = post.order)
      <4>1. CASE Unmount([at |-> "gateway", order |-> post.order])
        <5>1. where' = [at |-> "gateway", order |-> post.order]
          BY <4>1 DEF Unmount
        <5> QED BY <2>1, <2>a, <5>1, ArrivalEffect
      <4>2. CASE where' = where
        BY <2>1, <2>a, <4>2, ArrivalEffect
      <4> QED BY <2>1, <2>a, <4>1, <4>2, ArrivalEffect
    <3> QED BY <3>1
  <2>2. CASE Render
    <3>1. where'.order = post.order /\ last' = last /\ post.at \in Arrived
      <4>1. post.at \in Arrived /\ Unmount([at |-> "query", order |-> post.order])
        BY <2>2, RenderEffect
      <4>2. where' = [at |-> "query", order |-> post.order]
        BY <4>1 DEF Unmount
      <4> QED BY <2>2, <4>1, <4>2, RenderEffect
    <3> QED BY <2>a, <3>1 DEF CodeIsLast
  <2>3. CASE CloseCode \/ Back \/ \E p \in polls : PollEnters(p)
    <3>1. where'.order = qr /\ last' = last
      BY <2>3, <2>a, ElsewhereEffect DEF Unmount
    <3>2. qr # None
      <4>1. CASE CloseCode
        BY <4>1 DEF CloseCode
      <4>2. CASE Back
        <5>1. where' = [at |-> "left", order |-> None]
          BY <4>2 DEF Back, GoElsewhere, Unmount
        <5> QED BY <5>1
      <4>3. ASSUME NEW p \in polls, PollEnters(p) PROVE qr # None
        BY <2>a, <4>3, QueryShape, PageAssumption
        DEF TypeOK, CodeIsLast, PollEnters, Running
      <4> QED BY <2>3, <4>1, <4>2, <4>3
    <3> QED BY <2>a, <3>1, <3>2 DEF CodeIsLast
  <2>4. CASE OrderFails
    BY <2>4 DEF OrderFails
  <2>5. CASE \/ TypeAnswer \/ Mistype \/ Submit \/ VerifyAccepts \/ VerifyRefuses
             \/ PostFails \/ ClickRefresh
             \/ SendPoll \/ StopPolling \/ EditPassword \/ DeadlinePasses
    BY <2>5 DEF TypeAnswer, Mistype, Submit, VerifyAccepts, VerifyRefuses, PostFails,
                ClickRefresh, SendPoll, StopPolling, EditPassword, DeadlinePasses
  <2>6. CASE \/ \E c \in Challenge : Repeat(c) \/ Forget(c)
             \/ \E f \in fetches : \/ \E c \in Challenge : Issue(f, c)
                                   \/ FetchReturns(f) \/ FetchFails(f)
             \/ \E o \in Order : PlaceOrder(o)
             \/ \E p \in polls : PollIgnored(p)
    BY <2>6 DEF Repeat, Forget, Issue, FetchReturns, FetchFails, PlaceOrder, PollIgnored
  <2> QED
    BY <2>1, <2>2, <2>3, <2>4, <2>5, <2>6 DEF Next, PageNext
<1> QED
  BY <1>1, PageInvariance, PTL DEF Spec, GoesToLastOrder

=============================================================================
