--------------------------- MODULE GatewayProofs ----------------------------
(***************************************************************************)
(* The forwarding routine for any number of calls, wishes and plans, any       *)
(* session length and any width of int32.                                   *)
(***************************************************************************)
EXTENDS Gateway, TLAPS

LEMMA Constants ==
  /\ None \notin Calls /\ None # Blank /\ Blank \notin Calls /\ Zero \notin Calls /\ Zero # None
  /\ None \notin Int
  /\ Calls = Direct \cup Proxied /\ Direct \cap Proxied = {}
  /\ MaxTokens \in Nat \ {0} /\ MaxInt \in Nat \ {0} /\ DefaultLimit \in Int
  /\ Numbers \subseteq Int
  /\ \A c \in Calls : Wishes[c] \subseteq Request
  BY ApiAssumption, ClientAssumption, GatewayAssumption

-----------------------------------------------------------------------------
(* What the operators return.                                               *)

LEMMA ObjectTyped ==
  ASSUME NEW c \in Calls, NEW o \in Object, NEW r \in Request
  PROVE  Configured(o, c, r) \in Object
<1>1. r.params \in Params /\ r.token \in Tokens \cup {Forged} /\ o.params \in Params
  BY DEF Request, Object
<1>2. [f \in DOMAIN o.params |->
         CASE o.params[f] # None                        -> o.params[f]
           [] f = "token" /\ r.scheme = "query" -> r.token
           [] OTHER                              -> r.params[f]] \in Params
  BY <1>1 DEF Params
<1> QED  BY <1>1, <1>2 DEF Configured, Object

LEMMA OverridesTyped ==
  ASSUME NEW c \in Calls, NEW o \in Object, session \in Tokens
  PROVE  /\ SetOverrides(o, c) \in Object
         /\ LET p == SetOverrides(o, c)
            IN  [ids |-> p.ids, auth |-> p.auth, params |-> p.params] \in Headers
  BY DEF SetOverrides, WithRequestID, WithAuthorization, Object, Headers

LEMMA KeepsTyped ==
  ASSUME NEW c \in Calls, NEW o \in Object, object \in [Calls -> Object], Keeps(c, o)
  PROVE  object' \in [Calls -> Object]
  BY DEF Keeps

LEMMA Int32Range ==
  ASSUME NEW n \in Int
  PROVE  Int32(n) \in Int
<1>1. 2 * (MaxInt + 1) \in Nat \ {0} /\ n + MaxInt + 1 \in Int
  BY Constants
<1> DEFINE w == 2 * (MaxInt + 1)
           m == n + MaxInt + 1
<1>2. m % w \in Int
  <2> HIDE DEF w, m
  <2> QED  BY <1>1 DEF w, m
<1> QED  BY <1>2, Constants DEF Int32

LEMMA GivenOr ==
  ASSUME NEW v \in Numbers \cup {None}, NEW d \in Int
  PROVE  (IF v = None THEN d ELSE v) \in Int
  BY Constants

LEMMA QueryIntRange ==
  ASSUME NEW v \in Numbers \cup {None}, NEW d \in Int
  PROVE  QueryInt(v, d) \in Int
<1>1. (IF v = None THEN d ELSE v) \in Int
  BY GivenOr
<1> QED  BY <1>1, Int32Range DEF QueryInt

LEMMA ListParamTyped ==
  ASSUME NEW q \in Params
  PROVE  ListParam(q) \in [limit : Int, offset : Int]
<1> DEFINE limit  == QueryInt(q.limit, DefaultLimit)
           offset == QueryInt(q.offset, 0)
           page   == QueryInt(q.page, 1)
<1>1. limit \in Int /\ offset \in Int /\ page \in Int
  <2>1. q.limit \in Numbers \cup {None} /\ q.offset \in Numbers \cup {None}
        /\ q.page \in Numbers \cup {None}
    BY DEF Params
  <2>2. 0 \in Int /\ 1 \in Int /\ DefaultLimit \in Int
    BY Constants
  <2> QED  BY ONLY <2>1, <2>2, QueryIntRange DEF limit, offset, page
<1> HIDE DEF limit, offset, page
<1>2. limit * Int32(page - 1) \in Int
  BY <1>1, Int32Range
<1>3. Int32(limit * Int32(page - 1)) \in Int
  BY <1>2, Int32Range
<1> QED  BY <1>1, <1>3 DEF ListParam, limit, offset, page

LEMMA PageRange ==
  ASSUME NEW p \in [limit : Int, offset : Int]
  PROVE  Page(p) \in Nat
<1>1. ASSUME p.offset > 0, p.limit > 0 PROVE p.offset \div p.limit \in Nat
  <2>1. p.offset \in Nat /\ p.limit \in Nat \ {0}
    BY <1>1
  <2> QED  BY <2>1
<1> QED  BY <1>1 DEF Page

LEMMA HttpRange ==
  ASSUME NEW e \in RoutineErrors \cup {"load"}
  PROVE  Http(e) \in {400, 401, 404, 500}
  BY DEF Http, RoutineErrors, SqlQueryError

LEMMA AnswersTyped ==
  /\ \A status \in {400, 401, 404, 500}, shape \in Shapes : Answer(status, shape) \in Answers
  /\ \A data \in Calls \cup {None}, page \in Nat : DataResponse(data, page) \in Answers
  /\ Recovered \in Answers
  BY DEF Answer, DataResponse, Answers, Shapes, Recovered

LEMMA GetResponseTyped ==
  ASSUME NEW a \in Answers, NEW list \in BOOLEAN
  PROVE  /\ GetResponse(a, list) \in Response
         /\ GetResponse(a, list).data \in {a.data, Zero, None}
         /\ GetResponse(a, list).error = FALSE
  BY DEF GetResponse, Answers, Shapes, Response, Data
-----------------------------------------------------------------------------
(* Before it sends, a call is unknown to the service; after it is answered     *)
(* there is an answer, and a reply after Request.                            *)
Early == {"idle", "load", "loaded", "param", "ready"}
Late  == {"replied", "errorLeft", "dataLeft", "assigned", "failing", "parsing", "parsed"}

Progress ==
    \A c \in Calls :
        /\ pc[c] \in Early => at[c] = "none"
        /\ pc[c] \in Late => reply[c] \in Response
        /\ at[c] = "answered" => answer[c] \in Answers
        /\ at[c] \in {"none", "wire", "guard"} => user[c] = None /\ served[c] = None
        /\ at[c] = "route" => served[c] = None
        /\ pc[c] = "idle" => result[c].out = Zero
        /\ c \in Direct => pc[c] \in {"idle", "ready", "waiting", "replied", "done"}

(* TypeOK, step by step.                                                    *)

LEMMA BodyIsASender ==
  ASSUME TypeOK, NEW c \in Calls, Body(c) = "valid"
  PROVE  sent[c] \in Calls
  BY Constants DEF Body, TypeOK, ApiTypeOK

USE DEF Points

LEMMA TypeStarts ==
  ASSUME TypeOK, NEW c \in Calls, Starts(c)
  PROVE  TypeOK'
<1> USE DEF TypeOK, ApiTypeOK, ClientTypeOK, service, fixed, closure, Asks, Goes
<1>1. CASE StartDirect(c)
  <2> USE DEF StartDirect
  <2>1. PICK r \in Wishes[c] : Asks(c, r) /\ Keeps(c, Configured(object[c], c, r))
    BY <1>1
  <2>2. r \in Request
    BY Constants
  <2>3. object' \in [Calls -> Object]
    BY <2>1, <2>2, ObjectTyped, KeepsTyped
  <2> QED  BY <1>1, <2>1, <2>2, <2>3
<1>2. CASE StartProxied(c)
  <2> USE DEF StartProxied
  <2>1. PICK r \in Wishes[c] : Asks(c, r)
    BY <1>2
  <2>2. r \in Request
    BY Constants
  <2>3. pc' \in [Calls -> Points]
    BY <1>2
  <2>5. result' \in [Calls -> [error : Calls \cup {None}, out : Calls \cup {Zero}]]
    BY <1>2
  <2>4. overlapped' \in [Calls -> BOOLEAN]
    BY <1>2, Zenon
  <2> QED  BY <1>2, <2>1, <2>2, <2>3, <2>4, <2>5
<1> QED  BY <1>1, <1>2 DEF Starts

LEMMA TypeRequests ==
  ASSUME TypeOK, Progress, NEW c \in Calls, Requests(c) \/ GivesUp(c)
  PROVE  TypeOK'
<1> USE DEF TypeOK, ApiTypeOK, ClientTypeOK, wire, service, fixed, closure, Replies
<1>1. Failure \in Response
  BY DEF Failure, Response, Data
<1>2. CASE BadUrl(c) /\ UNCHANGED <<fixed, closure, result, overlapped>>
  BY <1>1, <1>2 DEF BadUrl
<1>3. CASE BadBody(c, BodyOf(c)) /\ UNCHANGED <<fixed, closure, result, overlapped>>
  <2>1. object' \in [Calls -> Object]
    BY <1>3, OverridesTyped, KeepsTyped DEF BadBody
  <2> QED  BY <1>1, <1>3, <2>1 DEF BadBody
<1>4. CASE Send(c, BodyOf(c)) /\ UNCHANGED <<fixed, closure, result, overlapped>>
  <2>1. object' \in [Calls -> Object] /\ carried' \in [Calls -> Headers]
    BY <1>4, OverridesTyped, KeepsTyped DEF Send
  <2>2. BodyOf(c) \in Calls \cup {Blank, None}
    BY DEF BodyOf, Object
  <2> QED  BY <1>4, <2>1, <2>2 DEF Send
<1>5. CASE GetAnswer(c) /\ UNCHANGED <<fixed, closure, result, overlapped>>
  <2>1. answer[c] \in Answers
    BY <1>5 DEF GetAnswer, Progress
  <2>2. GetResponse(answer[c], request[c].route = "list") \in Response
    BY <2>1, GetResponseTyped
  <2> QED  BY <1>5, <2>2 DEF GetAnswer
<1>6. CASE GivesUp(c)
  BY <1>1, <1>6 DEF GivesUp, DoFails
<1> QED  BY <1>2, <1>3, <1>4, <1>5, <1>6 DEF Requests, RequestSteps

LEMMA TypeRoutine ==
  ASSUME TypeOK, Progress, NEW c \in Calls, ReturnDirect(c) \/ Routine(c)
  PROVE  TypeOK'
<1> USE DEF TypeOK, ApiTypeOK, ClientTypeOK, wire, service, fixed, closure, outside, Goes, Returns
<1>1. CASE ReturnDirect(c)
  BY <1>1 DEF ReturnDirect
<1>2. CASE LoadParam(c)
  BY <1>2 DEF LoadParam
<1>6. CASE TestLoad(c)
  <2>1. CASE err # None
    BY <1>6, <2>1 DEF TestLoad
  <2>2. CASE err = None
    BY <1>6, <2>2 DEF TestLoad
  <2> QED  BY <2>1, <2>2
<1>7. CASE TestParam(c)
  <2>1. CASE param # None
    BY <1>7, <2>1 DEF TestParam
  <2>2. CASE param = None /\ HasParam(c)
    BY <1>7, <2>2 DEF TestParam
  <2>3. CASE param = None /\ ~HasParam(c)
    <3>1. /\ param' = Blank /\ result' = [result EXCEPT ![c] = [error |-> c, out |-> Zero]]
          /\ pc' = [pc EXCEPT ![c] = "done"]
          /\ UNCHANGED <<outside, overlapped, err, resError, resData>>
      BY <1>7, <2>3 DEF TestParam
    <3> QED  BY <3>1
  <2> QED  BY <2>1, <2>2, <2>3
<1>3. CASE AssignError(c)
  BY <1>3 DEF AssignError
<1>8. CASE AssignData(c)
  <2>1. reply[c] \in Response
    BY <1>8 DEF AssignData, Progress, Late
  <2> QED  BY <1>8, <2>1 DEF AssignData, Response
<1>9. CASE TestResponse(c)
  BY <1>9 DEF TestResponse
<1>10. CASE Failing(c)
  BY <1>10 DEF Failing
<1>4. CASE Parse(c)
  BY <1>4 DEF Parse, Data
<1>5. CASE TestParse(c)
  BY <1>5 DEF TestParse
<1> QED  BY <1>1, <1>2, <1>3, <1>4, <1>5, <1>6, <1>7, <1>8, <1>9, <1>10 DEF Routine
LEMMA TypeService ==
  ASSUME TypeOK, NEW c \in Calls, ServiceSteps(c)
  PROVE  TypeOK' /\ (at'[c] = "answered" => answer'[c] \in Answers)
<1> USE DEF ServiceSteps, wire, fixed, closure
<1>1. ASSUME NEW a \in Answers, Writes(c, a)
      PROVE  /\ answer' \in [Calls -> Answers \cup {None}]
             /\ at' \in [Calls -> {"none", "wire", "guard", "route", "answered"}]
             /\ answer'[c] \in Answers
  BY <1>1 DEF Writes, TypeOK, ApiTypeOK
<1>2. ASSUME Runs(c) PROVE served' \in [Calls -> Served \cup {None}]
  <2>1. carried[c].params \in Params
    BY DEF TypeOK, ApiTypeOK, Headers
  <2> DEFINE p == IF request[c].route \in {"list", "one"} THEN ListParam(carried[c].params)
                  ELSE [limit |-> 0, offset |-> 0]
  <2>2. p \in [limit : Int, offset : Int]
    BY <2>1, ListParamTyped
  <2> HIDE DEF p
  <2>3. [user |-> user[c], limit |-> p.limit, offset |-> p.offset] \in Served
    BY <2>2 DEF Served, TypeOK, ApiTypeOK
  <2>4. served' = [served EXCEPT ![c] = [user |-> user[c], limit |-> p.limit, offset |-> p.offset]]
    BY <1>2 DEF Runs, p
  <2> QED  BY <2>3, <2>4 DEF TypeOK, ApiTypeOK
<1>3. CASE Receive(c)
  <2>1. PICK i \in carried[c].ids : logged' = [logged EXCEPT ![c] = i]
    BY <1>3 DEF Receive
  <2>2. i \in Calls
    BY DEF TypeOK, ApiTypeOK, Headers
  <2> QED  BY <1>3, <2>1, <2>2 DEF Receive, TypeOK, ApiTypeOK, ClientTypeOK
<1>4. CASE WithUser(c)
  <2>1. bodyRead' \in [Calls -> BOOLEAN]
    <3>1. FromBody(c) \in BOOLEAN
      BY DEF FromBody
    <3> QED  BY <1>4, <3>1 DEF WithUser, TypeOK, ApiTypeOK
  <2>2. ErrorResponse(Http("load")) \in Answers /\ Recovered \in Answers
    BY AnswersTyped, HttpRange DEF ErrorResponse, Shapes
  <2>3. PICK t \in TokensOf(c) :
          \/ Writes(c, ErrorResponse(Http("load"))) /\ UNCHANGED user
          \/ Writes(c, Recovered) /\ UNCHANGED user
          \/ /\ t = session
             /\ user' = [user EXCEPT ![c] = t]
             /\ at' = [at EXCEPT ![c] = "route"]
             /\ UNCHANGED answer
    BY <1>4 DEF WithUser
  <2>4. user' \in [Calls -> Tokens \cup {Forged, None}]
    BY <2>3 DEF TypeOK, ApiTypeOK
  <2>5. /\ answer' \in [Calls -> Answers \cup {None}]
        /\ at' \in [Calls -> {"none", "wire", "guard", "route", "answered"}]
        /\ at'[c] = "answered" => answer'[c] \in Answers
    BY <1>1, <2>2, <2>3 DEF TypeOK, ApiTypeOK
  <2> QED  BY <1>4, <2>1, <2>4, <2>5 DEF WithUser, TypeOK, ApiTypeOK, ClientTypeOK
<1>5. CASE Refuse(c)
  <2>1. ErrorResponse(Http("load")) \in Answers
    BY AnswersTyped, HttpRange DEF ErrorResponse, Shapes
  <2> QED  BY <1>1, <1>5, <2>1 DEF Refuse, TypeOK, ApiTypeOK, ClientTypeOK
<1>6. CASE Succeed(c)
  <2> DEFINE data == IF request[c].route = "body" THEN sent[c] ELSE c
             page == IF request[c].route = "list" THEN Page(ListParam(carried[c].params)) ELSE 0
  <2>1. data \in Calls \cup {None}
    <3>1. CASE request[c].route = "body"
      <4>1. Body(c) = "valid"
        BY <1>6, <3>1 DEF Succeed, LoadParamFromRequest, Validates
      <4> QED  BY <4>1, <3>1, BodyIsASender
    <3> QED  BY <3>1
  <2>2. page \in Nat
    <3>1. carried[c].params \in Params
      BY DEF TypeOK, ApiTypeOK, Headers
    <3> QED  BY <3>1, ListParamTyped, PageRange
  <2>3. DataResponse(data, page) \in Answers
    BY <2>1, <2>2, AnswersTyped
  <2>4. Runs(c) /\ Writes(c, DataResponse(data, page))
    BY <1>6 DEF Succeed
  <2> QED  BY <1>1, <1>2, <1>6, <2>3, <2>4 DEF Succeed, TypeOK, ApiTypeOK, ClientTypeOK
<1>7. CASE Fail(c)
  <2>1. PICK e \in RoutineErrors :
          Writes(c, IF request[c].route = "basic" THEN Answer(500, "text")
                    ELSE Answer(Http(e), "bare"))
    BY <1>7 DEF Fail
  <2>2. Answer(500, "text") \in Answers /\ Answer(Http(e), "bare") \in Answers
    BY AnswersTyped, HttpRange DEF Shapes
  <2>3. Runs(c)
    BY <1>7 DEF Fail
  <2> QED  BY <1>1, <1>2, <1>7, <2>1, <2>2, <2>3 DEF Fail, TypeOK, ApiTypeOK, ClientTypeOK
<1> QED  BY <1>3, <1>4, <1>5, <1>6, <1>7 DEF Serve

LEMMA TypeRenews ==
  ASSUME TypeOK, Renews
  PROVE  TypeOK'
BY Constants DEF TypeOK, ApiTypeOK, ClientTypeOK, Renews, Renew, Tokens, service, fixed, closure

LEMMA TypeStep ==
  ASSUME TypeOK, Progress, [Next]_vars
  PROVE  TypeOK'
<1>1. CASE UNCHANGED vars
  BY <1>1 DEF vars, wire, service, fixed, closure, TypeOK, ApiTypeOK, ClientTypeOK
<1>2. ASSUME NEW c \in Calls, Proceeds(c) PROVE TypeOK'
  BY <1>2, TypeRequests, TypeRoutine DEF Proceeds
<1> QED  BY <1>1, <1>2, TypeStarts, TypeService, TypeRenews DEF Next

-----------------------------------------------------------------------------
LEMMA ProgressStep ==
  ASSUME TypeOK, Progress, [Next]_vars
  PROVE  Progress'
<1> USE Constants DEF TypeOK, ApiTypeOK, ClientTypeOK, Progress, Early, Late
<1>1. CASE UNCHANGED vars
  BY <1>1 DEF vars, wire, service, fixed, closure
<1>2. CASE Renews
  BY <1>2 DEF Renews, Renew, service, fixed, closure
<1>3. ASSUME NEW c \in Calls, Starts(c) PROVE Progress'
  BY <1>3 DEF Starts, StartDirect, StartProxied, Goes, Asks, service, fixed, closure
<1>4. ASSUME NEW c \in Calls, Routine(c) \/ ReturnDirect(c)
      PROVE  /\ pc[c] \notin {"idle", "done"}
             /\ pc' = [pc EXCEPT ![c] = pc'[c]]
             /\ pc'[c] \in Early => pc[c] \in Early
             /\ pc'[c] \in Late => pc[c] \in Late
             /\ c \in Direct => pc'[c] = "done"
             /\ pc'[c] # "idle" /\ result' = [result EXCEPT ![c] = result'[c]]
             /\ UNCHANGED <<wire, service, object, reply>>
  BY <1>4 DEF Routine, ReturnDirect, LoadParam, TestLoad, TestParam, AssignError, AssignData,
     TestResponse, Failing, Parse, TestParse, Returns, Goes, outside
<1>5. ASSUME NEW c \in Calls, Routine(c) \/ ReturnDirect(c) PROVE Progress'
  BY <1>4, <1>5 DEF wire, service
<1>6. ASSUME NEW c \in Calls, NEW r \in Response, Replies(c, r), UNCHANGED <<wire, service, result>>
      PROVE  Progress'
  BY <1>6 DEF Replies, wire, service
<1>7. Failure \in Response
  BY DEF Failure, Response, Data
<1>8. ASSUME NEW c \in Calls, GivesUp(c) \/ Requests(c) PROVE Progress'
  <2>1. CASE BadUrl(c) \/ BadBody(c, BodyOf(c)) \/ DoFails(c)
    <3>1. Replies(c, Failure) /\ UNCHANGED <<wire, service, result>>
      BY <1>8, <2>1 DEF GivesUp, Requests, BadUrl, BadBody, DoFails
    <3> QED  BY <1>6, <1>7, <3>1
  <2>2. CASE Send(c, BodyOf(c))
    BY <1>8, <2>2 DEF Send, GivesUp, Requests
  <2>3. CASE GetAnswer(c)
    <3>1. answer[c] \in Answers
      BY <2>3 DEF GetAnswer
    <3>2. GetResponse(answer[c], request[c].route = "list") \in Response
      BY <3>1, GetResponseTyped
    <3> QED  BY <1>6, <1>8, <2>3, <3>2 DEF GetAnswer, GivesUp, Requests
  <2> QED  BY <1>8, <2>1, <2>2, <2>3 DEF GivesUp, Requests, RequestSteps
<1>9. ASSUME NEW c \in Calls, ServiceSteps(c) PROVE Progress'
  <2>1. at'[c] = "answered" => answer'[c] \in Answers
    BY <1>9, TypeService
  <2>2. UNCHANGED <<wire, pc, reply, result>>
    BY <1>9 DEF ServiceSteps, Serve, Receive, WithUser, Refuse, Succeed, Fail
  <2>3. ASSUME NEW d \in Calls \ {c}
        PROVE at'[d] = at[d] /\ answer'[d] = answer[d] /\ user'[d] = user[d] /\ served'[d] = served[d]
    BY <1>9 DEF ServiceSteps, Serve, Receive, WithUser, Refuse, Succeed, Fail, Writes, Runs
  <2>4. /\ at[c] # "none" /\ at'[c] # "none"
        /\ at'[c] \in {"none", "wire", "guard"} => user'[c] = None /\ served'[c] = None
        /\ at'[c] = "route" => served'[c] = None
    BY <1>9 DEF ServiceSteps, Serve, Receive, WithUser, Refuse, Succeed, Fail, Writes
  <2> QED  BY <2>1, <2>2, <2>3, <2>4
<1> QED  BY <1>1, <1>2, <1>3, <1>5, <1>8, <1>9 DEF Next, Proceeds

-----------------------------------------------------------------------------
LEMMA InitTyped ==
  Init => TypeOK /\ Progress
<1> SUFFICES ASSUME Init PROVE TypeOK /\ Progress
  OBVIOUS
<1> USE Constants DEF Init, ApiInit, ClientInit
<1>1. [ids |-> {}, auth |-> {}, params |-> Unset] \in Headers /\ NewClient \in Object
  BY DEF Headers, Object, Params, Unset, NewClient
<1>2. plan \in Plans /\ target \in Targets(Calls) \cup {None}
  <2>1. plan \subseteq Calls
    BY GatewayAssumption
  <2> QED  BY <2>1 DEF Targets
<1> QED  BY <1>1, <1>2 DEF TypeOK, ApiTypeOK, ClientTypeOK, Progress, Early, Late, Tokens, Data, NoResult
(* Every variable keeps its type, whatever the closure is torn into.          *)
THEOREM TypeCorrect == Spec => []TypeOK
<1>1. TypeOK /\ Progress /\ [Next]_vars => TypeOK' /\ Progress'
  BY TypeStep, ProgressStep
<1> QED  BY <1>1, InitTyped, PTL DEF Spec

-----------------------------------------------------------------------------
(* A call of the routine that runs alone finds in the closure what it left      *)
(* there: nobody else runs, and its overlap would be noted.                   *)
Alone(c) == Running(c) /\ ~overlapped[c]

(* The answer to c, if c sent its own parameter.                             *)
Own(c, data) == data \in {c, Zero, None} /\ (data = c => at[c] = "answered" /\ sent[c] = c)

ErrorOf(c) == IF reply[c].error THEN c ELSE None

Mine(c) ==
    /\ pc[c] = "loaded" => err = IF HasParam(c) THEN None ELSE c
    /\ pc[c] = "loaded" => param = IF HasParam(c) THEN c ELSE None
    /\ pc[c] \in {"param", "ready"} => param = c
    /\ pc[c] = "waiting" => sent[c] = c
    /\ pc[c] \in Late => Own(c, reply[c].data)
    /\ pc[c] \in {"dataLeft", "assigned"} => resError = ErrorOf(c)
    /\ pc[c] \in {"errorLeft", "assigned", "parsing"} => resData = reply[c].data
    /\ pc[c] = "failing" => resError = c
    /\ pc[c] = "parsed" => err \in {c, None} /\ Own(c, result[c].out) /\ result[c].out # None
    /\ pc[c] = "parsed" /\ reply[c].data = None => err = c

Outcome(c) ==
    pc[c] = "done" /\ ~overlapped[c] =>
        /\ result[c].error \in {c, None}
        /\ result[c].out \in {c, Zero}
        /\ result[c].out = c => at[c] = "answered" /\ sent[c] = c
        /\ reply[c] # None /\ reply[c].data = None => result[c].error = c

Answered == \A c \in Calls : at[c] = "answered" => answer[c].data \in {c, sent[c], None}

AloneIsMine ==
    \A c \in Proxied : Alone(c) => Mine(c) /\ \A d \in Proxied \ {c} : ~Running(d)

IInv == TypeOK /\ Progress /\ Answered /\ AloneIsMine /\ \A c \in Proxied : Outcome(c)
LEMMA Sending ==
  ASSUME NEW c \in Calls, Proceeds(c)
  PROVE  Running(c)
BY DEF Proceeds, Requests, RequestSteps, BadUrl, BadBody, Send, GetAnswer, GivesUp, DoFails,
   ReturnDirect, Routine, LoadParam, TestLoad, TestParam, AssignError, AssignData,
   TestResponse, Failing, Parse, TestParse, Running

(* What the steps of d leave alone of another call.                          *)
LEMMA Frame ==
  ASSUME TypeOK, NEW c \in Calls, NEW d \in Calls \ {c},
         Starts(d) \/ Proceeds(d) \/ ServiceSteps(d)
  PROVE  /\ pc'[c] = pc[c] /\ reply'[c] = reply[c] /\ result'[c] = result[c]
         /\ request'[c] = request[c] /\ sent'[c] = sent[c]
         /\ at'[c] = at[c] /\ answer'[c] = answer[c]
         /\ overlapped[c] => overlapped'[c]
         /\ ~Running(c) => overlapped'[c] = overlapped[c]
<1> USE DEF TypeOK, ApiTypeOK, ClientTypeOK, wire, service, fixed, closure
<1>1. CASE StartDirect(d)
  BY <1>1 DEF StartDirect, Asks, Goes
<1>2. CASE StartProxied(d)
  <2>1. /\ overlapped' = [e \in Calls |-> overlapped[e] \/
               ({b \in Proxied \ {d} : Running(b)} # {} /\
                e \in {b \in Proxied \ {d} : Running(b)} \cup {d})]
        /\ UNCHANGED <<sent, service, reply>>
    BY <1>2 DEF StartProxied
  <2>2. request'[c] = request[c] /\ pc'[c] = pc[c] /\ result'[c] = result[c]
    BY <1>2 DEF StartProxied, Asks, Goes
  <2> QED  BY <2>1, <2>2
<1>3. CASE Requests(d) \/ GivesUp(d)
  BY <1>3 DEF Requests, RequestSteps, BadUrl, BadBody, Send, GetAnswer, GivesUp, DoFails, Replies
<1>4. CASE ReturnDirect(d) \/ Routine(d)
  BY <1>4 DEF ReturnDirect, Routine, LoadParam, TestLoad, TestParam, AssignError, AssignData,
     TestResponse, Failing, Parse, TestParse, Returns, Goes, outside
<1>5. CASE ServiceSteps(d)
  BY <1>5 DEF ServiceSteps, Serve, Receive, WithUser, Refuse, Succeed, Fail, Writes, Runs
<1> QED  BY <1>1, <1>2, <1>3, <1>4, <1>5 DEF Starts, Proceeds

(* A step of another call either leaves the closure alone or is noted.        *)
LEMMA OtherStep ==
  ASSUME IInv, NEW c \in Proxied, NEW d \in Calls \ {c},
         Starts(d) \/ Proceeds(d) \/ ServiceSteps(d)
  PROVE  /\ Outcome(c)'
         /\ Alone(c)' => Mine(c)' /\ \A e \in Proxied \ {c} : ~Running(e)'
<1> USE Constants
<1>1. /\ pc'[c] = pc[c] /\ reply'[c] = reply[c] /\ result'[c] = result[c]
      /\ request'[c] = request[c] /\ sent'[c] = sent[c]
      /\ at'[c] = at[c] /\ answer'[c] = answer[c]
      /\ overlapped[c] => overlapped'[c]
      /\ ~Running(c) => overlapped'[c] = overlapped[c]
  BY Frame DEF IInv
<1>2. Outcome(c)'
  <2>1. Outcome(c)
    BY DEF IInv
  <2> QED  BY <1>1, <2>1 DEF Outcome, Running
<1>3. ASSUME Alone(c)' PROVE Mine(c)' /\ \A e \in Proxied \ {c} : ~Running(e)'
  <2>1. Alone(c) /\ Mine(c) /\ \A e \in Proxied \ {c} : ~Running(e)
    <3>1. Alone(c)
      BY <1>1, <1>3 DEF Alone, Running
    <3> QED  BY <3>1 DEF IInv, AloneIsMine
  <2>2. ~StartProxied(d)
    <3>1. ASSUME StartProxied(d) PROVE overlapped'[c]
      <4>1. c \in {b \in Proxied \ {d} : Running(b)}
        BY <2>1 DEF Alone
      <4>2. overlapped' = [e \in Calls |-> overlapped[e] \/
               ({b \in Proxied \ {d} : Running(b)} # {} /\
                e \in {b \in Proxied \ {d} : Running(b)} \cup {d})]
        BY <3>1 DEF StartProxied
      <4> QED  BY <4>1, <4>2
    <3> QED  BY <3>1, <1>3 DEF Alone
  <2>3. d \in Direct \/ ServiceSteps(d)
    BY <2>1, <2>2, Sending DEF Starts, StartDirect
  <2>4. UNCHANGED closure
    <3>1. CASE ServiceSteps(d)
      BY <3>1 DEF ServiceSteps
    <3>2. CASE StartDirect(d)
      BY <3>2 DEF StartDirect
    <3>3. CASE Proceeds(d) /\ d \in Direct
      <4>1. ~Routine(d)
        <5>1. pc[d] \in {"idle", "ready", "waiting", "replied", "done"} /\ d \notin Proxied
          BY <3>3 DEF IInv, Progress
        <5> QED  BY <5>1 DEF Routine, LoadParam, TestLoad, TestParam, AssignError,
                    AssignData, TestResponse, Failing, Parse, TestParse
      <4> QED  BY <3>3, <4>1 DEF Proceeds, Requests, GivesUp, ReturnDirect
    <3> QED  BY <2>2, <2>3, <3>1, <3>2, <3>3 DEF Starts
  <2>5. Mine(c)'
    <3>1. /\ HasParam(c)' = HasParam(c) /\ ErrorOf(c)' = ErrorOf(c)
          /\ Own(c, reply[c].data)' = Own(c, reply[c].data)
          /\ Own(c, result[c].out)' = Own(c, result[c].out)
      BY <1>1 DEF HasParam, ErrorOf, Own
    <3> QED  BY <1>1, <2>1, <2>4, <3>1 DEF Mine, closure
  <2>6. ASSUME NEW e \in Proxied \ {c} PROVE ~Running(e)'
    <3>1. CASE e # d
      <4>1. pc'[e] = pc[e]
        BY <3>1, Frame DEF IInv
      <4> QED  BY <2>1, <4>1 DEF Running
    <3>2. CASE e = d
      <4>1. ServiceSteps(d)
        BY <2>3, <3>2
      <4> QED  BY <2>1, <3>2, <4>1 DEF ServiceSteps, Running
    <3> QED  BY <3>1, <3>2
  <2> QED  BY <2>5, <2>6
<1> QED  BY <1>2, <1>3
(* A call of the routine itself.                                            *)
LEMMA OwnStep ==
  ASSUME IInv, NEW c \in Proxied, Starts(c) \/ Proceeds(c) \/ ServiceSteps(c)
  PROVE  Outcome(c)' /\ (Alone(c)' => Mine(c)')
<1> USE Constants DEF IInv, TypeOK, ApiTypeOK, ClientTypeOK
<1> DEFINE Goal == Outcome(c)' /\ (Alone(c)' => Mine(c)')
<1>1. ASSUME Proceeds(c) \/ ServiceSteps(c), Running(c), ~overlapped'[c]
      PROVE  Alone(c) /\ Mine(c)
  <2>1. overlapped' = overlapped
    BY <1>1 DEF Proceeds, Requests, GivesUp, ReturnDirect, Routine, LoadParam, TestLoad, TestParam,
       AssignError, AssignData, TestResponse, Failing, Parse, TestParse, Returns, ServiceSteps
  <2> QED  BY <1>1, <2>1 DEF Alone, AloneIsMine
<1> HIDE DEF IInv
<1> USE DEF Alone, Running, Mine, Outcome
<1>2. CASE Starts(c)
  <2>1. StartProxied(c)
    BY <1>2 DEF Starts, StartDirect
  <2>2. CASE target.url = "none"
    <3>1. pc' = [pc EXCEPT ![c] = "done"] /\ result' = [result EXCEPT ![c].error = c]
      BY <2>1, <2>2 DEF StartProxied, Goes
    <3>2. result[c].out = Zero
      BY <2>1 DEF StartProxied, IInv, Progress
    <3> QED  BY <3>1, <3>2 DEF IInv
  <2>3. CASE target.url # "none"
    <3>1. pc' = [pc EXCEPT ![c] = "load"]
      BY <2>1, <2>3 DEF StartProxied, Goes
    <3> QED  BY <3>1 DEF IInv, Late
  <2> QED  BY <2>2, <2>3
<1>3. CASE ServiceSteps(c)
  <2>1. /\ UNCHANGED <<pc, reply, result, closure, overlapped, request, sent>>
        /\ at[c] # "answered"
    BY <1>3 DEF ServiceSteps, Serve, Receive, WithUser, Refuse, Succeed, Fail, wire
  <2>2. Outcome(c)'
    <3>1. Outcome(c)
      BY DEF IInv
    <3> QED  BY <2>1, <3>1
  <2>3. ASSUME Alone(c)' PROVE Mine(c)'
    <3>1. Mine(c)
      BY <1>1, <1>3, <2>1, <2>3
    <3> QED  BY <2>1, <3>1 DEF Own, HasParam, ErrorOf, closure
  <2> QED  BY <2>2, <2>3
<1>4. CASE (BadUrl(c) \/ BadBody(c, BodyOf(c)) \/ DoFails(c)) /\ UNCHANGED overlapped
  <2>1. pc' = [pc EXCEPT ![c] = "replied"] /\ reply' = [reply EXCEPT ![c] = Failure]
    BY <1>4 DEF BadUrl, BadBody, DoFails, Replies
  <2> QED  BY <2>1 DEF IInv, Own, Failure, Late
<1>5. CASE Send(c, BodyOf(c)) /\ UNCHANGED <<fixed, closure, result, overlapped>>
  <2>1. ASSUME Alone(c)' PROVE BodyOf(c) = c
    <3>1. param = c
      BY <1>1, <1>5, <2>1 DEF Proceeds, Requests, RequestSteps, Send
    <3> QED  BY <3>1 DEF BodyOf
  <2>2. pc' = [pc EXCEPT ![c] = "waiting"] /\ sent' = [sent EXCEPT ![c] = BodyOf(c)]
    BY <1>5 DEF Send
  <2> QED  BY <2>1, <2>2 DEF IInv, Late
<1>6. CASE GetAnswer(c) /\ UNCHANGED <<fixed, closure, result, overlapped>>
  <2>1. /\ pc' = [pc EXCEPT ![c] = "replied"] /\ UNCHANGED <<at, sent>>
        /\ reply' = [reply EXCEPT ![c] = GetResponse(answer[c], request[c].route = "list")]
        /\ pc[c] = "waiting" /\ at[c] = "answered"
    BY <1>6 DEF GetAnswer, Replies, wire, service
  <2>2. ASSUME Alone(c)' PROVE sent[c] = c
    BY <1>1, <1>6, <2>1, <2>2 DEF Proceeds, Requests
  <2>3. answer[c] \in Answers /\ answer[c].data \in {c, sent[c], None}
    BY <2>1 DEF IInv, Progress, Answered
  <2>4. reply'[c].data \in {answer[c].data, Zero, None}
    BY <2>1, <2>3, GetResponseTyped DEF IInv
  <2> QED  BY <2>1, <2>2, <2>3, <2>4 DEF IInv, Own, Late
<1>7. CASE Routine(c)
  <2>1. /\ UNCHANGED <<request, sent, at, reply>>
        /\ Running(c) /\ overlapped' = overlapped
        /\ Alone(c) => Mine(c)
    BY <1>1, <1>7 DEF Proceeds, Routine, LoadParam, TestLoad, TestParam, AssignError, AssignData,
       TestResponse, Failing, Parse, TestParse, Returns, outside, wire, service, IInv, AloneIsMine
  <2>2. HasParam(c)' = HasParam(c) /\ ErrorOf(c)' = ErrorOf(c) /\ (Own(c, reply[c].data)' <=> Own(c, reply[c].data))
    BY <2>1 DEF HasParam, ErrorOf, Own
  <2> USE <2>1, <2>2 DEF IInv, Goes, Returns, Late
  <2>3. CASE LoadParam(c)
    BY <2>3 DEF LoadParam
  <2>4. CASE TestLoad(c)
    <3>1. CASE err # None
      BY <2>4, <3>1 DEF TestLoad
    <3>2. CASE err = None
      BY <2>4, <3>2 DEF TestLoad, closure
    <3> QED  BY <3>1, <3>2
  <2>5. CASE TestParam(c)
    <3>1. CASE param # None
      BY <2>5, <3>1 DEF TestParam, closure
    <3>2. CASE param = None
      BY <2>5, <3>2 DEF TestParam
    <3> QED  BY <3>1, <3>2
  <2>6. CASE AssignError(c)
    <3>1. resError' = ErrorOf(c) /\ resData' = resData /\ result' = result
      BY <2>6 DEF AssignError, ErrorOf
    <3>2. CASE pc[c] = "replied"
      BY <2>6, <3>1, <3>2 DEF AssignError
    <3>3. CASE pc[c] = "errorLeft"
      BY <2>6, <3>1, <3>3 DEF AssignError
    <3> QED  BY <2>6, <3>2, <3>3 DEF AssignError
  <2>7. CASE AssignData(c)
    BY <2>7 DEF AssignData
  <2>8. CASE TestResponse(c)
    BY <2>8 DEF TestResponse, closure, ErrorOf
  <2>9. CASE Failing(c)
    BY <2>9 DEF Failing
  <2>10. CASE Parse(c)
    BY <2>10 DEF Parse, Own
  <2>11. CASE TestParse(c)
    BY <2>11 DEF TestParse, Own
  <2> QED  BY <1>7, <2>3, <2>4, <2>5, <2>6, <2>7, <2>8, <2>9, <2>10, <2>11 DEF Routine
<1> QED  BY <1>2, <1>3, <1>4, <1>5, <1>6, <1>7, Constants
         DEF Proceeds, Requests, RequestSteps, GivesUp, ReturnDirect

(* Nobody else runs when a call that is alone has taken a step.               *)
LEMMA StillAlone ==
  ASSUME IInv, NEW c \in Proxied, Starts(c) \/ Proceeds(c) \/ ServiceSteps(c), Alone(c)'
  PROVE  \A e \in Proxied \ {c} : ~Running(e)'
<1> USE Constants
<1>1. ASSUME NEW e \in Proxied \ {c} PROVE pc'[e] = pc[e]
  BY <1>1, Frame DEF IInv
<1>2. ASSUME NEW e \in Proxied \ {c}, Running(e) PROVE FALSE
  <2>1. CASE Starts(c)
    <3>1. overlapped' = [d \in Calls |-> overlapped[d] \/
             ({b \in Proxied \ {c} : Running(b)} # {} /\
              d \in {b \in Proxied \ {c} : Running(b)} \cup {c})]
      BY <2>1 DEF Starts, StartDirect, StartProxied
    <3>2. e \in {b \in Proxied \ {c} : Running(b)}
      BY <1>2
    <3> QED  BY <3>1, <3>2, Alone(c)' DEF Alone
  <2>2. CASE Proceeds(c) \/ ServiceSteps(c)
    <3>1. overlapped' = overlapped
      BY <2>2 DEF Proceeds, Requests, GivesUp, ReturnDirect, Routine, LoadParam, TestLoad, TestParam,
         AssignError, AssignData, TestResponse, Failing, Parse, TestParse, Returns, ServiceSteps
    <3>2. Running(c)
      BY <2>2, Sending, Alone(c)' DEF Alone, ServiceSteps, Running
    <3> QED  BY <1>2, <3>1, <3>2, Alone(c)' DEF Alone, IInv, AloneIsMine
  <2> QED  BY <2>1, <2>2
<1> QED  BY <1>1, <1>2 DEF Running

LEMMA AnsweredStep ==
  ASSUME IInv, NEW c \in Calls, Starts(c) \/ Proceeds(c) \/ ServiceSteps(c)
  PROVE  Answered'
<1> USE Constants DEF IInv, TypeOK, ApiTypeOK, ClientTypeOK
<1>1. ASSUME NEW d \in Calls \ {c} PROVE at'[d] = "answered" => answer'[d].data \in {d, sent'[d], None}
  BY <1>1, Frame DEF Answered
<1>2. at'[c] = "answered" => answer'[c].data \in {c, sent'[c], None}
  <2>1. CASE ServiceSteps(c)
    BY <2>1 DEF ServiceSteps, Serve, Receive, WithUser, Refuse, Succeed, Fail, Writes, wire,
       Answer, DataResponse, ErrorResponse, Recovered
  <2>2. CASE Send(c, BodyOf(c))
    BY <2>2 DEF Send
  <2>3. CASE (Starts(c) \/ Proceeds(c)) /\ ~Send(c, BodyOf(c))
    <3>1. UNCHANGED <<at, answer, sent>>
      BY <2>3 DEF Starts, StartDirect, StartProxied, Proceeds, Requests, RequestSteps, BadUrl, BadBody,
         GetAnswer, GivesUp, DoFails, ReturnDirect, Routine, LoadParam, TestLoad, TestParam, AssignError,
         AssignData, TestResponse, Failing, Parse, TestParse, Returns, outside, wire, service
    <3> QED  BY <3>1 DEF Answered
  <2> QED  BY <2>1, <2>2, <2>3
<1> QED  BY <1>1, <1>2 DEF Answered

LEMMA InvariantStep ==
  ASSUME IInv, [Next]_vars
  PROVE  IInv'
<1>1. TypeOK' /\ Progress'
  BY TypeStep, ProgressStep DEF IInv
<1>2. CASE UNCHANGED vars
  <2>1. Answered' /\ AloneIsMine' /\ \A c \in Proxied : Outcome(c)'
    BY <1>2 DEF IInv, vars, wire, service, fixed, closure, Answered, AloneIsMine, Outcome, Alone,
       Running, Mine, Own, ErrorOf, HasParam
  <2> QED  BY <1>1, <2>1 DEF IInv
<1>3. CASE Renews
  <2>1. Answered' /\ AloneIsMine' /\ \A c \in Proxied : Outcome(c)'
    BY <1>3 DEF IInv, Renews, Renew, service, fixed, closure, Answered, AloneIsMine, Outcome, Alone,
       Running, Mine, Own, ErrorOf, HasParam
  <2> QED  BY <1>1, <2>1 DEF IInv
<1>4. ASSUME NEW d \in Calls, Starts(d) \/ Proceeds(d) \/ ServiceSteps(d) PROVE IInv'
  <2>1. ASSUME NEW c \in Proxied
        PROVE  Outcome(c)' /\ (Alone(c)' => Mine(c)' /\ \A e \in Proxied \ {c} : ~Running(e)')
    <3>1. CASE c = d
      BY <1>4, <3>1, OwnStep, StillAlone
    <3>2. CASE c # d
      BY <1>4, <3>2, OtherStep
    <3> QED  BY <3>1, <3>2
  <2> QED  BY <1>1, <1>4, <2>1, AnsweredStep DEF IInv, AloneIsMine
<1> QED  BY <1>2, <1>3, <1>4 DEF Next

LEMMA Always == Spec => []IInv
<1>1. Init => IInv
  <2> SUFFICES ASSUME Init PROVE IInv
    OBVIOUS
  <2>1. TypeOK /\ Progress
    BY InitTyped
  <2>2. \A c \in Calls : pc[c] = "idle" /\ at[c] = "none"
    BY DEF Init, ClientInit, ApiInit
  <2> QED  BY <2>1, <2>2, Constants DEF IInv, Answered, AloneIsMine, Alone, Running, Outcome
<1>2. IInv /\ [Next]_vars => IInv'
  BY InvariantStep
<1> QED  BY <1>1, <1>2, PTL DEF Spec

(* For any number of calls: a call of the routine that runs beside no other     *)
(* returns its own outcome.                                                 *)
THEOREM OwnAnswerUnlessOverlappedHolds == Spec => []OwnAnswerUnlessOverlapped
<1>1. IInv => OwnAnswerUnlessOverlapped
  BY DEF IInv, Outcome, OwnAnswerUnlessOverlapped
<1> QED  BY <1>1, Always, PTL

-----------------------------------------------------------------------------
(* What a call asks for does not change any more once it has begun.           *)
Asked(c) == pc[c] # "idle"

LEMMA StaysAsked ==
  ASSUME TypeOK, [Next]_vars, NEW c \in Calls, Asked(c)
  PROVE  Asked(c)' /\ request'[c] = request[c]
<1> USE Constants DEF TypeOK, ApiTypeOK, ClientTypeOK, Asked
<1>1. CASE UNCHANGED vars \/ Renews
  BY <1>1 DEF vars, wire, Renews, Renew
<1>2. ASSUME NEW d \in Calls, Starts(d) PROVE Asked(c)' /\ request'[c] = request[c]
  BY <1>2 DEF Starts, StartDirect, StartProxied, Goes, Asks
<1>3. ASSUME NEW d \in Calls, Proceeds(d) PROVE Asked(c)' /\ request'[c] = request[c]
  BY <1>3 DEF Proceeds, Requests, RequestSteps, BadUrl, BadBody, Send, GetAnswer, GivesUp, DoFails,
     Replies, ReturnDirect, Routine, LoadParam, TestLoad, TestParam, AssignError, AssignData,
     TestResponse, Failing, Parse, TestParse, Returns, Goes, outside, wire
<1>4. ASSUME NEW d \in Calls, ServiceSteps(d) PROVE Asked(c)' /\ request'[c] = request[c]
  BY <1>4 DEF ServiceSteps, Serve, Receive, WithUser, Refuse, Succeed, Fail, wire
<1> QED  BY <1>1, <1>2, <1>3, <1>4 DEF Next

(* What a client has heard is what the service wrote, to the end; and what      *)
(* the service writes without a Response around it has a status of an error    *)
(* and no data.                                                             *)
Heard ==
    \A c \in Calls :
        reply[c] # None =>
            /\ pc[c] \in Late \cup {"done"}
            /\ ~reply[c].error =>
                  /\ at[c] = "answered"
                  /\ reply[c] = GetResponse(answer[c], request[c].route = "list")

Bare ==
    \A c \in Calls :
        at[c] = "answered" /\ answer[c].shape \in {"bare", "empty"} =>
            answer[c].data = None /\ answer[c].status >= 400

(* The answer to a call stays, once it is written.                           *)
LEMMA AnswerStays ==
  ASSUME TypeOK, Progress, [Next]_vars, NEW c \in Calls, at[c] = "answered"
  PROVE  /\ at'[c] = "answered" /\ answer'[c] = answer[c] /\ served'[c] = served[c]
         /\ carried'[c] = carried[c] /\ request'[c] = request[c] /\ pc[c] # "idle"
<1> USE Constants DEF TypeOK, ApiTypeOK, ClientTypeOK
<1>1. pc[c] \notin Early
  BY DEF Progress
<1>2. request'[c] = request[c]
  BY <1>1, StaysAsked DEF Asked, Early
<1>3. CASE UNCHANGED vars \/ Renews
  BY <1>1, <1>2, <1>3 DEF vars, wire, service, Renews, Renew, Early
<1>4. ASSUME NEW d \in Calls, Send(d, BodyOf(d))
      PROVE  UNCHANGED <<answer, served>> /\ at'[c] = at[c] /\ carried'[c] = carried[c]
  BY <1>1, <1>4 DEF Send, Early
<1>5. ASSUME NEW d \in Calls, (Starts(d) \/ Proceeds(d)) /\ ~Send(d, BodyOf(d))
      PROVE  UNCHANGED <<at, answer, served, carried>>
  BY <1>5 DEF Starts, StartDirect, StartProxied, Proceeds, Requests, RequestSteps, BadUrl, BadBody,
     GetAnswer, GivesUp, DoFails, ReturnDirect, Routine, LoadParam, TestLoad, TestParam, AssignError,
     AssignData, TestResponse, Failing, Parse, TestParse, Returns, outside, wire, service
<1>6. ASSUME NEW d \in Calls, ServiceSteps(d)
      PROVE  /\ at'[c] = at[c] /\ answer'[c] = answer[c] /\ served'[c] = served[c]
             /\ carried' = carried
  BY <1>6 DEF ServiceSteps, Serve, Receive, WithUser, Refuse, Succeed, Fail, Writes, Runs, wire
<1> QED  BY <1>1, <1>2, <1>3, <1>4, <1>5, <1>6 DEF Next, Early

(* A call gets a reply once, of Request.                                     *)
LEMMA RepliesOnce ==
  ASSUME TypeOK, Progress, [Next]_vars, NEW c \in Calls
  PROVE  \/ reply'[c] = reply[c] /\ (pc[c] \in Late \cup {"done"} => pc'[c] \in Late \cup {"done"})
         \/ pc'[c] = "replied" /\ reply'[c] = Failure
         \/ /\ pc'[c] = "replied" /\ at[c] = "answered"
            /\ reply'[c] = GetResponse(answer[c], request[c].route = "list")
<1> USE Constants DEF TypeOK, ApiTypeOK, ClientTypeOK
<1>1. CASE UNCHANGED vars \/ Renews
  BY <1>1 DEF vars, wire, service, Renews, Renew
<1>2. ASSUME NEW d \in Calls \ {c}, Starts(d) \/ Proceeds(d) \/ ServiceSteps(d)
      PROVE  reply'[c] = reply[c] /\ pc'[c] = pc[c]
  BY <1>2, Frame
<1>3. CASE Starts(c) \/ ServiceSteps(c)
  BY <1>3 DEF Starts, StartDirect, StartProxied, Goes, ServiceSteps, Late
<1>4. CASE BadUrl(c) \/ BadBody(c, BodyOf(c)) \/ DoFails(c)
  BY <1>4 DEF BadUrl, BadBody, DoFails, Replies
<1>5. CASE Send(c, BodyOf(c))
  BY <1>5 DEF Send, Late
<1>6. CASE GetAnswer(c)
  BY <1>6 DEF GetAnswer, Replies
<1>7. CASE ReturnDirect(c) \/ Routine(c)
  BY <1>7 DEF ReturnDirect, Routine, LoadParam, TestLoad, TestParam, AssignError, AssignData,
     TestResponse, Failing, Parse, TestParse, Returns, Goes, outside, Late
<1> QED  BY <1>1, <1>2, <1>3, <1>4, <1>5, <1>6, <1>7
         DEF Next, Proceeds, Requests, RequestSteps, GivesUp

LEMMA HeardStep ==
  ASSUME TypeOK, Progress, Heard, [Next]_vars
  PROVE  Heard'
<1> SUFFICES ASSUME NEW c \in Calls, reply'[c] # None
             PROVE  /\ pc'[c] \in Late \cup {"done"}
                    /\ ~reply'[c].error =>
                         /\ at'[c] = "answered"
                         /\ reply'[c] = GetResponse(answer'[c], request'[c].route = "list")
  BY DEF Heard, GetResponse
<1>1. CASE reply'[c] = reply[c] /\ (pc[c] \in Late \cup {"done"} => pc'[c] \in Late \cup {"done"})
  BY <1>1, AnswerStays DEF Heard
<1>2. CASE pc'[c] = "replied" /\ reply'[c] = Failure
  BY <1>2 DEF Failure, Late
<1>3. CASE /\ pc'[c] = "replied" /\ at[c] = "answered"
           /\ reply'[c] = GetResponse(answer[c], request[c].route = "list")
  BY <1>3, AnswerStays DEF Late
<1> QED  BY <1>1, <1>2, <1>3, RepliesOnce

LEMMA BareStep ==
  ASSUME TypeOK, Progress, Bare, [Next]_vars
  PROVE  Bare'
<1> USE Constants DEF TypeOK, ApiTypeOK, ClientTypeOK
<1> SUFFICES ASSUME NEW c \in Calls, at'[c] = "answered", answer'[c].shape \in {"bare", "empty"}
             PROVE  answer'[c].data = None /\ answer'[c].status >= 400
  BY DEF Bare
<1>1. CASE at[c] = "answered"
  BY <1>1, AnswerStays DEF Bare
<1>2. CASE at[c] # "answered"
  <2>1. ~(UNCHANGED vars \/ Renews)
    BY <1>2 DEF vars, service, Renews, Renew
  <2>2. ASSUME NEW d \in Calls, (Starts(d) \/ Proceeds(d)) PROVE FALSE
    <3>1. at' = at \/ at' = [at EXCEPT ![d] = "wire"]
      BY <2>2 DEF Starts, StartDirect, StartProxied, Proceeds, Requests, RequestSteps, BadUrl, BadBody,
         Send, GetAnswer, GivesUp, DoFails, ReturnDirect, Routine, LoadParam, TestLoad, TestParam,
         AssignError, AssignData, TestResponse, Failing, Parse, TestParse, Returns, outside, wire, service
    <3> QED  BY <1>2, <3>1
  <2>3. PICK d \in Calls : ServiceSteps(d)
    BY <2>1, <2>2 DEF Next
  <2>4. d = c
    BY <1>2, <2>3, Frame
  <2>5. CASE Receive(c)
    BY <2>5 DEF Receive
  <2>6. CASE WithUser(c)
    <3>1. \/ answer'[c] = ErrorResponse(Http("load"))
          \/ answer'[c] = Recovered
          \/ at'[c] = "route"
      BY <2>6 DEF WithUser, Writes
    <3> QED  BY <3>1 DEF ErrorResponse, Answer, Recovered
  <2>7. CASE Refuse(c)
    BY <2>7 DEF Refuse, Writes, ErrorResponse, Answer
  <2>8. CASE Succeed(c)
    BY <2>8 DEF Succeed, Writes, DataResponse
  <2>9. CASE Fail(c)
    <3>1. PICK e \in RoutineErrors :
            answer'[c] = IF request[c].route = "basic" THEN Answer(500, "text")
                         ELSE Answer(Http(e), "bare")
      BY <2>9 DEF Fail, Writes
    <3>2. Http(e) >= 400
      BY HttpRange
    <3> QED  BY <3>1, <3>2 DEF Answer
  <2> QED  BY <2>3, <2>4, <2>5, <2>6, <2>7, <2>8, <2>9 DEF ServiceSteps, Serve
<1> QED  BY <1>1, <1>2

(* For any calls and routes: an error without a Response around it is a         *)
(* success neither to the client nor to the routine that forwarded to it.     *)
THEOREM BareErrorsStayErrorsHolds == Spec => []BareErrorsStayErrors
<1>1. Init => Heard /\ Bare
  BY DEF Init, ApiInit, ClientInit, Heard, Bare
<1>2. IInv /\ Heard /\ Bare /\ [Next]_vars => Heard' /\ Bare'
  BY HeardStep, BareStep DEF IInv
<1>3. IInv /\ Heard /\ Bare => BareErrorsStayErrors
  <2> SUFFICES ASSUME IInv, Heard, Bare, NEW c \in Calls,
                      reply[c] # None, ~reply[c].error, answer[c].shape \in {"bare", "empty"}
               PROVE  /\ ~reply[c].success
                      /\ c \in Proxied /\ pc[c] = "done" /\ ~overlapped[c] => result[c].error = c
    BY DEF BareErrorsStayErrors
  <2>1. /\ at[c] = "answered" /\ reply[c] = GetResponse(answer[c], request[c].route = "list")
        /\ answer[c].data = None /\ answer[c].status >= 400 /\ answer[c] \in Answers
    BY DEF Heard, Bare, IInv, Progress
  <2>2. ~(answer[c].status < 400)
    BY <2>1 DEF Answers
  <2>3. CASE answer[c].shape = "empty"
    <3>1. reply[c] = [error |-> FALSE, success |-> FALSE, data |-> None]
      BY <2>1, <2>3 DEF GetResponse
    <3> QED  BY <3>1 DEF IInv, Outcome
  <2>4. CASE answer[c].shape = "bare"
    <3> DEFINE fine == answer[c].status < 400
    <3>1. reply[c] = [error |-> FALSE, success |-> fine, data |-> None]
      BY <2>1, <2>4 DEF GetResponse
    <3>2. ~fine
      BY <2>2
    <3> HIDE DEF fine
    <3>3. ~reply[c].success /\ reply[c].data = None
      BY <3>1, <3>2
    <3> QED  BY <3>3 DEF IInv, Outcome
  <2> QED  BY <2>3, <2>4
<1> QED  BY <1>1, <1>2, <1>3, Always, PTL DEF Spec

-----------------------------------------------------------------------------
(* The object of a call of the routine is its own, from the first to the last  *)
(* step, and so is what it was sent with.                                    *)
Clean ==
    \A c \in Proxied :
        /\ object[c].ids \subseteq {c} /\ object[c].auth = {} /\ object[c].params = Unset
        /\ ~object[c].session
        /\ carried[c].ids \subseteq {c} /\ carried[c].auth = {} /\ carried[c].params = Unset
        /\ logged[c] \in {c, None}

LEMMA CleanStep ==
  ASSUME TypeOK, Clean, [Next]_vars
  PROVE  Clean'
<1> USE Constants DEF TypeOK, ApiTypeOK, ClientTypeOK
<1>1. CASE UNCHANGED vars
  BY <1>1 DEF vars, wire, service, Clean
<1>2. CASE Renews
  BY <1>2 DEF Renews, Renew, service, Clean
<1>3. ASSUME NEW c \in Calls, Starts(c) PROVE Clean'
  <2>1. CASE StartDirect(c)
    <3>1. \A d \in Proxied : object'[d] = object[d]
      BY <2>1 DEF StartDirect, Keeps, Sharers
    <3> QED  BY <2>1, <3>1 DEF StartDirect, service, Clean
  <2>2. CASE StartProxied(c)
    BY <2>2 DEF StartProxied, service, Clean
  <2> QED  BY <1>3, <2>1, <2>2 DEF Starts
<1>4. ASSUME NEW c \in Calls,
             BadBody(c, BodyOf(c)) \/ Send(c, BodyOf(c))
      PROVE  /\ \A d \in Proxied \ {c} : object'[d] = object[d]
             /\ c \in Proxied => object'[c] = SetOverrides(object[c], c)
  BY <1>4 DEF BadBody, Send, Keeps, Sharers
<1>5. ASSUME NEW c \in Proxied
      PROVE  LET o == SetOverrides(object[c], c)
             IN  o.ids \subseteq {c} /\ o.auth = {} /\ o.params = Unset /\ ~o.session
  BY DEF SetOverrides, WithRequestID, WithAuthorization, Clean, Object
<1>6. ASSUME NEW c \in Calls,
             BadBody(c, BodyOf(c)) \/ Send(c, BodyOf(c))
      PROVE  \A d \in Proxied : /\ object'[d].ids \subseteq {d} /\ object'[d].auth = {}
                                /\ object'[d].params = Unset /\ ~object'[d].session
  <2>1. /\ \A d \in Proxied \ {c} : object'[d] = object[d]
        /\ c \in Proxied => object'[c] = SetOverrides(object[c], c)
    BY <1>4, <1>6
  <2>2. c \in Proxied => /\ object'[c].ids \subseteq {c} /\ object'[c].auth = {}
                         /\ object'[c].params = Unset /\ ~object'[c].session
    BY <1>5, <2>1
  <2> QED  BY <2>1, <2>2 DEF Clean
<1>7. ASSUME NEW c \in Calls, Proceeds(c) PROVE Clean'
  <2>1. CASE BadBody(c, BodyOf(c))
    <3>1. carried' = carried /\ logged' = logged
      BY <2>1 DEF BadBody, wire, service
    <3> QED  BY <1>6, <2>1, <3>1 DEF Clean
  <2>2. CASE Send(c, BodyOf(c))
    <3>1. /\ \A d \in Proxied \ {c} : carried'[d] = carried[d]
          /\ logged' = logged
      BY <2>2 DEF Send
    <3>2. c \in Proxied => /\ carried'[c].ids \subseteq {c} /\ carried'[c].auth = {}
                           /\ carried'[c].params = Unset
      BY <1>5, <2>2 DEF Send
    <3> QED  BY <1>6, <2>2, <3>1, <3>2 DEF Clean
  <2>3. CASE ~BadBody(c, BodyOf(c)) /\ ~Send(c, BodyOf(c))
    <3>1. UNCHANGED <<object, carried, logged>>
      BY <1>7, <2>3 DEF Proceeds, Requests, RequestSteps, BadUrl, GetAnswer, GivesUp, DoFails,
         ReturnDirect, Routine, LoadParam, TestLoad, TestParam, AssignError, AssignData,
         TestResponse, Failing, Parse, TestParse, Returns, outside, wire, service
    <3> QED  BY <3>1 DEF Clean
  <2> QED  BY <2>1, <2>2, <2>3
<1>8. ASSUME NEW c \in Calls, ServiceSteps(c) PROVE Clean'
  <2>1. CASE Receive(c)
    BY <1>8, <2>1 DEF ServiceSteps, Receive, wire, Clean
  <2>2. CASE ~Receive(c)
    <3>1. UNCHANGED <<object, carried, logged>>
      BY <1>8, <2>2 DEF ServiceSteps, Serve, WithUser, Refuse, Succeed, Fail, wire
    <3> QED  BY <3>1 DEF Clean
  <2> QED  BY <2>1, <2>2
<1> QED  BY <1>1, <1>2, <1>3, <1>7, <1>8 DEF Next

(* For any number of calls of the routine and of kept clients beside it: what   *)
(* is sent with a client that was just made is the call's own.               *)
THEOREM NewClientsAreCleanHolds == Spec => []NewClientsAreClean
<1>1. Init => TypeOK /\ Progress /\ Clean
  BY InitTyped, Constants DEF Init, ApiInit, ClientInit, NewClient, Clean
<1>2. TypeOK /\ Progress /\ Clean /\ [Next]_vars => TypeOK' /\ Progress' /\ Clean'
  BY TypeStep, ProgressStep, CleanStep
<1>3. Clean => NewClientsAreClean
  BY DEF Clean, NewClientsAreClean
<1> QED  BY <1>1, <1>2, <1>3, PTL DEF Spec
-----------------------------------------------------------------------------
(* A body is made of the parameter of a call that was asked.                  *)
Senders ==
    /\ param \in Calls => Asked(param)
    /\ \A c \in Calls : /\ object[c].body \in Calls => Asked(object[c].body)
                        /\ sent[c] \in Calls => Asked(sent[c])

(* Where a token may have come from.                                         *)
Shown(c) ==
    carried[c].auth \cup {carried[c].params.token} \cup
    {request[d].token : d \in {sent[c]} \cap Calls}

Verified ==
    \A c \in Calls :
        /\ at[c] = "route" /\ request[c].guarded => user[c] \in 1 .. session /\ user[c] \in Shown(c)
        /\ served[c] # None /\ request[c].guarded =>
              served[c].user \in 1 .. session /\ served[c].user \in Shown(c)

LEMMA SendersStep ==
  ASSUME TypeOK, Senders, [Next]_vars
  PROVE  Senders'
<1> USE Constants DEF TypeOK, ApiTypeOK, ClientTypeOK
<1>1. \A c \in Calls : Asked(c) => Asked(c)'
  BY StaysAsked
<1>2. SUFFICES
        /\ param' \in {param, Blank, None} \/ (param' \in Calls /\ pc'[param'] # "idle")
        /\ \A d \in Calls : \/ object'[d].body = object[d].body
                            \/ object'[d].body \in Calls /\ pc'[object'[d].body] # "idle"
                            \/ \E e \in Calls : object'[d].body = object[e].body
        /\ \A d \in Calls : \/ sent'[d] = sent[d] \/ sent'[d] \in {Blank, None}
                            \/ sent'[d] \in Calls /\ pc'[sent'[d]] # "idle"
  BY <1>1, <1>2 DEF Senders, Asked
<1>3. CASE UNCHANGED vars \/ Renews
  BY <1>3 DEF vars, wire, closure, Renews, Renew
<1>4. ASSUME NEW c \in Calls, StartDirect(c)
      PROVE  /\ param' = param /\ sent' = sent
             /\ \A d \in Calls : \/ object'[d].body = object[d].body
                                 \/ object'[d].body \in Calls /\ pc'[object'[d].body] # "idle"
                                 \/ \E e \in Calls : object'[d].body = object[e].body
  <2>1. PICK r \in Wishes[c] : Keeps(c, Configured(object[c], c, r))
    BY <1>4 DEF StartDirect
  <2>2. Configured(object[c], c, r).body \in {object[c].body, c}
    BY DEF Configured, Object
  <2>3. Asked(c)' /\ param' = param /\ sent' = sent
    BY <1>4 DEF StartDirect, Goes, closure, Asked
  <2>4. \A d \in Calls : object'[d] \in {Configured(object[c], c, r), object[d]}
    BY <2>1 DEF Keeps
  <2>5. ASSUME NEW d \in Calls
        PROVE  \/ object'[d].body = object[d].body
               \/ object'[d].body \in Calls /\ pc'[object'[d].body] # "idle"
               \/ \E e \in Calls : object'[d].body = object[e].body
    <3>1. object'[d].body \in {object[d].body, object[c].body, c}
      BY <2>2, <2>4
    <3>2. CASE object'[d].body = c
      BY <2>3, <3>2 DEF Asked
    <3> QED  BY <3>1, <3>2
  <2> QED  BY <2>3, <2>5
<1>5. ASSUME NEW c \in Calls, StartProxied(c)
      PROVE  UNCHANGED <<param, sent, object>>
  BY <1>5 DEF StartProxied, closure
<1>6. ASSUME NEW c \in Calls, BadBody(c, BodyOf(c)) \/ Send(c, BodyOf(c))
      PROVE  \A d \in Calls : \E e \in Calls : object'[d].body = object[e].body
  <2>1. SetOverrides(object[c], c).body = object[c].body
    BY DEF SetOverrides, Object
  <2>2. \A d \in Calls : object'[d] \in {SetOverrides(object[c], c), object[d]}
    BY <1>6 DEF BadBody, Send, Keeps
  <2>3. \A d \in Calls : object'[d].body \in {object[c].body, object[d].body}
    BY <2>1, <2>2
  <2> QED  BY <2>3
<1>7. ASSUME NEW c \in Calls, Requests(c)
      PROVE  /\ param' = param
             /\ \A d \in Calls : \E e \in Calls : object'[d].body = object[e].body
             /\ \A d \in Calls : \/ sent'[d] = sent[d] \/ sent'[d] \in {Blank, None}
                                 \/ sent'[d] \in Calls /\ pc'[sent'[d]] # "idle"
  <2>1. CASE BadUrl(c) \/ GetAnswer(c)
    BY <1>7, <2>1 DEF Requests, BadUrl, GetAnswer, wire, closure
  <2>2. CASE BadBody(c, BodyOf(c))
    BY <1>6, <1>7, <2>2 DEF Requests, BadBody, wire, closure
  <2>3. CASE Send(c, BodyOf(c))
    <3>1. BodyOf(c) \in {Blank, None} \/ (BodyOf(c) \in Calls /\ Asked(BodyOf(c)))
      BY DEF BodyOf, Senders, Object
    <3>2. sent' = [sent EXCEPT ![c] = BodyOf(c)]
      BY <2>3 DEF Send
    <3> QED  BY <1>1, <1>6, <1>7, <2>3, <3>1, <3>2 DEF Requests, closure, Asked
  <2> QED  BY <1>7, <2>1, <2>2, <2>3 DEF Requests, RequestSteps
<1>8. ASSUME NEW c \in Calls, GivesUp(c) \/ ReturnDirect(c) \/ Routine(c)
      PROVE  /\ UNCHANGED <<object, sent>>
             /\ param' \in {param, Blank, None} \/ (param' = c /\ Asked(c)')
  BY <1>8 DEF GivesUp, DoFails, ReturnDirect, Routine, LoadParam, TestLoad, TestParam, AssignError,
     AssignData, TestResponse, Failing, Parse, TestParse, Returns, Goes, outside, wire, closure, Asked
<1>9. ASSUME NEW c \in Calls, ServiceSteps(c)
      PROVE  UNCHANGED <<param, sent, object>>
  BY <1>9 DEF ServiceSteps, Serve, Receive, WithUser, Refuse, Succeed, Fail, wire, closure
<1>10. CASE \E c \in Calls : Starts(c)
  BY <1>4, <1>5, <1>10 DEF Starts
<1>11. CASE \E c \in Calls : Requests(c)
  BY <1>7, <1>11
<1>12. CASE \E c \in Calls : GivesUp(c) \/ ReturnDirect(c) \/ Routine(c)
  <2>1. PICK c \in Calls : GivesUp(c) \/ ReturnDirect(c) \/ Routine(c)
    BY <1>12
  <2>2. param' = c => pc'[param'] # "idle"
    BY <1>8, <2>1 DEF Asked, GivesUp, DoFails, Replies, ReturnDirect, Routine, LoadParam, TestLoad,
       TestParam, AssignError, AssignData, TestResponse, Failing, Parse, TestParse, Returns, Goes,
       outside, wire, closure
  <2> QED  BY <1>8, <2>1, <2>2
<1>13. CASE \E c \in Calls : ServiceSteps(c)
  BY <1>9, <1>13
<1> QED  BY <1>3, <1>10, <1>11, <1>12, <1>13 DEF Next, Proceeds

(* The tokens the guard finds were shown.                                    *)
LEMMA TokensShown ==
  ASSUME TypeOK, NEW c \in Calls
  PROVE  TokensOf(c) \cap Tokens \subseteq Shown(c)
<1>1. None \notin Tokens
  BY Constants DEF Tokens
<1> QED  BY <1>1 DEF TokensOf, Shown

LEMMA VerifiedStep ==
  ASSUME TypeOK, Progress, Senders, Verified, [Next]_vars
  PROVE  Verified'
<1> USE Constants DEF TypeOK, ApiTypeOK, ClientTypeOK
<1>1. session' \in Tokens /\ session <= session'
  <2>1. session' \in {session, session + 1}
    BY DEF Next, vars, wire, Renews, Renew, Starts, StartDirect, StartProxied, Proceeds, Requests,
       RequestSteps, BadUrl, BadBody, Send, GetAnswer, GivesUp, DoFails, ReturnDirect, Routine, LoadParam,
       TestLoad, TestParam, AssignError, AssignData, TestResponse, Failing, Parse, TestParse, Returns,
       outside, ServiceSteps, Serve, Receive, WithUser, Refuse, Succeed, Fail
  <2>2. session' \in Tokens
    BY TypeStep
  <2> QED  BY <2>1, <2>2 DEF Tokens
<1>2. ASSUME NEW c \in Calls, Asked(c), carried'[c] = carried[c], sent'[c] = sent[c]
      PROVE  Shown(c)' = Shown(c) /\ request'[c] = request[c]
  <2>1. request'[c] = request[c]
    BY <1>2, StaysAsked
  <2>2. sent[c] \in Calls => request'[sent[c]] = request[sent[c]]
    BY StaysAsked DEF Senders
  <2>3. {request[d].token : d \in {sent[c]} \cap Calls}' = {request[d].token : d \in {sent[c]} \cap Calls}
    BY <1>2, <2>2
  <2> QED  BY <1>2, <2>1, <2>3 DEF Shown
<1>3. ASSUME NEW c \in Calls, at[c] # "none", UNCHANGED <<at, user, served>>,
             carried'[c] = carried[c], sent'[c] = sent[c]
      PROVE  /\ at'[c] = "route" /\ request'[c].guarded =>
                   user'[c] \in 1 .. session' /\ user'[c] \in Shown(c)'
             /\ served'[c] # None /\ request'[c].guarded =>
                   served'[c].user \in 1 .. session' /\ served'[c].user \in Shown(c)'
  <2>1. Asked(c)
    BY <1>3 DEF Asked, Progress, Early
  <2>2. Shown(c)' = Shown(c) /\ request'[c] = request[c]
    BY <1>2, <1>3, <2>1
  <2> QED  BY <1>1, <1>3, <2>2 DEF Verified, Tokens
<1>4. ASSUME NEW c \in Calls, at'[c] \in {"none", "wire"}
      PROVE  at'[c] # "route" /\ served'[c] = None
  BY <1>4, ProgressStep DEF Progress
<1>5. ASSUME UNCHANGED <<at, user, served, carried, sent>> PROVE Verified'
  <2> SUFFICES ASSUME NEW c \in Calls
      PROVE  /\ at'[c] = "route" /\ request'[c].guarded =>
                   user'[c] \in 1 .. session' /\ user'[c] \in Shown(c)'
             /\ served'[c] # None /\ request'[c].guarded =>
                   served'[c].user \in 1 .. session' /\ served'[c].user \in Shown(c)'
    BY DEF Verified
  <2>1. CASE at[c] = "none"
    BY <1>4, <1>5, <2>1
  <2>2. CASE at[c] # "none"
    BY <1>3, <1>5, <2>2
  <2> QED  BY <2>1, <2>2
<1>6. CASE UNCHANGED vars \/ Renews
  <2>1. UNCHANGED <<at, user, served, carried, sent>>
    BY <1>6 DEF vars, wire, service, Renews, Renew
  <2> QED  BY <1>5, <2>1
<1>7. ASSUME NEW c \in Calls, (Starts(c) \/ Proceeds(c)) /\ ~Send(c, BodyOf(c)) PROVE Verified'
  <2>1. UNCHANGED <<at, user, served, carried, sent>>
    BY <1>7 DEF Starts, StartDirect, StartProxied, Proceeds, Requests, RequestSteps, BadUrl, BadBody,
       GetAnswer, GivesUp, DoFails, ReturnDirect, Routine, LoadParam, TestLoad, TestParam, AssignError,
       AssignData, TestResponse, Failing, Parse, TestParse, Returns, outside, wire, service
  <2> QED  BY <1>5, <2>1
<1>8. ASSUME NEW c \in Calls, Send(c, BodyOf(c)) PROVE Verified'
  <2> SUFFICES ASSUME NEW d \in Calls
      PROVE  /\ at'[d] = "route" /\ request'[d].guarded =>
                   user'[d] \in 1 .. session' /\ user'[d] \in Shown(d)'
             /\ served'[d] # None /\ request'[d].guarded =>
                   served'[d].user \in 1 .. session' /\ served'[d].user \in Shown(d)'
    BY DEF Verified
  <2>1. CASE d = c
    <3>1. at'[d] = "wire"
      BY <1>8, <2>1 DEF Send
    <3> QED  BY <1>4, <3>1
  <2>2. CASE d # c /\ at[d] = "none"
    <3>1. at'[d] = "none"
      BY <1>8, <2>2 DEF Send
    <3> QED  BY <1>4, <3>1
  <2>3. CASE d # c /\ at[d] # "none"
    <3>1. /\ at'[d] = at[d] /\ carried'[d] = carried[d] /\ sent'[d] = sent[d]
          /\ user' = user /\ served' = served
      BY <1>8, <2>3 DEF Send
    <3>2. Asked(d)
      BY <2>3 DEF Asked, Progress, Early
    <3>3. Shown(d)' = Shown(d) /\ request'[d] = request[d]
      BY <1>2, <3>1, <3>2
    <3> QED  BY <1>1, <3>1, <3>3 DEF Verified, Tokens
  <2> QED  BY <2>1, <2>2, <2>3
<1>9. ASSUME NEW c \in Calls, ServiceSteps(c) PROVE Verified'
  <2>1. UNCHANGED <<request, sent, carried, session>>
    BY <1>9 DEF ServiceSteps, Serve, Receive, WithUser, Refuse, Succeed, Fail, wire
  <2>2. \A d \in Calls : Shown(d)' = Shown(d)
    BY <2>1 DEF Shown
  <2>3. \A d \in Calls \ {c} : at'[d] = at[d] /\ user'[d] = user[d] /\ served'[d] = served[d]
    BY <1>9 DEF ServiceSteps, Serve, Receive, WithUser, Refuse, Succeed, Fail, Writes, Runs
  <2>4. /\ at'[c] = "route" /\ request[c].guarded => user'[c] \in 1 .. session /\ user'[c] \in Shown(c)
        /\ served'[c] # None /\ request[c].guarded =>
              served'[c].user \in 1 .. session /\ served'[c].user \in Shown(c)
    <3>1. CASE Receive(c)
      BY <3>1 DEF Receive, Verified
    <3>2. CASE WithUser(c)
      <4>1. served'[c] = None
        BY <3>2 DEF WithUser, Progress
      <4>2. ASSUME at'[c] = "route" PROVE user'[c] = session /\ session \in TokensOf(c)
        BY <3>2, <4>2 DEF WithUser, Writes
      <4>3. session \in 1 .. session
        BY DEF Tokens
      <4> QED  BY <4>1, <4>2, <4>3, TokensShown
    <3>3. CASE Refuse(c)
      BY <3>3 DEF Refuse, Writes, Verified
    <3>4. CASE Succeed(c) \/ Fail(c)
      <4>1. at[c] = "route" /\ at'[c] = "answered" /\ Runs(c) /\ user' = user
        BY <3>4 DEF Succeed, Fail, Writes
      <4>2. served'[c].user = user[c]
        BY <4>1 DEF Runs
      <4> QED  BY <4>1, <4>2 DEF Verified
    <3> QED  BY <1>9, <3>1, <3>2, <3>3, <3>4 DEF ServiceSteps, Serve
  <2> QED  BY <2>1, <2>2, <2>3, <2>4 DEF Verified
<1> QED  BY <1>6, <1>7, <1>8, <1>9 DEF Next

(* For any number of calls, tokens and routes: behind a guard a routine runs    *)
(* only with the token of a session, and one that the request showed.        *)
THEOREM OnlyVerifiedAreServedHolds == Spec => []OnlyVerifiedAreServed
<1>1. Init => TypeOK /\ Progress /\ Senders /\ Verified
  BY InitTyped, Constants DEF Init, ApiInit, ClientInit, NewClient, Senders, Verified
<1>2. TypeOK /\ Progress /\ Senders /\ Verified /\ [Next]_vars
        => TypeOK' /\ Progress' /\ Senders' /\ Verified'
  BY TypeStep, ProgressStep, SendersStep, VerifiedStep
<1>3. Verified => OnlyVerifiedAreServed
  BY DEF Verified, OnlyVerifiedAreServed, Shown
<1> QED  BY <1>1, <1>2, <1>3, PTL DEF Spec
-----------------------------------------------------------------------------
(* int32: what fits stays as it is, whatever its width.                      *)
LEMMA Euclid ==
  ASSUME NEW n \in Int, NEW d \in Nat \ {0}
  PROVE  /\ n \div d \in Int /\ n % d \in 0 .. d - 1
         /\ n = d * (n \div d) + (n % d)
  OBVIOUS

LEMMA Grows ==
  ASSUME NEW d \in Nat, NEW k \in Nat \ {0}
  PROVE  d <= d * k /\ d * k \in Nat
<1>1. PICK j \in Nat : k = j + 1
  <2>1. k - 1 \in Nat
    OBVIOUS
  <2> QED  BY <2>1
<1>2. d * k = d * j + d /\ d * j \in Nat
  BY <1>1
<1> QED  BY <1>2

LEMMA Remains ==
  ASSUME NEW d \in Nat \ {0}, NEW n \in 0 .. d - 1
  PROVE  n % d = n
<1> DEFINE q == n \div d
           r == n % d
<1>1. q \in Int /\ r \in 0 .. d - 1 /\ n = d * q + r
  BY Euclid
<1> HIDE DEF q, r
<1>2. CASE q = 0
  BY <1>1, <1>2 DEF r
<1>3. CASE q \in Nat \ {0}
  <2>1. d <= d * q /\ d * q \in Nat
    BY <1>3, Grows
  <2> QED  BY <1>1, <2>1
<1>4. CASE -q \in Nat \ {0}
  <2>1. d <= d * (-q) /\ d * (-q) \in Nat
    BY <1>4, Grows
  <2>2. d * q = -(d * (-q))
    BY <1>1
  <2> QED  BY <1>1, <2>1, <2>2
<1> QED  BY <1>1, <1>2, <1>3, <1>4

LEMMA Int32Bounds ==
  ASSUME NEW n \in Int
  PROVE  Int32(n) \in -(MaxInt + 1) .. MaxInt
<1> DEFINE w == 2 * (MaxInt + 1)
           m == n + MaxInt + 1
<1>1. w \in Nat \ {0} /\ m \in Int /\ w - 1 = 2 * MaxInt + 1
  BY Constants
<1>2. m % w \in 0 .. w - 1
  <2> HIDE DEF w, m
  <2> QED  BY <1>1, Euclid
<1>3. Int32(n) = (m % w) - (MaxInt + 1)
  BY DEF Int32
<1> HIDE DEF w, m
<1> QED  BY <1>1, <1>2, <1>3, Constants

LEMMA Int32Fits ==
  ASSUME NEW n \in 0 .. MaxInt
  PROVE  Int32(n) = n
<1> DEFINE w == 2 * (MaxInt + 1)
           m == n + MaxInt + 1
<1>1. w \in Nat \ {0} /\ m \in 0 .. w - 1
  BY Constants
<1>2. m % w = m
  <2> HIDE DEF w, m
  <2> QED  BY <1>1, Remains
<1>3. Int32(n) = (m % w) - (MaxInt + 1)
  BY DEF Int32
<1>4. Int32(n) = m - (MaxInt + 1)
  BY <1>2, <1>3
<1> QED  BY <1>4, Constants

LEMMA Distributes ==
  ASSUME NEW d \in Nat, NEW k \in Int
  PROVE  d * k \in Int /\ d * (k + 1) = d * k + d
  OBVIOUS

(* The page that Metadata names holds the offset.                            *)
LEMMA PageHolds ==
  ASSUME NEW p \in [limit : Int, offset : Int], ValidList(p), Page(p) # 0
  PROVE  p.limit * (Page(p) - 1) <= p.offset /\ p.offset < p.limit * Page(p)
<1> DEFINE q == p.offset \div p.limit
           r == p.offset % p.limit
<1>1. p.limit \in Nat \ {0} /\ p.offset \in Nat /\ Page(p) = q + 1
  BY DEF ValidList, Page
<1>2. q \in Int /\ r \in 0 .. p.limit - 1 /\ p.offset = p.limit * q + r
  BY <1>1, Euclid
<1> HIDE DEF q, r
<1>3. p.limit * q \in Int /\ p.limit * (q + 1) = p.limit * q + p.limit
  BY <1>1, <1>2, Distributes
<1>4. Page(p) - 1 = q
  BY <1>1, <1>2
<1> QED  BY <1>1, <1>2, <1>3, <1>4

(* The page asked for is the page read when its offset fits an int32.         *)
LEMMA PageRead ==
  ASSUME NEW q \in Params, ValidList(ListParam(q)),
         q.page # None, q.page \in 1 .. MaxInt, q.offset \in {None, 0},
         ListParam(q).limit * (q.page - 1) <= MaxInt
  PROVE  ListParam(q).offset = ListParam(q).limit * (q.page - 1)
<1> DEFINE limit == QueryInt(q.limit, DefaultLimit)
           k     == q.page - 1
<1>1. QueryInt(q.page, 1) = q.page
  <2>1. q.page \in 0 .. MaxInt
    BY Constants
  <2> QED  BY <2>1, Int32Fits DEF QueryInt
<1>2. QueryInt(q.offset, 0) = 0
  <2>1. 0 \in 0 .. MaxInt
    BY Constants
  <2> QED  BY <2>1, Int32Fits DEF QueryInt
<1>3. k \in 0 .. MaxInt /\ Int32(k) = k
  <2>1. k \in 0 .. MaxInt
    BY Constants
  <2> QED  BY <2>1, Int32Fits
<1>4. limit \in Nat \ {0}
  <2>1. limit \in Int
    BY QueryIntRange, Constants DEF Params
  <2> QED  BY <2>1 DEF ValidList, ListParam
<1>5. ListParam(q).limit = limit
      /\ ListParam(q).offset = IF q.page > 1 THEN Int32(limit * Int32(k)) ELSE 0
  BY <1>1, <1>2 DEF ListParam
<1> HIDE DEF limit
<1>6. limit * k \in 0 .. MaxInt
  <2>1. limit * k \in Nat
    BY <1>3, <1>4
  <2> QED  BY <1>5, <2>1, Constants
<1>7. Int32(limit * Int32(k)) = limit * k
  BY <1>3, <1>6, Int32Fits
<1>8. CASE q.page > 1
  BY <1>5, <1>7, <1>8
<1>9. CASE q.page = 1
  <2>1. k = 0
    BY <1>9
  <2>2. limit * k = 0
    BY <2>1, <1>4
  <2> QED  BY <1>5, <1>9, <2>2
<1> QED  BY <1>8, <1>9

LEMMA ListBounds ==
  ASSUME NEW q \in Params, ValidList(ListParam(q))
  PROVE  ListParam(q).offset \in 0 .. MaxInt /\ ListParam(q).limit \in 1 .. MaxInt
<1> DEFINE limit  == IF q.limit = None THEN DefaultLimit ELSE q.limit
           offset == IF q.offset = None THEN 0 ELSE q.offset
           page   == IF q.page = None THEN 1 ELSE q.page
<1>1. limit \in Int /\ offset \in Int /\ page \in Int
  <2>1. /\ q.limit \in Numbers \cup {None} /\ q.offset \in Numbers \cup {None}
        /\ q.page \in Numbers \cup {None}
    BY DEF Params
  <2>2. DefaultLimit \in Int /\ 0 \in Int /\ 1 \in Int
    BY Constants
  <2> QED  BY <2>1, <2>2, GivenOr
<1>2. /\ QueryInt(q.limit, DefaultLimit) = Int32(limit) /\ QueryInt(q.offset, 0) = Int32(offset)
      /\ QueryInt(q.page, 1) = Int32(page)
  BY DEF QueryInt
<1> HIDE DEF limit, offset, page
<1>3. Int32(limit) * Int32(Int32(page) - 1) \in Int
  BY <1>1, Int32Range
<1>4. /\ ListParam(q).limit = Int32(limit)
      /\ ListParam(q).offset \in {Int32(offset), Int32(Int32(limit) * Int32(Int32(page) - 1))}
  BY <1>2 DEF ListParam
<1>5. /\ ListParam(q).limit \in -(MaxInt + 1) .. MaxInt
      /\ ListParam(q).offset \in -(MaxInt + 1) .. MaxInt
  BY <1>1, <1>3, <1>4, Int32Bounds
<1> QED  BY <1>5, Constants DEF ValidList

(* A list was served with the parameter of its request, which was validated.  *)
ServedLists ==
    \A c \in Calls :
        served[c] # None /\ request[c].route \in {"list", "one"} =>
            LET p == ListParam(carried[c].params)
            IN  /\ ValidList(p) /\ at[c] = "answered"
                /\ served[c].limit = p.limit /\ served[c].offset = p.offset
                /\ answer[c].page \in {0, Page(p)}

LEMMA ServedListsStep ==
  ASSUME TypeOK, Progress, ServedLists, [Next]_vars
  PROVE  ServedLists'
<1> USE Constants DEF TypeOK, ApiTypeOK, ClientTypeOK
<1> SUFFICES ASSUME NEW c \in Calls, served'[c] # None, request'[c].route \in {"list", "one"}
             PROVE  LET p == ListParam(carried'[c].params)
                    IN  /\ ValidList(p) /\ at'[c] = "answered"
                        /\ served'[c].limit = p.limit /\ served'[c].offset = p.offset
                        /\ answer'[c].page \in {0, Page(p)}
  BY DEF ServedLists, ListParam, QueryInt, Int32, ValidList, Page
<1>1. CASE at[c] = "answered"
  BY <1>1, AnswerStays DEF ServedLists
<1>2. CASE at[c] # "answered"
  <2>1. served[c] = None
    BY <1>2 DEF Progress
  <2>2. ~(UNCHANGED vars \/ Renews)
    BY <2>1 DEF vars, service, Renews, Renew
  <2>3. ASSUME NEW d \in Calls, (Starts(d) \/ Proceeds(d)) PROVE FALSE
    <3>1. served' = served
      BY <2>3 DEF Starts, StartDirect, StartProxied, Proceeds, Requests, RequestSteps, BadUrl, BadBody,
         Send, GetAnswer, GivesUp, DoFails, ReturnDirect, Routine, LoadParam, TestLoad, TestParam,
         AssignError, AssignData, TestResponse, Failing, Parse, TestParse, Returns, outside, wire, service
    <3> QED  BY <2>1, <3>1
  <2>4. PICK d \in Calls : ServiceSteps(d)
    BY <2>2, <2>3 DEF Next
  <2>5. d = c /\ (Succeed(c) \/ Fail(c))
    BY <2>1, <2>4 DEF ServiceSteps, Serve, Receive, WithUser, Refuse, Succeed, Fail, Runs
  <2> DEFINE p == ListParam(carried[c].params)
  <2>6. request' = request /\ carried' = carried
    BY <2>5 DEF Succeed, Fail, wire
  <2>7. ValidList(p)
    BY <2>5, <2>6 DEF Succeed, Fail, LoadParamFromRequest, Validates
  <2>8. served'[c].limit = p.limit /\ served'[c].offset = p.offset
    <3> HIDE DEF p
    <3>1. served' = [served EXCEPT ![c] = [user |-> user[c], limit |-> p.limit, offset |-> p.offset]]
      BY <2>5, <2>6 DEF Succeed, Fail, Runs, p
    <3> QED  BY <3>1
  <2>9. at'[c] = "answered" /\ answer'[c].page \in {0, Page(p)}
    <3>1. CASE Succeed(c)
      BY <3>1 DEF Succeed, Writes, DataResponse
    <3>2. CASE Fail(c)
      BY <3>2 DEF Fail, Writes, Answer
    <3> QED  BY <2>5, <3>1, <3>2
  <2> QED  BY <2>6, <2>7, <2>8, <2>9
<1> QED  BY <1>1, <1>2

(* For any width of int32 and any numbers in the query: a routine lists from    *)
(* an offset and for a number of rows in range, the page that was asked for    *)
(* when it fits, and its metadata names the page that holds the offset.       *)
THEOREM OffsetServedIsUsableHolds == Spec => []OffsetServedIsUsable
<1>1. Init => TypeOK /\ Progress /\ ServedLists
  BY InitTyped DEF Init, ApiInit, ServedLists
<1>2. TypeOK /\ Progress /\ ServedLists /\ [Next]_vars
        => TypeOK' /\ Progress' /\ ServedLists'
  BY TypeStep, ProgressStep, ServedListsStep
<1>3. TypeOK /\ ServedLists => OffsetServedIsUsable
  <2> SUFFICES ASSUME TypeOK, ServedLists, NEW c \in Calls, served[c] # None,
                      request[c].route \in {"list", "one"}
      PROVE  LET q == carried[c].params
             IN  /\ served[c].offset \in 0 .. MaxInt /\ served[c].limit \in 1 .. MaxInt
                 /\ /\ q.page # None /\ q.page \in 1 .. MaxInt /\ q.offset \in {None, 0}
                    /\ served[c].limit * (q.page - 1) <= MaxInt
                    => served[c].offset = served[c].limit * (q.page - 1)
                 /\ answer[c] # None /\ answer[c].page # 0 =>
                      /\ served[c].limit * (answer[c].page - 1) <= served[c].offset
                      /\ served[c].offset < served[c].limit * answer[c].page
    BY DEF OffsetServedIsUsable
  <2> DEFINE q == carried[c].params
             p == ListParam(q)
  <2>1. q \in Params
    BY DEF TypeOK, ApiTypeOK, Headers
  <2>2. p \in [limit : Int, offset : Int]
    BY <2>1, ListParamTyped
  <2>3. /\ ValidList(p) /\ served[c].limit = p.limit /\ served[c].offset = p.offset
        /\ answer[c].page \in {0, Page(p)}
    BY DEF ServedLists
  <2>4. p.offset \in 0 .. MaxInt /\ p.limit \in 1 .. MaxInt
    BY <2>1, <2>3, ListBounds
  <2>5. /\ q.page # None /\ q.page \in 1 .. MaxInt /\ q.offset \in {None, 0}
        /\ p.limit * (q.page - 1) <= MaxInt
        => p.offset = p.limit * (q.page - 1)
    BY <2>1, <2>3, PageRead
  <2>6. Page(p) # 0 => /\ p.limit * (Page(p) - 1) <= p.offset
                       /\ p.offset < p.limit * Page(p)
    BY <2>2, <2>3, PageHolds
  <2> HIDE DEF p, q
  <2>7. answer[c].page # 0 => answer[c].page = Page(p)
    BY <2>3
  <2> QED  BY <2>3, <2>4, <2>5, <2>6, <2>7 DEF q
<1> QED  BY <1>1, <1>2, <1>3, PTL DEF Spec
=============================================================================
