-------------------------- MODULE RequestPathProofs --------------------------
(***************************************************************************)
(* What a request may see and change, for every set of pulses and users.   *)
(***************************************************************************)
EXTENDS RequestPath, SequenceTheorems, TLAPS

-----------------------------------------------------------------------------
(* The route table. *)

\* The public routes come first.
LEMMA RouteTable ==
  /\ Len(Routes) = 11
  /\ \A i \in 1..4 : Routes[i] = PublicRoutes[i]
  /\ \A i \in 5..11 : Routes[i] = ProtectedRoutes[i - 4]
<1> DEFINE S == {PublicRoutes[i] : i \in 1..4} \cup {ProtectedRoutes[i] : i \in 1..7}
<1>1. Len(PublicRoutes) = 4 /\ Len(ProtectedRoutes) = 7
  BY DEF PublicRoutes, ProtectedRoutes
<1>2. PublicRoutes \in Seq(S) /\ ProtectedRoutes \in Seq(S)
  BY <1>1 DEF PublicRoutes, ProtectedRoutes
<1> HIDE DEF S
<1>3. /\ Len(Routes) = Len(PublicRoutes) + Len(ProtectedRoutes)
      /\ \A i \in 1..(Len(PublicRoutes) + Len(ProtectedRoutes)) :
           Routes[i] = IF i <= Len(PublicRoutes) THEN PublicRoutes[i]
                       ELSE ProtectedRoutes[i - Len(PublicRoutes)]
  BY <1>2, ConcatProperties, Zenon DEF Routes
<1> QED BY <1>1, <1>3

\* Every route names a handler.
LEMMA RouteHandlers ==
  /\ Len(Routes) = 11
  /\ \A i \in 1..11 : Routes[i].handler \in Handlers
<1>1. \A i \in 1..4 : PublicRoutes[i].handler \in Handlers
  BY DEF PublicRoutes, Route, Handlers
<1>2. \A i \in 1..7 : ProtectedRoutes[i].handler \in Handlers
  BY DEF ProtectedRoutes, Route, Prefix, Handlers
<1>3. \A i \in 5..11 : i - 4 \in 1..7
  OBVIOUS
<1>4. \A i \in 1..11 : i \in 1..4 \/ i \in 5..11
  OBVIOUS
<1> QED BY <1>1, <1>2, <1>3, <1>4, RouteTable

\* A request with the method m, and a path of n segments of which top is the
\* first.
Asks(method, path, m, n, top) ==
  method = m /\ Len(path) = n /\ (n > 0 => path[1] = top)

\* What fits a route that is no prefix.
LEMMA FitsRoute ==
  ASSUME NEW r, NEW method, NEW path, NEW m, NEW p, NEW h, r = Route(m, p, h),
         NEW n \in Nat, Len(p) = n, NEW top, n > 0 => p[1] = top /\ top # PulseID,
         Fits(r, method, path)
  PROVE  Asks(method, path, m, n, top)
BY DEF Fits, Route, Asks

\* What fits a public route.
LEMMA FitsPublic ==
  ASSUME NEW method, NEW path
  PROVE  /\ Fits(Routes[1], method, path) => Asks(method, path, "GET", 1, "health")
         /\ Fits(Routes[2], method, path) => Asks(method, path, "GET", 1, "status")
         /\ Fits(Routes[3], method, path) => Asks(method, path, "GET", 1, "metrics")
         /\ Fits(Routes[4], method, path) => Asks(method, path, "GET", 0, "")
<1>1. Fits(Routes[1], method, path) => Asks(method, path, "GET", 1, "health")
  <2> DEFINE p == <<"health">>
  <2>1. Routes[1] = Route("GET", p, "Health")
    BY RouteTable DEF PublicRoutes
  <2>2. Len(p) = 1 /\ p[1] = "health"
    OBVIOUS
  <2> HIDE DEF p
  <2> QED BY <2>1, <2>2, FitsRoute DEF PulseID
<1>2. Fits(Routes[2], method, path) => Asks(method, path, "GET", 1, "status")
  <2> DEFINE p == <<"status">>
  <2>1. Routes[2] = Route("GET", p, "Status")
    BY RouteTable DEF PublicRoutes
  <2>2. Len(p) = 1 /\ p[1] = "status"
    OBVIOUS
  <2> HIDE DEF p
  <2> QED BY <2>1, <2>2, FitsRoute DEF PulseID
<1>3. Fits(Routes[3], method, path) => Asks(method, path, "GET", 1, "metrics")
  <2> DEFINE p == <<"metrics">>
  <2>1. Routes[3] = Route("GET", p, "Metrics")
    BY RouteTable DEF PublicRoutes
  <2>2. Len(p) = 1 /\ p[1] = "metrics"
    OBVIOUS
  <2> HIDE DEF p
  <2> QED BY <2>1, <2>2, FitsRoute DEF PulseID
<1>4. Fits(Routes[4], method, path) => Asks(method, path, "GET", 0, "")
  <2> DEFINE p == <<>>
  <2>1. Routes[4] = Route("GET", p, "Root")
    BY RouteTable DEF PublicRoutes
  <2>2. Len(p) = 0
    OBVIOUS
  <2> HIDE DEF p
  <2>3. Fits(Route("GET", p, "Root"), method, path) => method = "GET" /\ Len(path) = 0
    BY <2>2 DEF Fits, Route
  <2>4. ~ (0 > 0)
    OBVIOUS
  <2> QED BY <2>1, <2>3, <2>4, Zenon DEF Asks
<1> QED BY <1>1, <1>2, <1>3, <1>4

\* What fits a protected route.
LEMMA FitsProtected ==
  ASSUME NEW method, NEW path
  PROVE  /\ Fits(Routes[5], method, path) => Asks(method, path, "POST", 1, "provision")
         /\ Fits(Routes[6], method, path) => Asks(method, path, "GET", 1, "provision")
         /\ Fits(Routes[7], method, path) => Asks(method, path, "GET", 2, "provision")
         /\ Fits(Routes[8], method, path) => Asks(method, path, "DELETE", 2, "provision")
         /\ Fits(Routes[9], method, path) => Asks(method, path, "GET", 3, "pulse")
         /\ Fits(Routes[11], method, path) => Asks(method, path, "POST", 2, "pulse")
         /\ Fits(Routes[10], method, path) =>
              (Len(path) = 2 \/ Len(path) > 2) /\ path[1] = "pulse"
<1>1. Fits(Routes[5], method, path) => Asks(method, path, "POST", 1, "provision")
  <2> DEFINE p == <<"provision">>
  <2>1. Routes[5] = Route("POST", p, "ProvisionPod")
    BY RouteTable DEF ProtectedRoutes
  <2>2. Len(p) = 1 /\ p[1] = "provision"
    OBVIOUS
  <2> HIDE DEF p
  <2> QED BY <2>1, <2>2, FitsRoute DEF PulseID
<1>2. Fits(Routes[6], method, path) => Asks(method, path, "GET", 1, "provision")
  <2> DEFINE p == <<"provision">>
  <2>1. Routes[6] = Route("GET", p, "ListPods")
    BY RouteTable DEF ProtectedRoutes
  <2>2. Len(p) = 1 /\ p[1] = "provision"
    OBVIOUS
  <2> HIDE DEF p
  <2> QED BY <2>1, <2>2, FitsRoute DEF PulseID
<1>3. Fits(Routes[7], method, path) => Asks(method, path, "GET", 2, "provision")
  <2> DEFINE p == <<"provision", PulseID>>
  <2>1. Routes[7] = Route("GET", p, "GetPod")
    BY RouteTable DEF ProtectedRoutes
  <2>2. Len(p) = 2 /\ p[1] = "provision"
    OBVIOUS
  <2> HIDE DEF p
  <2> QED BY <2>1, <2>2, FitsRoute DEF PulseID
<1>4. Fits(Routes[8], method, path) => Asks(method, path, "DELETE", 2, "provision")
  <2> DEFINE p == <<"provision", PulseID>>
  <2>1. Routes[8] = Route("DELETE", p, "DeletePod")
    BY RouteTable DEF ProtectedRoutes
  <2>2. Len(p) = 2 /\ p[1] = "provision"
    OBVIOUS
  <2> HIDE DEF p
  <2> QED BY <2>1, <2>2, FitsRoute DEF PulseID
<1>5. Fits(Routes[9], method, path) => Asks(method, path, "GET", 3, "pulse")
  <2> DEFINE p == <<"pulse", PulseID, "health">>
  <2>1. Routes[9] = Route("GET", p, "HealthCheck")
    BY RouteTable DEF ProtectedRoutes
  <2>2. Len(p) = 3 /\ p[1] = "pulse"
    OBVIOUS
  <2> HIDE DEF p
  <2> QED BY <2>1, <2>2, FitsRoute DEF PulseID
<1>6. Fits(Routes[11], method, path) => Asks(method, path, "POST", 2, "pulse")
  <2> DEFINE p == <<"pulse", "heartbeat">>
  <2>1. Routes[11] = Route("POST", p, "Heartbeat")
    BY RouteTable DEF ProtectedRoutes
  <2>2. Len(p) = 2 /\ p[1] = "pulse"
    OBVIOUS
  <2> HIDE DEF p
  <2> QED BY <2>1, <2>2, FitsRoute DEF PulseID
<1>7. Fits(Routes[10], method, path) =>
       (Len(path) = 2 \/ Len(path) > 2) /\ path[1] = "pulse"
  <2> DEFINE p == <<"pulse", PulseID>>
  <2>1. Routes[10] = Prefix(p, "ProxyToPod")
    BY RouteTable DEF ProtectedRoutes
  <2>2. Len(p) = 2 /\ p[1] = "pulse"
    OBVIOUS
  <2> HIDE DEF p
  <2>3. ASSUME Fits(Prefix(p, "ProxyToPod"), method, path)
        PROVE  Len(path) = 2 \/ Len(path) > 2
    BY <2>2, <2>3 DEF Fits, Prefix
  <2>4. ASSUME Fits(Prefix(p, "ProxyToPod"), method, path)
        PROVE  path[1] = "pulse"
    <3>1. \A i \in 1..Len(p) : p[i] \in {PulseID, path[i]}
      BY <2>4 DEF Fits, Prefix
    <3>2. p[1] \in {PulseID, path[1]}
      BY <2>2, <3>1
    <3> QED BY <2>2, <3>2 DEF PulseID
  <2> QED BY <2>1, <2>3, <2>4
<1> QED BY <1>1, <1>2, <1>3, <1>4, <1>5, <1>6, <1>7

\* A request fits at most two routes: a route of one pulse and the prefix of
\* the proxy.
LEMMA FitsTwice ==
  ASSUME NEW method, NEW path, NEW i \in 1..11, NEW j \in 1..11, i < j,
         Fits(Routes[i], method, path), Fits(Routes[j], method, path)
  PROVE  (i = 9 /\ j = 10) \/ (i = 10 /\ j = 11)
<1>1. CASE j \in 1..4
  BY <1>1, FitsPublic DEF Asks
<1>2. CASE j \in 5..11 /\ i \in 1..4
  BY <1>2, FitsPublic, FitsProtected DEF Asks
<1>3. CASE j \in 5..11 /\ i \in 5..11
  <2>1. CASE j \in 5..8
    <3>1. (j = 6 => i = 5) /\ (j = 7 => i \in 5..6) /\ (j = 8 => i \in 5..7) /\ j # 5
      BY <1>3, <2>1
    <3>2. \A k \in {i, j} : /\ k = 5 => method = "POST" /\ Len(path) = 1
                            /\ k = 6 => method = "GET" /\ Len(path) = 1
                            /\ k = 7 => method = "GET" /\ Len(path) = 2
                            /\ k = 8 => method = "DELETE"
      BY FitsProtected DEF Asks
    <3> QED BY <2>1, <3>1, <3>2
  <2>2. CASE j \in {9, 10}
    <3>1. path[1] = "pulse"
      <4>1. CASE j = 9
        <5>1. Asks(method, path, "GET", 3, "pulse")
          BY <4>1, FitsProtected
        <5> QED BY <5>1 DEF Asks
      <4>2. CASE j = 10
        BY <4>2, FitsProtected
      <4> QED BY <2>2, <4>1, <4>2
    <3>2. i \in 5..8 => path[1] = "provision"
      BY FitsProtected DEF Asks
    <3>3. i \in 5..9 /\ (j = 9 => i \in 5..8)
      BY <1>3, <2>2
    <3>4. i \notin 5..8
      BY <3>1, <3>2
    <3> QED BY <2>2, <3>3, <3>4
  <2>3. CASE j = 11
    <3>1. method = "POST" /\ Len(path) = 2
      BY <2>3, FitsProtected DEF Asks
    <3>2. (i = 5 => Len(path) = 1) /\ (i \in 6..9 => method \in {"GET", "DELETE"})
      BY FitsProtected DEF Asks
    <3>3. i \in 5..10
      BY <1>3, <2>3
    <3> QED BY <2>3, <3>1, <3>2, <3>3
  <2> QED BY <1>3, <2>1, <2>2, <2>3
<1> QED BY <1>1, <1>2, <1>3

\* The prefix names less of the path than the health check of a pulse.
LEMMA PrefixNotNarrower == ~ Narrower(10, 9)
<1>1. Routes[9] = ProtectedRoutes[5] /\ Routes[10] = ProtectedRoutes[6]
  BY RouteTable
<1>2. Routes[9].path = <<"pulse", PulseID, "health">> /\ Routes[10].path = <<"pulse", PulseID>>
  BY <1>1 DEF ProtectedRoutes, Route, Prefix
<1>3. 3 \in {n \in 1..Len(Routes[9].path) : Routes[9].path[n] # PulseID}
  <2> DEFINE p == Routes[9].path
  <2>1. Len(p) = 3 /\ p[3] = "health"
    BY <1>2
  <2> HIDE DEF p
  <2>2. 3 \in 1..Len(p) /\ p[3] # PulseID
    BY <2>1 DEF PulseID
  <2>3. 3 \in {n \in 1..Len(p) : p[n] # PulseID}
    BY <2>2
  <2> QED BY <2>3 DEF p
<1>4. 3 \notin {n \in 1..Len(Routes[10].path) : Routes[10].path[n] # PulseID}
  BY <1>2
<1> QED BY <1>3, <1>4 DEF Narrower

\* A set of routes that is not empty has a first one.
LEMMA FirstRoute ==
  ASSUME NEW ms \in SUBSET (1..11), ms # {}
  PROVE  Min(ms) \in ms /\ \A j \in ms : Min(ms) <= j
<1>1. ASSUME \A i \in ms : \E j \in ms : j < i PROVE FALSE
  <2>1. 1 \notin ms BY <1>1
  <2>2. 2 \notin ms BY <1>1, <2>1
  <2>3. 3 \notin ms BY <1>1, <2>1, <2>2
  <2>4. 4 \notin ms BY <1>1, <2>1, <2>2, <2>3
  <2>5. 5 \notin ms BY <1>1, <2>1, <2>2, <2>3, <2>4
  <2>6. 6 \notin ms BY <1>1, <2>1, <2>2, <2>3, <2>4, <2>5
  <2>7. 7 \notin ms BY <1>1, <2>1, <2>2, <2>3, <2>4, <2>5, <2>6
  <2>8. ms \subseteq 8..11 BY <2>1, <2>2, <2>3, <2>4, <2>5, <2>6, <2>7
  <2>9. 8 \notin ms BY <1>1, <2>8
  <2>10. 9 \notin ms BY <1>1, <2>8, <2>9
  <2>11. 10 \notin ms BY <1>1, <2>8, <2>9, <2>10
  <2>12. ms \subseteq {11} BY <2>8, <2>9, <2>10, <2>11
  <2>13. PICK i \in ms : TRUE OBVIOUS
  <2> QED BY <1>1, <2>12, <2>13
<1>2. \E i \in ms : \A j \in ms : i <= j
  BY <1>1
<1> QED
  BY <1>2, Zenon DEF Min

LEMMA HandlerType ==
  ASSUME NEW method, NEW path
  PROVE  Handler(method, path) \in Handlers
<1> DEFINE ms == Matching(method, path)
<1>1. CASE ms = {}
  BY <1>1 DEF Handler, Handlers
<1>2. CASE ms # {}
  <2>1. ms \in SUBSET (1..11)
    BY RouteHandlers DEF Matching
  <2>2. Min(ms) \in 1..11
    BY <1>2, <2>1, FirstRoute
  <2>3. Handler(method, path) = Routes[Min(ms)].handler
    BY <1>2, Zenon DEF Handler
  <2> QED BY <2>2, <2>3, RouteHandlers
<1> QED
  BY <1>1, <1>2

\* The route that takes a request is the first of those that fit, and only that
\* of the heartbeat names the path of a later one more closely.
LEMMA FirstIsNarrowest ==
  ASSUME NEW method, NEW path, Handler(method, path) # "none"
  PROVE  LET ms == Matching(method, path)
         IN  \E i \in ms : /\ Routes[i].handler = Handler(method, path)
                          /\ \A j \in ms : Narrower(j, i) => Routes[j].handler = "Heartbeat"
<1> DEFINE ms == Matching(method, path)
           i == Min(ms)
<1>1. ms # {} /\ Routes[i].handler = Handler(method, path)
  BY Zenon DEF Handler
<1>2. ms \in SUBSET (1..11) /\ \A j \in ms : Fits(Routes[j], method, path)
  BY RouteTable DEF Matching
<1>3. i \in ms /\ \A j \in ms : i <= j
  BY <1>1, <1>2, FirstRoute
<1> HIDE DEF ms, i
<1>4. ASSUME NEW j \in ms, Narrower(j, i)
      PROVE  Routes[j].handler = "Heartbeat"
  <2>1. j # i
    BY <1>4 DEF Narrower
  <2>2. i \in 1..11 /\ j \in 1..11 /\ i < j
    BY <1>2, <1>3, <2>1
  <2>3. (i = 9 /\ j = 10) \/ (i = 10 /\ j = 11)
    BY <1>2, <1>3, <2>2, FitsTwice
  <2>4. j = 11
    BY <1>4, <2>3, PrefixNotNarrower
  <2>5. Routes[11] = ProtectedRoutes[7]
    BY RouteTable
  <2> QED BY <2>4, <2>5 DEF ProtectedRoutes, Route
<1> QED BY <1>1, <1>3, <1>4 DEF ms

-----------------------------------------------------------------------------
(* The inductive invariant. *)

\* The user in the context of a request is the one whose token came with it.
UserOfToken == req.user # Nobody => Presents(req.user)

\* A request that is past the check of the owner aims at a row of its user.
AimsAtOwn ==
  req.pc \in {"delete", "touch", "target", "relay"} =>
    /\ req.user # Nobody
    /\ ThePulse \in Pulses
    /\ rows[ThePulse].owner = req.user

\* What was shown belongs to the user, and no row changes hands.
ShownIsOwn == \A p \in req.shown : req.user # Nobody /\ rows[p].owner = req.user

\* Inside the chain there is a middleware left to run.
InChain ==
  /\ req.pc = "route" => req.passed = 0
  /\ req.pc = "chain" => req.passed \in 0..1

\* Nothing is shown before the answer.
NotYetShown == req.pc # "done" => req.shown = {}

IInv == TypeOK /\ InChain /\ NotYetShown /\ UserOfToken /\ AimsAtOwn /\ ShownIsOwn

LEMMA InitIInv == Init => IInv
BY RequestPathAssumption
   DEF Init, IInv, TypeOK, Requests, Idle, NoRow, Steps, Methods, Paths, Handlers, Statuses,
       InChain, NotYetShown, UserOfToken, AimsAtOwn, ShownIsOwn

\* What others do leaves the owner of every row that somebody owns alone.
LEMMA OthersIInv ==
  ASSUME IInv, Others
  PROVE  IInv'
<1>1. req' = req
  BY DEF Others, OthersAdd, OthersDelete
<1> DEFINE Row == [owner : Users \cup {Nobody}, found : BOOLEAN]
<1>2. rows' \in [Pulses -> Row]
  <2>1. rows \in [Pulses -> Row]
    BY DEF IInv, TypeOK
  <2>2. CASE OthersAdd
    BY <2>1, <2>2 DEF OthersAdd
  <2>3. CASE OthersDelete
    <3>1. PICK p \in Pulses : rows' = [rows EXCEPT ![p].found = FALSE]
      BY <2>3 DEF OthersDelete
    <3>2. [rows[p] EXCEPT !.found = FALSE] \in Row
      BY <2>1
    <3> QED BY <2>1, <3>1, <3>2
  <2> QED BY <2>2, <2>3 DEF Others
<1>3. \A p \in Pulses : rows[p].owner # Nobody => rows'[p].owner = rows[p].owner
  BY DEF IInv, TypeOK, Others, OthersAdd, OthersDelete, NoRow
<1>4. TypeOK' /\ InChain' /\ NotYetShown' /\ UserOfToken'
  BY <1>1, <1>2 DEF IInv, TypeOK, InChain, NotYetShown, UserOfToken, Presents
<1>5. AimsAtOwn'
  BY <1>1, <1>3 DEF IInv, AimsAtOwn, ThePulse
<1>6. ShownIsOwn'
  BY <1>1, <1>3 DEF IInv, ShownIsOwn, TypeOK, Requests
<1> QED
  BY <1>4, <1>5, <1>6 DEF IInv

\* The ways in which a step leaves the record of the request.
LEMMA LeavesType ==
  ASSUME req \in Requests
  PROVE  /\ \A st \in Statuses : Answer(st) => req' \in Requests
         /\ \A st \in Statuses, ps \in SUBSET Pulses : Shows(st, ps) => req' \in Requests
         /\ \A pc \in Steps : Goto(pc) => req' \in Requests
<1>1. "done" \in Steps
  BY DEF Steps
<1>2. ASSUME NEW st \in Statuses, Answer(st) PROVE req' \in Requests
  BY <1>1, <1>2 DEF Answer, Requests
<1>3. ASSUME NEW st \in Statuses, NEW ps \in SUBSET Pulses, Shows(st, ps) PROVE req' \in Requests
  BY <1>1, <1>3 DEF Shows, Requests
<1>4. ASSUME NEW pc \in Steps, Goto(pc) PROVE req' \in Requests
  BY <1>4 DEF Goto, Requests
<1> QED
  BY <1>2, <1>3, <1>4

\* The three ways of a request from the route table.
LEMMA DispatchWays ==
  ASSUME Dispatch
  PROVE  \E h \in Handlers :
           \/ Answer(404)
           \/ req' = [req EXCEPT !.pc = "done", !.handler = h, !.status = 200]
           \/ req' = [req EXCEPT !.pc = "chain", !.handler = h]
<1> DEFINE h == Handler(req.method, req.path)
<1>1. h \in Handlers
  BY HandlerType
<1> HIDE DEF h
<1>2. CASE h = "none"
  BY <1>1, <1>2 DEF Dispatch, h
<1>3. CASE h # "none" /\ IsPublic(h)
  BY <1>1, <1>3 DEF Dispatch, h
<1>4. CASE h # "none" /\ ~IsPublic(h)
  BY <1>1, <1>4 DEF Dispatch, h
<1> QED
  BY <1>2, <1>3, <1>4

\* The steps of a request before its handler.
LEMMA BeforeHandlerType ==
  ASSUME IInv, Receive \/ Finish \/ Dispatch \/ Enrich \/ Authenticate
  PROVE  req' \in Requests
<1>1. req \in Requests
  BY DEF IInv, TypeOK
<1>2. Idle \in Requests
  BY DEF Requests, Idle, Steps, Methods, Paths, Handlers, Statuses
<1>3. CASE Receive
  <2>1. PICK m \in Methods, path \in Paths, hd \in Tokens \cup {Nobody}, q \in Tokens \cup {Nobody} :
          req' = [Idle EXCEPT !.pc = "route", !.method = m, !.path = path,
                              !.header = hd, !.query = q]
    BY <1>3 DEF Receive
  <2> QED BY <1>2, <2>1 DEF Requests, Steps
<1>4. CASE Finish
  BY <1>2, <1>4 DEF Finish
<1>5. CASE Dispatch
  <2>1. PICK h \in Handlers :
          \/ Answer(404)
          \/ req' = [req EXCEPT !.pc = "done", !.handler = h, !.status = 200]
          \/ req' = [req EXCEPT !.pc = "chain", !.handler = h]
    BY <1>5, DispatchWays
  <2>2. CASE Answer(404)
    BY <1>1, <2>2, LeavesType DEF Statuses
  <2>3. CASE req' = [req EXCEPT !.pc = "done", !.handler = h, !.status = 200]
    <3>1. "done" \in Steps /\ 200 \in Statuses
      BY DEF Steps, Statuses
    <3>2. \A pc \in Steps, st \in Statuses :
            [req EXCEPT !.pc = pc, !.handler = h, !.status = st] \in Requests
      BY <1>1 DEF Requests
    <3> QED BY <2>3, <3>1, <3>2
  <2>4. CASE req' = [req EXCEPT !.pc = "chain", !.handler = h]
    BY <1>1, <2>4 DEF Requests, Steps
  <2> QED BY <2>1, <2>2, <2>3, <2>4
<1>6. CASE Enrich \/ Authenticate
  <2>1. req.passed + 1 \in 0..2 /\ Len(Chain) = 2
    BY <1>6 DEF IInv, InChain, Enrich, Authenticate, At, Chain
  <2>2. AfterChain(req.handler) \in Steps
    BY DEF AfterChain, Steps
  <2>3. ASSUME NEW new \in Requests, Passes(new), new.passed = req.passed
        PROVE  req' \in Requests
    <3>1. PICK n \in 0..2, pc \in Steps, st \in Statuses :
            req' = [new EXCEPT !.passed = n, !.pc = pc, !.status = st]
      <4> DEFINE pc == IF req.passed + 1 = Len(Chain) THEN AfterChain(req.handler) ELSE new.pc
                 st == IF req.handler = "Heartbeat" THEN 200 ELSE new.status
      <4>1. pc \in Steps /\ st \in Statuses /\ new.passed + 1 \in 0..2
        BY <2>1, <2>2, <2>3 DEF Requests, Statuses
      <4>2. req' = [new EXCEPT !.passed = new.passed + 1, !.pc = pc, !.status = st]
        BY <2>3 DEF Passes, Requests
      <4> HIDE DEF pc, st
      <4> QED BY <4>1, <4>2
    <3> QED BY <3>1, <2>3 DEF Requests
  <2>4. CASE Enrich
    <3>1. [req EXCEPT !.traced = req.user] \in Requests
      BY <1>1 DEF Requests
    <3> QED BY <2>3, <2>4, <3>1, <1>1 DEF Enrich, Requests
  <2>5. CASE Authenticate
    <3>1. CASE Token \in Users
      <4>1. [req EXCEPT !.user = Token] \in Requests
        BY <1>1, <3>1 DEF Requests
      <4> QED BY <1>1, <2>3, <2>5, <3>1, <4>1 DEF Authenticate, Verified, Requests
    <3>2. CASE Token \notin Users
      BY <1>1, <2>5, <3>2, LeavesType DEF Authenticate, Verified, Statuses
    <3> QED BY <3>1, <3>2
  <2> QED BY <1>6, <2>4, <2>5
<1> QED
  BY <1>3, <1>4, <1>5, <1>6

LEMMA BeforeHandlerIInv ==
  ASSUME IInv, Receive \/ Finish \/ Dispatch \/ Enrich \/ Authenticate
  PROVE  IInv'
<1>1. req \in Requests /\ UNCHANGED rows
  BY DEF IInv, TypeOK, Receive, Finish, Dispatch, Enrich, Authenticate
<1>2. req' \in Requests /\ TypeOK'
  BY <1>1, BeforeHandlerType DEF IInv, TypeOK
<1>3. CASE Receive \/ Finish
  <2>1. /\ req'.pc \in {"idle", "route"} /\ req'.passed = 0
        /\ req'.user = Nobody /\ req'.shown = {}
    <3>1. CASE Receive
      BY <3>1 DEF Receive, Idle
    <3>2. CASE Finish
      BY <3>2 DEF Finish, Idle
    <3> QED BY <1>3, <3>1, <3>2
  <2> QED
    BY <1>2, <2>1 DEF IInv, InChain, NotYetShown, UserOfToken, AimsAtOwn, ShownIsOwn
<1>4. CASE Dispatch
  <2>1. /\ req.pc = "route" /\ req'.pc \in {"done", "chain"}
        /\ req'.header = req.header /\ req'.query = req.query /\ req'.user = req.user
        /\ req'.shown = req.shown /\ req'.passed = req.passed
    <3>1. req.pc = "route"
      BY <1>4 DEF Dispatch, At
    <3>2. PICK h \in Handlers :
            \/ Answer(404)
            \/ req' = [req EXCEPT !.pc = "done", !.handler = h, !.status = 200]
            \/ req' = [req EXCEPT !.pc = "chain", !.handler = h]
      BY <1>4, DispatchWays
    <3>3. CASE Answer(404)
      BY <1>1, <3>1, <3>3 DEF Answer, Requests
    <3>4. CASE req' = [req EXCEPT !.pc = "done", !.handler = h, !.status = 200]
      BY <1>1, <3>1, <3>4 DEF Requests
    <3>5. CASE req' = [req EXCEPT !.pc = "chain", !.handler = h]
      BY <1>1, <3>1, <3>5 DEF Requests
    <3> QED BY <3>2, <3>3, <3>4, <3>5
  <2> QED
    BY <1>1, <1>2, <2>1
       DEF IInv, InChain, NotYetShown, UserOfToken, Presents, AimsAtOwn, ShownIsOwn
<1>5. CASE Enrich \/ Authenticate
  <2>1. /\ req'.pc \notin {"delete", "touch", "target", "relay", "route"}
        /\ req'.pc = "chain" => req'.passed \in 0..1
        /\ req'.header = req.header /\ req'.query = req.query
        /\ req'.user \in {req.user, Token}
        /\ req'.user # req.user => Token \in Users
        /\ req'.shown = {}
    <3>1. req.passed + 1 \in 1..2 /\ Len(Chain) = 2 /\ At("chain") /\ req.shown = {}
      BY <1>5 DEF IInv, InChain, NotYetShown, Enrich, Authenticate, At, Chain
    <3>2. AfterChain(req.handler) \in {"provision", "list", "done", "lookup"}
      BY DEF AfterChain
    <3>3. ASSUME NEW new \in Requests, Passes(new), new.passed = req.passed, new.pc = req.pc
          PROVE  /\ req'.header = new.header /\ req'.query = new.query
                 /\ req'.user = new.user /\ req'.shown = new.shown
                 /\ req'.passed = req.passed + 1
                 /\ req'.pc = IF req.passed + 1 = 2 THEN AfterChain(req.handler) ELSE "chain"
      BY <3>1, <3>3 DEF Passes, Requests, At
    <3>4. CASE Enrich
      <4>1. [req EXCEPT !.traced = req.user] \in Requests
        BY <1>1 DEF Requests
      <4> QED BY <1>1, <3>1, <3>2, <3>3, <3>4, <4>1 DEF Enrich, Requests
    <3>5. CASE Authenticate /\ Token \in Users
      <4>1. [req EXCEPT !.user = Token] \in Requests
        BY <1>1, <3>5 DEF Requests
      <4> QED BY <1>1, <3>1, <3>2, <3>3, <3>5, <4>1 DEF Authenticate, Verified, Requests
    <3>6. CASE Authenticate /\ Token \notin Users
      <4>1. Answer(401)
        BY <3>6 DEF Authenticate, Verified
      <4> QED BY <1>1, <3>1, <3>6, <4>1 DEF Answer, Requests
    <3> QED BY <1>5, <3>4, <3>5, <3>6
  <2>2. Token \in Users => Presents(Token)
    BY RequestPathAssumption DEF Token, Presents
  <2> QED
    BY <1>1, <1>2, <2>1, <2>2
       DEF IInv, InChain, NotYetShown, UserOfToken, Presents, AimsAtOwn, ShownIsOwn
<1> QED
  BY <1>3, <1>4, <1>5

\* The handlers and the proxy.
Handle == ListPods \/ Lookup \/ ProvisionPod \/ DeletePod \/ Touch \/ Target \/ Relay

\* Who asked stays as it is while a handler runs, and so does what was asked for.
Keeps ==
  /\ req'.header = req.header /\ req'.query = req.query
  /\ req'.user = req.user /\ req'.path = req.path

LEMMA LeavesKeep ==
  ASSUME req \in Requests
  PROVE  /\ \A st : Answer(st) => Keeps /\ req'.pc = "done" /\ req'.shown = req.shown
         /\ \A st, ps : Shows(st, ps) => Keeps /\ req'.pc = "done" /\ req'.shown = ps
         /\ \A pc : Goto(pc) => Keeps /\ req'.pc = pc /\ req'.shown = req.shown
BY DEF Answer, Shows, Goto, Keeps, Requests

\* A step of a handler ends the request or leads to the next step of its handler.
Onward(pcs) == req'.pc \in {"done"} \cup pcs

Aimed == req.user # Nobody /\ ThePulse \in Pulses /\ rows[ThePulse].owner = req.user

\* A step that reads: it shows nothing but rows of the user, and goes on only
\* with a row of the user.
LEMMA Reads ==
  ASSUME IInv, ListPods \/ Lookup
  PROVE  /\ req' \in Requests /\ Keeps /\ UNCHANGED rows
         /\ Onward({"delete", "touch"})
         /\ req'.pc # "done" => Aimed /\ req'.shown = {}
         /\ \A p \in req'.shown : req.user # Nobody /\ rows[p].owner = req.user
<1>1. req \in Requests /\ req.shown = {} /\ UNCHANGED rows
  BY DEF IInv, TypeOK, NotYetShown, ListPods, Lookup, At
<1>2. \A st \in {401, 403, 404, 500} : st \in Statuses
  BY DEF Statuses
<1>3. ASSUME NEW st \in {401, 403, 404, 500}, Answer(st)
      PROVE  req' \in Requests /\ Keeps /\ req'.pc = "done" /\ req'.shown = {}
  BY <1>1, <1>2, <1>3, LeavesType, LeavesKeep
<1>4. ASSUME NEW ps \in SUBSET Pulses, Shows(200, ps)
      PROVE  req' \in Requests /\ Keeps /\ req'.pc = "done" /\ req'.shown = ps
  BY <1>1, <1>4, LeavesType, LeavesKeep DEF Statuses
<1>5. ASSUME NEW pc \in {"delete", "touch"}, Goto(pc)
      PROVE  req' \in Requests /\ Keeps /\ req'.pc = pc /\ req'.shown = {}
  BY <1>1, <1>5, LeavesType, LeavesKeep DEF Steps
<1>6. CASE \E st \in {401, 403, 404, 500} : Answer(st)
  BY <1>1, <1>3, <1>6 DEF Onward
<1>7. CASE ListPods /\ ~\E st \in {401, 403, 404, 500} : Answer(st)
  <2> DEFINE ps == {p \in Pulses : rows[p].found /\ rows[p].owner = req.user}
  <2>1. req.user # Nobody /\ Shows(200, ps)
    BY <1>7 DEF ListPods, AsUser
  <2>2. req'.shown = ps /\ req' \in Requests /\ Keeps /\ req'.pc = "done"
    BY <1>4, <2>1
  <2> QED BY <1>1, <2>1, <2>2 DEF Onward
<1>8. CASE Lookup /\ ~\E st \in {401, 403, 404, 500} : Answer(st)
  <2>1. Aimed /\ AfterLookup
    BY <1>8 DEF Lookup, AsUser, Finds, Owns, Aimed
  <2>2. CASE \E pc \in {"delete", "touch"} : Goto(pc)
    BY <1>1, <1>5, <2>1, <2>2 DEF Onward
  <2>3. CASE Shows(200, {ThePulse})
    BY <1>1, <1>4, <2>1, <2>3 DEF Onward, Aimed
  <2> QED BY <2>1, <2>2, <2>3 DEF AfterLookup
<1> QED
  BY <1>6, <1>7, <1>8

\* A step of the proxy changes no row, and aims at the row that was found.
LEMMA Proxies ==
  ASSUME IInv, Touch \/ Target \/ Relay
  PROVE  /\ req' \in Requests /\ Keeps /\ UNCHANGED rows
         /\ Aimed /\ Onward({"target", "relay"})
         /\ req'.pc # "done" => req'.shown = {}
         /\ req'.shown \subseteq {ThePulse}
<1>1. req \in Requests /\ req.shown = {} /\ Aimed /\ UNCHANGED rows
  BY DEF IInv, TypeOK, NotYetShown, AimsAtOwn, Aimed, Touch, Target, Relay, At
<1>2. CASE Answer(502)
  BY <1>1, <1>2, LeavesType, LeavesKeep DEF Statuses, Onward
<1>3. CASE \E pc \in {"target", "relay"} : Goto(pc)
  BY <1>1, <1>3, LeavesType, LeavesKeep DEF Steps, Onward
<1>4. CASE Shows(200, {ThePulse})
  <2>1. {ThePulse} \in SUBSET Pulses /\ 200 \in Statuses
    BY <1>1 DEF Aimed, Statuses
  <2> QED BY <1>1, <1>4, <2>1, LeavesType, LeavesKeep DEF Onward
<1> QED
  BY <1>2, <1>3, <1>4 DEF Touch, Target, Relay

\* A row whose pod is gone stays a row, of the same owner.
LEMMA LostRow ==
  ASSUME NEW Owners, NEW r \in [owner : Owners, found : BOOLEAN]
  PROVE  /\ [r EXCEPT !.found = FALSE] \in [owner : Owners, found : BOOLEAN]
         /\ [r EXCEPT !.found = FALSE].owner = r.owner
  OBVIOUS

\* A step that writes ends the request, and the row was free or of the user.
LEMMA Writes ==
  ASSUME IInv, ProvisionPod \/ DeletePod
  PROVE  /\ req' \in Requests /\ Keeps
         /\ req'.pc = "done" /\ req'.shown = {}
         /\ rows' \in [Pulses -> [owner : Users \cup {Nobody}, found : BOOLEAN]]
         /\ \A p \in Pulses : rows'[p] # rows[p] =>
              req.user # Nobody /\ rows'[p].owner = req.user
<1> DEFINE Row == [owner : Users \cup {Nobody}, found : BOOLEAN]
<1>1. req \in Requests /\ req.shown = {} /\ rows \in [Pulses -> Row]
  BY DEF IInv, TypeOK, NotYetShown, ProvisionPod, DeletePod, At
<1>2. PICK st \in {201, 204, 400, 401, 500} : Answer(st)
  BY DEF ProvisionPod, DeletePod, AsUser
<1>3. req' \in Requests /\ Keeps /\ req'.pc = "done" /\ req'.shown = {}
  BY <1>1, <1>2, LeavesType, LeavesKeep DEF Statuses
<1>4. CASE UNCHANGED rows
  BY <1>1, <1>3, <1>4
<1>5. CASE ProvisionPod /\ rows' # rows
  <2>1. PICK p \in Pulses : /\ req.user # Nobody
                           /\ rows' = [rows EXCEPT ![p] = [owner |-> req.user, found |-> TRUE]]
    BY <1>5 DEF ProvisionPod
  <2>2. [owner |-> req.user, found |-> TRUE] \in Row
    BY <1>1 DEF Requests
  <2> QED BY <1>1, <1>3, <2>1, <2>2
<1>6. CASE DeletePod /\ rows' # rows
  <2>1. rows' = [rows EXCEPT ![ThePulse].found = FALSE]
    BY <1>6 DEF DeletePod
  <2>2. Aimed
    BY <1>6 DEF IInv, AimsAtOwn, Aimed, DeletePod, At
  <2>3. /\ [rows[ThePulse] EXCEPT !.found = FALSE] \in Row
        /\ [rows[ThePulse] EXCEPT !.found = FALSE].owner = req.user
    <3>1. rows[ThePulse] \in Row /\ rows[ThePulse].owner = req.user
      BY <1>1, <2>2 DEF Aimed
    <3> HIDE DEF Row
    <3>2. ASSUME NEW r \in Row
          PROVE  [r EXCEPT !.found = FALSE] \in Row /\ [r EXCEPT !.found = FALSE].owner = r.owner
      <4> DEFINE Owners == Users \cup {Nobody}
      <4> HIDE DEF Owners
      <4>1. Row = [owner : Owners, found : BOOLEAN]
        BY DEF Row, Owners
      <4> QED BY <4>1, LostRow
    <3> QED BY <3>1, <3>2
  <2> QED BY <1>1, <1>3, <2>1, <2>2, <2>3 DEF Aimed
<1> QED
  BY <1>4, <1>5, <1>6

LEMMA HandleIInv ==
  ASSUME IInv, Handle
  PROVE  IInv'
<1>1. req \in Requests /\ rows \in [Pulses -> [owner : Users \cup {Nobody}, found : BOOLEAN]]
  BY DEF IInv, TypeOK
<1>2. ASSUME Keeps, req'.pc \notin {"route", "chain"}
      PROVE  InChain' /\ UserOfToken' /\ ThePulse' = ThePulse
  BY <1>2 DEF IInv, InChain, UserOfToken, Presents, Keeps, ThePulse
<1>3. CASE ListPods \/ Lookup
  <2>1. TypeOK' /\ Keeps /\ UNCHANGED rows /\ req'.pc \in {"done", "delete", "touch"}
    BY <1>1, <1>3, Reads DEF TypeOK, Onward
  <2>2. NotYetShown' /\ ShownIsOwn'
    BY <1>3, <2>1, Reads DEF NotYetShown, ShownIsOwn, Keeps
  <2>3. AimsAtOwn'
    BY <1>2, <1>3, <2>1, Reads DEF AimsAtOwn, Aimed, Keeps
  <2> QED BY <1>2, <2>1, <2>2, <2>3 DEF IInv
<1>4. CASE Touch \/ Target \/ Relay
  <2>1. TypeOK' /\ Keeps /\ UNCHANGED rows /\ req'.pc \in {"done", "target", "relay"}
    BY <1>1, <1>4, Proxies DEF TypeOK, Onward
  <2>2. NotYetShown' /\ ShownIsOwn'
    BY <1>4, <2>1, Proxies DEF NotYetShown, ShownIsOwn, Keeps, Aimed
  <2>3. AimsAtOwn'
    BY <1>2, <1>4, <2>1, Proxies DEF AimsAtOwn, Aimed, Keeps
  <2> QED BY <1>2, <2>1, <2>2, <2>3 DEF IInv
<1>5. CASE ProvisionPod \/ DeletePod
  <2>1. TypeOK' /\ Keeps /\ req'.pc = "done" /\ req'.shown = {}
    BY <1>5, Writes DEF TypeOK
  <2> QED
    BY <1>2, <2>1 DEF IInv, NotYetShown, ShownIsOwn, AimsAtOwn
<1> QED
  BY <1>3, <1>4, <1>5 DEF Handle

\* Every step keeps the invariant.
LEMMA StepIInv == IInv /\ [Next]_vars => IInv'
<1> SUFFICES ASSUME IInv, [Next]_vars PROVE IInv'
  OBVIOUS
<1>1. CASE Others
  BY <1>1, OthersIInv
<1>2. CASE Receive \/ Finish \/ Dispatch \/ Enrich \/ Authenticate
  BY <1>2, BeforeHandlerIInv
<1>3. CASE Handle
  BY <1>3, HandleIInv
<1>4. CASE UNCHANGED vars
  BY <1>4 DEF vars, IInv, TypeOK, InChain, NotYetShown, UserOfToken, Presents, AimsAtOwn,
              ThePulse, ShownIsOwn
<1> QED
  BY <1>1, <1>2, <1>3, <1>4 DEF Next, Serve, Handle

LEMMA Inductive == Spec => []IInv
<1> QED BY InitIInv, StepIInv, PTL DEF Spec

-----------------------------------------------------------------------------
\* The record of the request has its type: the steps of the code never meet a
\* user that is not one, a chain that has run out or an answer without a status.
THEOREM RequestTypes == Spec => []TypeOK
<1>1. IInv => TypeOK
  BY DEF IInv
<1> QED BY <1>1, Inductive, PTL

\* A user sees and reaches only pods of his own, for any number of pods and users.
THEOREM OnlyOwnPods == Spec => []OwnPodsOnly
<1>1. IInv => OwnPodsOnly
  <2> SUFFICES ASSUME IInv, NEW p \in req.shown PROVE Presents(rows[p].owner)
    BY DEF OwnPodsOnly
  <2> QED BY DEF IInv, ShownIsOwn, UserOfToken
<1> QED BY <1>1, Inductive, PTL

\* A request changes only rows of the user whose token it presents.
THEOREM OnlyOwnChanged == Spec => ChangesOwnOnly
<1> DEFINE A == req' # req => \A p \in Pulses : rows'[p] # rows[p] => Presents(rows'[p].owner)
<1>1. IInv /\ [Next]_vars => [A]_vars
  <2> SUFFICES ASSUME IInv, Next, req' # req, NEW p \in Pulses, rows'[p] # rows[p]
               PROVE  Presents(rows'[p].owner)
    OBVIOUS
  <2>1. ProvisionPod \/ DeletePod
    BY DEF Next, Serve, Others, OthersAdd, OthersDelete, Receive, Finish, Dispatch, Enrich,
           Authenticate, ListPods, Lookup, Touch, Target, Relay
  <2>2. req.user # Nobody /\ rows'[p].owner = req.user
    BY <2>1, Writes
  <2> QED BY <2>2 DEF IInv, UserOfToken
<1> QED BY <1>1, Inductive, PTL DEF Spec, ChangesOwnOnly

-----------------------------------------------------------------------------
\* The handler of a request is the one that the route table gives its path.
HandlerFits == req.handler # "none" => req.handler = Handler(req.method, req.path)

\* Only Receive, Finish and Dispatch set what was asked for or who handles it.
Routed == /\ req'.method = req.method /\ req'.path = req.path
          /\ req'.handler = req.handler

LEMMA LeavesRouted ==
  ASSUME req \in Requests
  PROVE  /\ \A st : Answer(st) => Routed
         /\ \A st, ps : Shows(st, ps) => Routed
         /\ \A pc : Goto(pc) => Routed
BY DEF Answer, Shows, Goto, Routed, Requests

LEMMA StepHandlerFits == IInv /\ HandlerFits /\ [Next]_vars => HandlerFits'
<1> SUFFICES ASSUME IInv, HandlerFits, [Next]_vars PROVE HandlerFits'
  OBVIOUS
<1>1. req \in Requests
  BY DEF IInv, TypeOK
<1>2. CASE Receive \/ Finish
  <2>1. \A m, path, hd, q :
          [Idle EXCEPT !.pc = "route", !.method = m, !.path = path,
                       !.header = hd, !.query = q].handler = "none"
    BY DEF Idle
  <2>2. req'.handler = "none"
    BY <1>2, <2>1 DEF Receive, Finish, Idle
  <2> QED BY <2>2 DEF HandlerFits
<1>3. CASE Dispatch
  <2> DEFINE h == Handler(req.method, req.path)
  <2>1. /\ req'.method = req.method /\ req'.path = req.path
        /\ req'.handler \in {h, req.handler}
    <3> HIDE DEF h
    <3>1. \/ Answer(404)
          \/ req' = [req EXCEPT !.pc = "done", !.handler = h, !.status = 200]
          \/ req' = [req EXCEPT !.pc = "chain", !.handler = h]
      BY <1>3 DEF Dispatch, h
    <3>2. CASE Answer(404)
      BY <1>1, <3>2, LeavesRouted DEF Routed
    <3>3. CASE ~ Answer(404)
      BY <1>1, <3>1, <3>3 DEF Requests
    <3> QED BY <3>2, <3>3
  <2> QED BY <2>1 DEF HandlerFits
<1>4. CASE Enrich \/ Authenticate
  <2>1. Routed
    BY <1>1, <1>4, LeavesRouted DEF Enrich, Authenticate, Passes, Routed, Requests
  <2> QED BY <2>1 DEF HandlerFits, Routed
<1>5. CASE Handle
  <2>1. Routed
    BY <1>1, <1>5, LeavesRouted
    DEF Handle, ListPods, Lookup, AfterLookup, ProvisionPod, DeletePod, Touch, Target, Relay,
        AsUser
  <2> QED BY <2>1 DEF HandlerFits, Routed
<1>6. CASE Others \/ UNCHANGED vars
  BY <1>6 DEF Others, OthersAdd, OthersDelete, vars, HandlerFits
<1> QED BY <1>2, <1>3, <1>4, <1>5, <1>6 DEF Next, Serve, Handle

\* No request is taken from a route that names its path more closely than the
\* one that takes it, but for the heartbeat: whatever the ids of the pulses, and
\* were one of them called "heartbeat" or "health".
THEOREM RoutesInOrder == Spec => []OnlyHeartbeatShadowed
<1>1. Init => HandlerFits
  BY DEF Init, Idle, HandlerFits
<1>2. HandlerFits => OnlyHeartbeatShadowed
  BY FirstIsNarrowest DEF HandlerFits, OnlyHeartbeatShadowed
<1> QED BY <1>1, <1>2, Inductive, StepHandlerFits, PTL DEF Spec
=============================================================================
