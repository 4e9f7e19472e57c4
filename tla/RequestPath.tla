----------------------------- MODULE RequestPath -----------------------------
(***************************************************************************)
(* The way of an HTTP request through the server: the route table of main, *)
(* the two middlewares, the handler that the route names, and, for a       *)
(* request to a pod, the proxy.  What a handler decides rests on one row   *)
(* of the table of pods, which other requests and the sweep change between *)
(* any two steps.  ProvisionPod and DeletePod stand for what               *)
(* ProvisionService does: the row that they add, or take away.             *)
(***************************************************************************)
EXTENDS Sequences, FiniteSetsExt

CONSTANTS Pulses,   \* pulse ids
          Users,    \* user ids
          Nobody    \* no user, no token

ASSUME RequestPathAssumption ==
  /\ Nobody \notin Users \cup {"invalid", "noUser"}
  /\ Users \cap {"invalid", "noUser"} = {}

VARIABLES
  rows,   \* per pulse: its owner, and whether GetByPulseID finds it
  req     \* the request at hand and the locals of its goroutine

vars == <<rows, req>>

\* A token: not signed by the secret, without a proper user_id, or of a user.
Tokens == {"invalid", "noUser"} \cup Users

-----------------------------------------------------------------------------
(* The route table. *)

PulseID == "{pulse_id}"

Route(method, path, handler) ==
  [methods |-> {method}, path |-> path, prefix |-> FALSE, handler |-> handler]

Methods == {"GET", "POST", "DELETE"}

Prefix(path, handler) ==
  [methods |-> Methods, path |-> path, prefix |-> TRUE, handler |-> handler]

PublicRoutes ==
  << Route("GET", <<"health">>, "Health"),
     Route("GET", <<"status">>, "Status"),
     Route("GET", <<"metrics">>, "Metrics"),
     Route("GET", <<>>, "Root") >>

\* Mutant: the prefix of the proxy is registered before the health check.
ProtectedRoutesPrefixFirst ==
  << Route("POST", <<"provision">>, "ProvisionPod"),
     Route("GET", <<"provision">>, "ListPods"),
     Route("GET", <<"provision", PulseID>>, "GetPod"),
     Route("DELETE", <<"provision", PulseID>>, "DeletePod"),
     Prefix(<<"pulse", PulseID>>, "ProxyToPod"),
     Route("GET", <<"pulse", PulseID, "health">>, "HealthCheck"),
     Route("POST", <<"pulse", "heartbeat">>, "Heartbeat") >>

ProtectedRoutes ==
  << Route("POST", <<"provision">>, "ProvisionPod"),
     Route("GET", <<"provision">>, "ListPods"),
     Route("GET", <<"provision", PulseID>>, "GetPod"),
     Route("DELETE", <<"provision", PulseID>>, "DeletePod"),
     Route("GET", <<"pulse", PulseID, "health">>, "HealthCheck"),
     Prefix(<<"pulse", PulseID>>, "ProxyToPod"),
     Route("POST", <<"pulse", "heartbeat">>, "Heartbeat") >>

Routes == PublicRoutes \o ProtectedRoutes

\* A variable of a route stands for any one segment.
Fits(r, method, path) ==
  /\ method \in r.methods
  /\ Len(path) = Len(r.path) \/ (r.prefix /\ Len(path) > Len(r.path))
  /\ \A i \in 1..Len(r.path) : r.path[i] \in {PulseID, path[i]}

Matching(method, path) == {i \in 1..Len(Routes) : Fits(Routes[i], method, path)}

\* The first route that fits takes the request.
Handler(method, path) ==
  LET ms == Matching(method, path)
  IN  IF ms = {} THEN "none" ELSE Routes[Min(ms)].handler

IsPublic(h) == \E i \in 1..Len(PublicRoutes) : PublicRoutes[i].handler = h

Segments == Pulses \cup {"health", "heartbeat", "file"}

\* The paths that are asked for, each with more than one outcome by its method.
Paths ==
  {<<>>, <<"health">>, <<"metrics">>, <<"provision">>, <<"pulse">>}
    \cup {<<top, s>> : top \in {"provision", "pulse"}, s \in Segments}
    \cup {<<"pulse", s, t>> : s \in Pulses, t \in {"health", "file"}}

-----------------------------------------------------------------------------
Steps == {"idle", "route", "chain", "list", "lookup", "provision", "delete",
          "touch", "target", "relay", "done"}
Handlers == {"none", "Health", "Status", "Metrics", "Root", "ProvisionPod", "ListPods",
             "GetPod", "DeletePod", "HealthCheck", "ProxyToPod", "Heartbeat"}
Statuses == {0, 200, 201, 204, 400, 401, 403, 404, 500, 502}

NoRow == [owner |-> Nobody, found |-> FALSE]

Requests ==
  [pc : Steps, method : Methods, path : Paths, header : Tokens \cup {Nobody},
   query : Tokens \cup {Nobody}, handler : Handlers, passed : 0..2,
   user : Users \cup {Nobody}, traced : Users \cup {Nobody}, status : Statuses,
   shown : SUBSET Pulses]

TypeOK ==
  /\ rows \in [Pulses -> [owner : Users \cup {Nobody}, found : BOOLEAN]]
  /\ req \in Requests

Idle == [pc |-> "idle", method |-> "GET", path |-> <<>>, header |-> Nobody,
         query |-> Nobody, handler |-> "none", passed |-> 0, user |-> Nobody,
         traced |-> Nobody, status |-> 0, shown |-> {}]

Init ==
  /\ rows = [p \in Pulses |-> NoRow]
  /\ req = Idle

-----------------------------------------------------------------------------
(* Other requests and the sweep. *)

OthersAdd ==
  /\ \E p \in Pulses, u \in Users :
       rows[p] = NoRow /\ rows' = [rows EXCEPT ![p] = [owner |-> u, found |-> TRUE]]
  /\ UNCHANGED req

OthersDelete ==
  /\ \E p \in Pulses : rows[p].found /\ rows' = [rows EXCEPT ![p].found = FALSE]
  /\ UNCHANGED req

-----------------------------------------------------------------------------
At(pc) == req.pc = pc
Goto(pc) == req' = [req EXCEPT !.pc = pc]
Answer(status) == req' = [req EXCEPT !.pc = "done", !.status = status]
Shows(status, ps) == req' = [req EXCEPT !.pc = "done", !.status = status, !.shown = ps]

\* A header that is not "Bearer" and a token counts as none, like Nobody.
Receive ==
  /\ At("idle")
  /\ \E m \in Methods, path \in Paths, hd, q \in Tokens \cup {Nobody} :
       req' = [Idle EXCEPT !.pc = "route", !.method = m, !.path = path,
                           !.header = hd, !.query = q]
  /\ UNCHANGED rows

\* The response is out and the goroutine of the request is gone.
Finish ==
  /\ At("done")
  /\ req' = Idle
  /\ UNCHANGED rows

\* mux: no route is 404 or 405, and runs no middleware.
Dispatch ==
  /\ At("route")
  /\ LET h == Handler(req.method, req.path)
     IN  CASE h = "none"  -> Answer(404)
           [] IsPublic(h) -> req' = [req EXCEPT !.pc = "done", !.handler = h, !.status = 200]
           [] OTHER       -> req' = [req EXCEPT !.pc = "chain", !.handler = h]
  /\ UNCHANGED rows

\* The middlewares in the order in which main installs them.
Chain == <<"Enrich", "Authenticate">>

AfterChain(h) ==
  CASE h = "ProvisionPod" -> "provision"
    [] h = "ListPods"     -> "list"
    [] h = "Heartbeat"    -> "done"
    [] OTHER              -> "lookup"

Passes(new) ==
  req' = [new EXCEPT !.passed = @ + 1,
                     !.pc = IF req.passed + 1 = Len(Chain) THEN AfterChain(req.handler) ELSE @,
                     !.status = IF req.handler = "Heartbeat" THEN 200 ELSE @]

\* The telemetry context takes the user that is in the request's context by now.
Enrich ==
  /\ At("chain") /\ Chain[req.passed + 1] = "Enrich"
  /\ Passes([req EXCEPT !.traced = req.user])
  /\ UNCHANGED rows

\* Mutant: the token of the URL is preferred to that of the header.
TokenOfQueryFirst == IF req.query # Nobody THEN req.query ELSE req.header

\* The token of the header, or else that of the URL.
Token == IF req.header # Nobody THEN req.header ELSE req.query

\* Mutant: the signature is enough.
VerifiedBySignature(token) == token \in Users \cup {"noUser"}

\* The signature is that of the server and user_id is a UUID.
Verified(token) == token \in Users

Authenticate ==
  /\ At("chain") /\ Chain[req.passed + 1] = "Authenticate"
  /\ IF Verified(Token) THEN Passes([req EXCEPT !.user = Token]) ELSE Answer(401)
  /\ UNCHANGED rows

-----------------------------------------------------------------------------
(* The handlers.  Each begins with GetUserID. *)

AsUser(Action) == IF req.user = Nobody THEN Answer(401) ELSE Action

ThePulse == req.path[2]

\* GetByPulseID of what the URL names, which need not be a pulse id.
Finds(p) == p \in Pulses /\ rows[p].found

\* Mutant: nobody compares the owner with the user.
OwnsOfAny(p) == rows[p].owner # Nobody

Owns(p) == rows[p].owner = req.user

ListPods ==
  /\ At("list")
  /\ AsUser(\/ Shows(200, {p \in Pulses : rows[p].found /\ rows[p].owner = req.user})
            \/ Answer(500))
  /\ UNCHANGED rows

AfterLookup ==
  CASE req.handler = "DeletePod"  -> Goto("delete")
    [] req.handler = "ProxyToPod" -> Goto("touch")
    [] OTHER                      -> Shows(200, {ThePulse})

\* GetPod of ProvisionService and the check of the owner; a failed query is
\* answered like a row that is not there.
Lookup ==
  /\ At("lookup")
  /\ AsUser(\/ Answer(404)
            \/ /\ Finds(ThePulse)
               /\ IF Owns(ThePulse) THEN AfterLookup ELSE Answer(403))
  /\ UNCHANGED rows

\* The body is refused, the service fails, or it leaves a row for a new id.
ProvisionPod ==
  /\ At("provision")
  /\ \/ AsUser(Answer(400) \/ Answer(500)) /\ UNCHANGED rows
     \/ \E p \in Pulses :
          /\ req.user # Nobody
          /\ rows[p] = NoRow
          /\ rows' = [rows EXCEPT ![p] = [owner |-> req.user, found |-> TRUE]]
          /\ Answer(201)

\* DeletePod of ProvisionService looks the row up once more, by its id alone.
DeletePod ==
  /\ At("delete")
  /\ \/ Answer(500) /\ UNCHANGED rows
     \/ /\ Finds(ThePulse)
        /\ rows' = [rows EXCEPT ![ThePulse].found = FALSE]
        /\ Answer(204)

-----------------------------------------------------------------------------
(* The rest of ProxyToPod. *)

\* UpdatePodActivity, by the id alone and without a look at its result.
Touch ==
  /\ At("touch")
  /\ Goto("target")
  /\ UNCHANGED rows

\* The port of a forward, when that is how pods are reached, or the service.
Target ==
  /\ At("target")
  /\ Goto("relay") \/ Answer(502)
  /\ UNCHANGED rows

\* The reverse proxy: the pod's answer, or that of ErrorHandler.
Relay ==
  /\ At("relay")
  /\ Shows(200, {ThePulse}) \/ Answer(502)
  /\ UNCHANGED rows

-----------------------------------------------------------------------------
Others == OthersAdd \/ OthersDelete

Serve == \/ Dispatch \/ Enrich \/ Authenticate
         \/ ListPods \/ Lookup \/ ProvisionPod \/ DeletePod
         \/ Touch \/ Target \/ Relay

Next == Others \/ Receive \/ Finish \/ Serve

Spec == Init /\ [][Next]_vars

-----------------------------------------------------------------------------
(* Properties. *)

\* The request came with a token of user u: in its header or, without one
\* there, in its URL.
Presents(u) == u \in Users /\ (req.header = u \/ (req.header = Nobody /\ req.query = u))

\* Whatever pod a request is shown, or is relayed to, belongs to the user whose
\* token came with that request, although the row is read several steps before
\* and others delete and add rows meanwhile (README_PROVISIONING.md:259).
OwnPodsOnly == \A p \in req.shown : Presents(rows[p].owner)

\* A step of a request changes only rows of the user whose token it presents:
\* the deletion goes by the id alone, several steps after the owner was checked.
ChangesOwnOnly ==
  [][req' # req => \A p \in Pulses : rows'[p] # rows[p] => Presents(rows'[p].owner)]_vars

\* i names more of the path than j does: another literal segment, or an end.
Narrower(i, j) ==
  LET lit(k) == {n \in 1..Len(Routes[k].path) : Routes[k].path[n] # PulseID}
  IN  /\ lit(j) \subseteq lit(i)
      /\ lit(j) # lit(i) \/ (Routes[j].prefix /\ ~Routes[i].prefix)

\* Registration order decides, not precision: still no request is taken from a
\* route that names its path more closely, but for the heartbeat, whose route
\* the prefix of the proxy shadows (main.go:214 and :217).
OnlyHeartbeatShadowed ==
  req.handler # "none" =>
    LET ms == Matching(req.method, req.path)
    IN  \E i \in ms :
          /\ Routes[i].handler = req.handler
          /\ \A j \in ms : Narrower(j, i) => Routes[j].handler = "Heartbeat"

=============================================================================
