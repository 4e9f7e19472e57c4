---------------------------- MODULE ForwardTable ----------------------------
(***************************************************************************)
(* What PortForwardManager promises its callers, with no word of locks,    *)
(* dials and connections: one table of forwards.  Every call takes effect  *)
(* at one moment between its begin and its end.  One that asks for a pod   *)
(* gets what the table has or, only when it has nothing, puts a new        *)
(* forward there or fails; and nothing but a call that asks for it takes   *)
(* an entry away.                                                          *)
(***************************************************************************)
CONSTANTS Pods, Callers, Forwards, None

VARIABLES
  table,  \* the forward of each pod, or None
  asks,   \* what each caller waits for
  answer  \* what its last call returned

tableVars == <<table, asks, answer>>

Nothing == [op |-> "nothing", pod |-> None]

Questions == [op : {"get", "drop"}, pod : Pods] \cup {[op |-> "dropAll", pod |-> None]}

Init ==
  /\ table = [p \in Pods |-> None]
  /\ asks = [g \in Callers |-> Nothing]
  /\ answer = [g \in Callers |-> None]

Ask(g) ==
  /\ asks[g] = Nothing
  /\ \E q \in Questions : asks' = [asks EXCEPT ![g] = q]
  /\ answer' = [answer EXCEPT ![g] = None]
  /\ UNCHANGED table

Ends(g, a) ==
  /\ asks' = [asks EXCEPT ![g] = Nothing]
  /\ answer' = [answer EXCEPT ![g] = a]

Gets(g, p) == asks[g].op = "get" /\ asks[g].pod = p

Find(g, p) ==
  /\ Gets(g, p) /\ table[p] # None
  /\ Ends(g, table[p])
  /\ UNCHANGED table

Open(g, p, c) ==
  /\ Gets(g, p) /\ table[p] = None
  /\ \A q \in Pods : table[q] # c
  /\ table' = [table EXCEPT ![p] = c]
  /\ Ends(g, c)

Fail(g, p) ==
  /\ Gets(g, p) /\ table[p] = None
  /\ Ends(g, None)
  /\ UNCHANGED table

Drop(g) ==
  /\ asks[g].op \in {"drop", "dropAll"}
  /\ table' = [p \in Pods |-> IF asks[g].op = "dropAll" \/ asks[g].pod = p THEN None
                              ELSE table[p]]
  /\ Ends(g, None)

Next ==
  \E g \in Callers :
    \/ Ask(g) \/ Drop(g)
    \/ \E p \in Pods : \/ Find(g, p) \/ Fail(g, p)
                       \/ \E c \in Forwards : Open(g, p, c)

Spec == Init /\ [][Next]_tableVars
=============================================================================
