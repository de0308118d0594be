----------------------------- MODULE ApiWorkflow -----------------------------
(***************************************************************************)
(* The plugin api-workflow: a request runs through a graph of tasks, each a *)
(* call to a service; a task runs when all that lead to it are through.     *)
(* How many are missing is counted in a map, which every request of the     *)
(* machine is given out of the configuration.                               *)
(***************************************************************************)
EXTENDS Integers, FiniteSets, Sequences, SequencesExt

CONSTANTS
    Request,    \* the requests of one behaviour
    Node,       \* the tasks
    Edges,      \* the edges, a sequence of [source, target, conditional], as configured
    MaxDepth    \* Env.MaxDepth

Start == "start"
End == "end"
Continue == "continue"

VARIABLES
    status,    \* config.Workflow.WorkflowExecStatus
    req        \* the requests

workflowVars == <<status, req>>

\* The edges into a task that does not come first.
InitWorkflowExecStatus ==
    [n \in Node |-> Cardinality({i \in DOMAIN Edges : Edges[i].target = n /\ Edges[i].source # Start})]

\* A request keeps the bodies of its tasks and the calls it waits for. failed says that
\* something of its own went wrong.
WorkflowInit ==
    /\ status = InitWorkflowExecStatus
    /\ req = [r \in Request |-> [stage |-> "arriving", calls |-> {}, bodies |-> {},
                                 answer |-> 0, failed |-> FALSE]]

-----------------------------------------------------------------------------
(* What a handler makes of its request, q, and of the counts; stop ends its loop. *)

\* The request waits for its tasks, or a "continue" has let it go on and tasks are still out.
Alive(q) == q.stage \in {"running", "upstream"}

\* The first answer ends the request, and with it the calls it waits for.
SendHttpResponse(s, code) ==
    IF ~ Alive(s.q) THEN s
    ELSE [s EXCEPT !.q.stage = "over", !.q.answer = code, !.q.calls = {}]

ResumeHttpRequest(s) == IF s.q.stage # "running" THEN s ELSE [s EXCEPT !.q.stage = "upstream"]

Failing(s) == [SendHttpResponse([s EXCEPT !.q.failed = TRUE], 500) EXCEPT !.stop = TRUE]

\* recursive, with its error handled by the caller. What is asked of a task may need the
\* bodies of others, and the call may not be made.
Recursive(s, e, depth) ==
    CASE depth > MaxDepth -> {Failing(s)}
      [] e.target = End -> {SendHttpResponse(s, 200)}
      [] e.target = Continue -> {ResumeHttpRequest(s)}
      [] OTHER -> {Failing(s), IF Alive(s.q)
                               THEN [s EXCEPT !.q.calls = @ \cup {[node |-> e.target, depth |-> depth]}]
                               ELSE s}

Missing(s, n) == [s EXCEPT !.status[n] = @ - 1]

\* The condition of an edge that is open to it: it runs, it is passed over, it makes no sense.
Weighed(s, e, depth) ==
    IF ~ e.conditional THEN Recursive(s, e, depth)
    ELSE Recursive(s, e, depth) \cup {Failing(s)}
            \cup {IF e.target \in Node THEN Missing(s, e.target) ELSE s}

\* An edge that leads on from the task that has returned.
Follow(s, e, depth) ==
    IF e.target \notin Node THEN Weighed(s, e, depth)
    ELSE LET counted == Missing(s, e.target)
         IN CASE counted.status[e.target] > 0 -> {[counted EXCEPT !.stop = TRUE]}
              [] counted.status[e.target] < 0 -> {[SendHttpResponse(counted, 500) EXCEPT !.stop = TRUE]}
              [] OTHER -> Weighed(counted, e, depth)

\* The loop over the edges of one source.
FollowAll(s, source, depth) ==
    FoldLeft(LAMBDA S, e : UNION {IF t.stop \/ e.source # source THEN {t} ELSE Follow(t, e, depth) : t \in S},
             {s}, Edges)

\* The loop over the first edges goes on after an error.
BeginAll(s) ==
    FoldLeft(LAMBDA S, e : UNION {IF e.source # Start THEN {t} ELSE Recursive(t, e, 1) : t \in S},
             {s}, Edges)

Outcome(r, s) == status' = s.status /\ req' = [req EXCEPT ![r] = s.q]

OnHttpRequestBody(r) ==
    /\ req[r].stage = "arriving"
    /\ \E s \in BeginAll([q |-> [req[r] EXCEPT !.stage = "running"], status |-> status, stop |-> FALSE]) :
        Outcome(r, s)

\* The callback of a task, as long as its request is there.
TaskReturns(r) ==
    /\ Alive(req[r])
    /\ \E call \in req[r].calls :
        LET back == [req[r] EXCEPT !.calls = @ \ {call}]
            s == [q |-> back, status |-> status, stop |-> FALSE]
        IN \/ Outcome(r, Failing(s))
           \/ \E t \in FollowAll([s EXCEPT !.q.bodies = @ \cup {call.node}], call.node, call.depth + 1) :
                Outcome(r, t)

UpstreamAnswers(r) ==
    /\ req[r].stage = "upstream"
    /\ Outcome(r, SendHttpResponse([q |-> req[r], status |-> status], 200))

ClientLeaves(r) ==
    /\ Alive(req[r])
    /\ req' = [req EXCEPT ![r].stage = "over", ![r].calls = {}]
    /\ UNCHANGED status

WorkflowNext ==
    \E r \in Request : OnHttpRequestBody(r) \/ TaskReturns(r) \/ UpstreamAnswers(r) \/ ClientLeaves(r)
WorkflowSpec == WorkflowInit /\ [][WorkflowNext]_workflowVars

-----------------------------------------------------------------------------
\* The state of the run is initialised for every request (main.go:183), and so a request is
\* refused only if something of its own went wrong: a task, a condition, or a call.
RefusedOnlyIfFailed == \A r \in Request : req[r].answer = 500 => req[r].failed
-----------------------------------------------------------------------------
\* The graph of the plugin's README: three tasks lead to D, and E runs if D says so.
Edge(source, target, conditional) ==
    [source |-> source, target |-> target, conditional |-> conditional]

ReadmeEdges ==
    <<Edge(Start, "A", FALSE), Edge(Start, "B", FALSE), Edge(Start, "C", FALSE),
      Edge("A", "D", FALSE), Edge("B", "D", FALSE), Edge("C", "D", FALSE),
      Edge("D", End, TRUE), Edge("D", "E", TRUE), Edge("E", End, FALSE)>>
=============================================================================
