-------------------------------- MODULE ToolRun --------------------------------
(***************************************************************************)
(* tool_run: the router decides whether the action needs an approval; an   *)
(* interactive call gives one, once, for the session of the process or for *)
(* ever in the project's store; a headless call looks for one.  The set of *)
(* session approvals is read and written outside the store's closure.      *)
(***************************************************************************)
EXTENDS Integers, FiniteSets

CONSTANTS
    Actions,      \* action keys
    Stores,       \* projects, each with its state store
    Runners,      \* calls that may overlap
    MaxRuns,      \* bound on calls and restarts
    Mentions(_)   \* which of the words the router knows an action key contains

Words == {"search", "docs", "run", "execute", "config", "setup"}
Scopes == {"once", "session", "forever"}
ASSUME ToolRunAssumption == MaxRuns \in Nat /\ \A k \in Actions : Mentions(k) \subseteq Words

-----------------------------------------------------------------------------
(* The router's decision, reduced to requires_approval.                     *)
RouteRulesOnly(words) ==
    ~("search" \in words \/ "docs" \in words) /\ ("run" \in words \/ "execute" \in words)

ClassifyKeywords(words) ==
    IF {"search", "docs"} \intersect words # {} THEN "SearchDocs"
    ELSE IF {"run", "execute"} \intersect words # {} THEN "RunTool"
    ELSE IF {"config", "setup"} \intersect words # {} THEN "ConfigureSystem" ELSE "Unknown"

(* A provider's answer, or the rules after the last retry.                  *)
RouteWithProvider(words, answers) ==
    IF ~answers THEN RouteRulesOnly(words)
    ELSE CASE ClassifyKeywords(words) = "SearchDocs" -> FALSE
           [] ClassifyKeywords(words) = "RunTool" -> TRUE
           [] OTHER -> RouteRulesOnly(words)

(* route_tool_action classifies "run <key>": by the rules when the config   *)
(* cannot be loaded or says so, else by a provider.                         *)
RouteToolAction(k) ==
    LET words == Mentions(k) \union {"run"}
    IN {RouteRulesOnly(words)} \union {RouteWithProvider(words, a) : a \in BOOLEAN}

-----------------------------------------------------------------------------
VARIABLES
    sessionApprovals,  \* Broker.session_approvals: action keys, for every project
    forever,           \* table approvals of each store
    audits,            \* rows of tool_run in each store's audit_events
    runner,            \* what each call is doing
    runs,
    asked,             \* history: interactive calls made, session ones by this process
    told,              \* history: those of them that were acknowledged
    answered,          \* history: acknowledged calls that needed an approval, per store
    verdict            \* history: the last answer of a headless call

runVars == <<sessionApprovals, forever, audits, runner, runs, asked, told, answered, verdict>>

Grant == [scope: {"session"}, action: Actions]
         \union [scope: {"forever"}, store: Stores, action: Actions]
NoRun == [phase |-> "idle"]

RunTypeOK ==
    /\ sessionApprovals \subseteq Actions /\ forever \in [Stores -> SUBSET Actions]
    /\ audits \in [Stores -> 0 .. MaxRuns] /\ answered \in [Stores -> 0 .. MaxRuns]
    /\ \A c \in Runners : runner[c].phase \in {"idle", "headless", "interactive", "recording"}
    /\ runs \in 0 .. MaxRuns /\ asked \subseteq Grant /\ told \subseteq asked
    /\ verdict \in [due: BOOLEAN, allowed: BOOLEAN, asked: BOOLEAN]

RunInit ==
    /\ sessionApprovals = {} /\ forever = [s \in Stores |-> {}]
    /\ audits = [s \in Stores |-> 0] /\ answered = [s \in Stores |-> 0]
    /\ runner = [c \in Runners |-> NoRun] /\ runs = 0
    /\ asked = {} /\ told = {}
    /\ verdict = [due |-> FALSE, allowed |-> FALSE, asked |-> FALSE]

(* The grants that cover action k in store s.                               *)
Covers(grants, s, k) ==
    \E g \in grants : g.action = k /\ (g.scope = "forever" => g.store = s)

GrantOf(s, k, scope) ==
    CASE scope = "session" -> {[scope |-> "session", action |-> k]}
      [] scope = "forever" -> {[scope |-> "forever", store |-> s, action |-> k]}
      [] OTHER -> {}

EndsRun(c) == runner' = [runner EXCEPT ![c] = NoRun]

(* An action that needs no approval is allowed and not recorded.            *)
RunsFreely(k) ==
    /\ runs < MaxRuns /\ FALSE \in RouteToolAction(k)
    /\ runs' = runs + 1
    /\ UNCHANGED <<sessionApprovals, forever, audits, runner, asked, told, answered, verdict>>

(* The session approvals are read before the store is asked.                *)
HeadlessBegins(c, s, k) ==
    /\ runner[c] = NoRun /\ runs < MaxRuns /\ TRUE \in RouteToolAction(k)
    /\ runs' = runs + 1
    /\ runner' = [runner EXCEPT ![c] = [phase |-> "headless", store |-> s, action |-> k, scope |-> "once",
                    session |-> k \in sessionApprovals, due |-> Covers(told, s, k)]]
    /\ UNCHANGED <<sessionApprovals, forever, audits, asked, told, answered, verdict>>

(* In the store's closure; a failing read or record answers Err.            *)
HeadlessAnswers(c) ==
    LET r == runner[c]
        allowed == r.session \/ r.action \in forever[r.store] IN
    /\ r.phase = "headless" /\ EndsRun(c)
    /\ audits' = [audits EXCEPT ![r.store] = @ + 1]
    /\ answered' = [answered EXCEPT ![r.store] = @ + 1]
    /\ verdict' = [due |-> r.due, allowed |-> allowed, asked |-> Covers(asked, r.store, r.action)]
    /\ UNCHANGED <<sessionApprovals, forever, runs, asked, told>>

MutInteractiveBegins(c, s, k, scope) ==   \* anything but "forever" is for the session
    /\ runner[c] = NoRun /\ runs < MaxRuns /\ TRUE \in RouteToolAction(k)
    /\ runs' = runs + 1
    /\ sessionApprovals' = sessionApprovals \union (IF scope # "forever" THEN {k} ELSE {})
    /\ asked' = asked \union GrantOf(s, k, scope)
    /\ runner' = [runner EXCEPT ![c] = [phase |-> "interactive", store |-> s, action |-> k, scope |-> scope,
                                        session |-> FALSE, due |-> FALSE]]
    /\ UNCHANGED <<forever, audits, told, answered, verdict>>

(* A session approval is in force before the store is asked.                *)
InteractiveBegins(c, s, k, scope) ==
    /\ runner[c] = NoRun /\ runs < MaxRuns /\ TRUE \in RouteToolAction(k)
    /\ runs' = runs + 1
    /\ sessionApprovals' = sessionApprovals \union (IF scope = "session" THEN {k} ELSE {})
    /\ asked' = asked \union GrantOf(s, k, scope)
    /\ runner' = [runner EXCEPT ![c] = [phase |-> "interactive", store |-> s, action |-> k, scope |-> scope,
                                        session |-> FALSE, due |-> FALSE]]
    /\ UNCHANGED <<forever, audits, told, answered, verdict>>

(* set_approval, then record_audit_event: two statements.                   *)
InteractiveApproves(c) ==
    LET r == runner[c] IN
    /\ r.phase = "interactive"
    /\ runner' = [runner EXCEPT ![c].phase = "recording"]
    /\ forever' = [forever EXCEPT ![r.store] = @ \union (IF r.scope = "forever" THEN {r.action} ELSE {})]
    /\ UNCHANGED <<sessionApprovals, audits, runs, asked, told, answered, verdict>>

InteractiveRecords(c) ==
    LET r == runner[c] IN
    /\ r.phase = "recording" /\ EndsRun(c)
    /\ audits' = [audits EXCEPT ![r.store] = @ + 1]
    /\ answered' = [answered EXCEPT ![r.store] = @ + 1]
    /\ told' = told \union GrantOf(r.store, r.action, r.scope)
    /\ UNCHANGED <<sessionApprovals, forever, runs, asked, verdict>>

MutStoreRefuses(c) ==   \* the error is logged and the approval acknowledged
    /\ runner[c].phase # "idle" /\ EndsRun(c)
    /\ answered' = [answered EXCEPT ![runner[c].store] = @ + 1]
    /\ told' = told \union GrantOf(runner[c].store, runner[c].action, runner[c].scope)
    /\ UNCHANGED <<sessionApprovals, forever, audits, runs, asked, verdict>>

(* Opening the store, the approval or the record fails: the answer is Err,  *)
(* and what was done before stays.                                          *)
StoreRefuses(c) ==
    /\ runner[c].phase # "idle" /\ EndsRun(c)
    /\ UNCHANGED <<sessionApprovals, forever, audits, runs, asked, told, answered, verdict>>

(* The process stops: session approvals are gone.                           *)
RunRestart ==
    /\ runs < MaxRuns /\ runs' = runs + 1
    /\ sessionApprovals' = {} /\ runner' = [c \in Runners |-> NoRun]
    /\ asked' = {g \in asked : g.scope = "forever"}
    /\ told' = {g \in told : g.scope = "forever"}
    /\ UNCHANGED <<forever, audits, answered, verdict>>

RunNext ==
    \/ \E k \in Actions : RunsFreely(k)
    \/ \E c \in Runners :
          \/ \E s \in Stores, k \in Actions : HeadlessBegins(c, s, k)
          \/ \E s \in Stores, k \in Actions, scope \in Scopes : InteractiveBegins(c, s, k, scope)
          \/ HeadlessAnswers(c) \/ InteractiveApproves(c) \/ InteractiveRecords(c) \/ StoreRefuses(c)
    \/ RunRestart

RunSpec == RunInit /\ [][RunNext]_runVars

-----------------------------------------------------------------------------
(* Properties.                                                              *)
(* A headless run is allowed when an approval that covers it had been       *)
(* acknowledged before it began, and only when one was asked for: for this  *)
(* project for ever, or by this process for the session.                    *)
ApprovalsHold == (verdict.due => verdict.allowed) /\ (verdict.allowed => verdict.asked)

(* No call is answered without its row in audit_events, and whether one     *)
(* needs an approval does not depend on the way the router took.            *)
AnsweredIsAudited ==
    /\ \A s \in Stores : answered[s] <= audits[s]
    /\ \A k \in Actions : Cardinality(RouteToolAction(k)) = 1
=============================================================================
