------------------------------- MODULE JsonRpc -------------------------------
(***************************************************************************)
(* The JSON-RPC front of the broker (the-one-mcp/src/transport): the three  *)
(* transports, the dispatcher and its tools.  A client writes frames on a   *)
(* connection; stdio takes them one after the other and finishes each one   *)
(* before the next, the two HTTP transports run every post on its own.      *)
(* What the broker does is the subject of the other modules: here it ends   *)
(* in an answer or in an error of one of ErrorKinds.                        *)
(***************************************************************************)
EXTENDS Integers, FiniteSets, Sequences

CONSTANTS
    Connections,      \* one client each
    Transports,       \* "stdio", and "http" for sse and stream, which differ in how a body is written
    ErrorKinds        \* of CoreError

NoId == 0             \* no id, or the id null, which reads as none
NoCorrelation == 0

METHOD_NOT_FOUND == -32601
INVALID_PARAMS == -32602
INTERNAL_ERROR == -32603
PARSE_ERROR == -32700
Success == 0          \* an answer with a result

VARIABLES
    transport,        \* the one the server was started with
    frames,           \* frames[c]: what the client wrote, in order
    stage,            \* stage[c][i]: how far its i-th frame is
    serving,          \* serving[c]: "open", "deaf" (its answers are lost) or "ended"
    answers,          \* answers[c]: what the client was written, in order
    nextCorrelation,  \* CORRELATION_ID
    saved             \* the document that docs.save names exists

rpcVars == <<transport, frames, stage, serving, answers, nextCorrelation, saved>>

-----------------------------------------------------------------------------
(* The tools, and the arguments without which the dispatcher refuses a call. *)
Root == {"project_root"}
Project == {"project_root", "project_id"}
For(calls, arguments) == calls \X {arguments}

MemoryCalls ==
    For({"memory.search"}, Project \union {"query"})
    \union For({"memory.fetch_chunk"}, Project \union {"id"})
    \union For({"memory.ingest_conversation", "memory.aaak.compress", "memory.aaak.teach"},
           Project \union {"path", "format"})
    \union For({"memory.aaak.list_lessons"}, Project)

DiaryCalls ==
    For({"memory.diary.add"}, Project \union {"entry_date", "content"})
    \union For({"memory.diary.list", "memory.diary.summarize"}, Project)
    \union For({"memory.diary.search"}, Project \union {"query"})

NavigationCalls ==
    For({"memory.navigation.upsert_node"}, Project \union {"node_id", "kind", "label"})
    \union For({"memory.navigation.link_tunnel"}, Project \union {"from_node_id", "to_node_id"})
    \union For({"memory.navigation.list", "memory.wake_up"}, Project)
    \union For({"memory.navigation.traverse"}, Project \union {"start_node_id"})

DocsCalls ==
    For({"docs.list"}, Project)
    \union For({"docs.get", "docs.delete"}, Project \union {"path"})
    \union For({"docs.save"}, Project \union {"path", "content"})
    \union For({"docs.move"}, Project \union {"from", "to"})

ToolCalls ==
    For({"tool.find list"}, Project \union {"mode"})
    \union For({"tool.find suggest", "tool.find search"}, Project \union {"mode", "query"})
    \union For({"tool.info"}, {"tool_id"})
    \union For({"tool.install"}, Project \union {"tool_id"})
    \union For({"tool.run"}, Project \union {"action_key"})

ImageCalls ==
    For({"memory.search_images"}, Project)
    \union For({"memory.ingest_image"}, Project \union {"path"})

SetupCalls == For({"setup project", "setup refresh", "setup profile"}, Project)

ConfigCalls ==
    For({"config export", "config update"}, Root)
    \union For({"config profile.set"}, Root \union {"profile"})
    \union For({"config tool.add"}, {"id", "name", "description", "install_command", "run_command"})
    \union For({"config tool.remove"}, {"tool_id"})
    \union For({"config models.list", "config models.check"}, {})

MaintainCalls ==
    For({"maintain reindex", "maintain trash.list", "maintain trash.empty"}, Project)
    \union For({"maintain tool.enable"}, Root \union {"family"})
    \union For({"maintain tool.disable"}, Project \union {"tool_id"})
    \union For({"maintain tool.refresh"}, {})
    \union For({"maintain trash.restore"}, Project \union {"path"})

UpkeepCalls ==   \* of maintain too: images, the graph, backups and hooks
    For({"maintain images.rescan", "maintain images.clear",
         "maintain graph.extract", "maintain graph.stats"}, Project)
    \union For({"maintain images.delete"}, Project \union {"path"})
    \union For({"maintain backup"}, Project \union {"output_path"})
    \union For({"maintain restore"}, {"backup_path", "target_project_root", "target_project_id"})
    \union For({"maintain memory.capture_hook"}, Project \union {"path", "format", "event"})

ObserveCalls == For({"observe metrics"}, {}) \union For({"observe events"}, Project)

Needs ==
    MemoryCalls \union DiaryCalls \union NavigationCalls \union DocsCalls \union ToolCalls \union ImageCalls
    \union SetupCalls \union ConfigCalls \union MaintainCalls \union UpkeepCalls \union ObserveCalls

(* The broker answers these whatever happens: what fails in them is logged. *)
Infallible == {"memory.search", "memory.fetch_chunk", "docs.list", "docs.get", "tool.find suggest",
               "tool.find search", "config models.list", "config models.check",
               "maintain graph.stats", "observe metrics"}

-----------------------------------------------------------------------------
(* What tools/list tells a client to give: the required arguments of the    *)
(* schema of a tool, and those a description names for an action or a mode. *)
MemoryAdvertised ==
    For({"memory.search"}, Project \union {"query"})
    \union For({"memory.fetch_chunk"}, Project \union {"id"})
    \union For({"memory.search_images", "memory.aaak.list_lessons"}, Project)
    \union For({"memory.ingest_image"}, Project \union {"path"})
    \union For({"memory.ingest_conversation", "memory.aaak.compress", "memory.aaak.teach"},
           Project \union {"path", "format"})

PalaceAdvertised ==
    For({"memory.diary.add"}, Project \union {"entry_date", "content"})
    \union For({"memory.diary.search"}, Project \union {"query"})
    \union For({"memory.diary.list", "memory.diary.summarize", "memory.navigation.list", "memory.wake_up"}, Project)
    \union For({"memory.navigation.upsert_node"}, Project \union {"node_id", "kind", "label"})
    \union For({"memory.navigation.link_tunnel"}, Project \union {"from_node_id", "to_node_id"})
    \union For({"memory.navigation.traverse"}, Project \union {"start_node_id"})

DocsAdvertised ==
    For({"docs.list"}, Project)
    \union For({"docs.get", "docs.delete"}, Project \union {"path"})
    \union For({"docs.save"}, Project \union {"path", "content"})
    \union For({"docs.move"}, Project \union {"from", "to"})

ToolsAdvertised ==
    For({"tool.find list"}, Project \union {"mode"})
    \union For({"tool.find suggest", "tool.find search"}, Project \union {"mode", "query"})
    \union For({"tool.info"}, {"tool_id"})
    \union For({"tool.install"}, Project \union {"tool_id"})
    \union For({"tool.run"}, Project \union {"action_key"})

AdminAdvertised ==
    For({"setup project", "setup refresh", "setup profile"}, Project)
    \union For({"config export"}, Root) \union For({"config update"}, Root \union {"update"})
    \union For({"config profile.set"}, Root \union {"profile"})
    \union For({"config tool.add"}, {"id", "name", "description", "install_command", "run_command"})
    \union For({"config tool.remove"}, {"tool_id"})
    \union For({"config models.list", "config models.check", "observe metrics"}, {})
    \union For({"maintain reindex", "maintain tool.refresh", "maintain trash.list", "maintain trash.empty",
            "maintain images.rescan", "maintain images.clear", "observe events"}, Project)
    \union For({"maintain tool.enable"}, Root \union {"family"})
    \union For({"maintain tool.disable"}, Project \union {"tool_id"})
    \union For({"maintain trash.restore", "maintain images.delete"}, Project \union {"path"})
    \union For({"maintain memory.capture_hook"}, Project \union {"path", "format", "event"})

tool_definitions ==
    MemoryAdvertised \union PalaceAdvertised \union DocsAdvertised \union ToolsAdvertised \union AdminAdvertised
-----------------------------------------------------------------------------
(* What a client may write, for the scripts: a call with the arguments of   *)
(* its dispatcher or of its advertisement, or with one of them missing, or   *)
(* with a value that is not read (a format, a mode, tags that are no array). *)
Frame(kind, id, method, call, given, odd) ==
    [kind |-> kind, id |-> id, method |-> method, call |-> call, given |-> given, odd |-> odd]
Calling(id, call, given, odd) == Frame("request", id, "tools/call", call, given, odd)

Sent(c, i) == frames[c][i]
Indices(c) == DOMAIN frames[c]
Sequential == transport = "stdio"

RpcInit ==
    /\ transport \in Transports
    /\ frames = [c \in Connections |-> <<>>]
    /\ stage = [c \in Connections |-> <<>>]
    /\ serving = [c \in Connections |-> "open"]
    /\ answers = [c \in Connections |-> <<>>]
    /\ nextCorrelation = 1
    /\ saved \in BOOLEAN

(* A client writes its next frame, whatever was answered to the last; the    *)
(* process of a stdio server has one client.                                *)
WriteFrame(c, frame) ==
    /\ serving[c] # "ended"
    /\ Sequential => \A d \in Connections \ {c} : Indices(d) = {}
    /\ frames' = [frames EXCEPT ![c] = Append(@, frame)]
    /\ stage' = [stage EXCEPT ![c] = Append(@, "sent")]
    /\ UNCHANGED <<transport, serving, answers, nextCorrelation, saved>>

(* A client stops reading: what is written to it fails, and that is ignored. *)
HangUp(c) ==
    /\ serving[c] = "open" /\ Indices(c) # {}
    /\ serving' = [serving EXCEPT ![c] = "deaf"]
    /\ UNCHANGED <<transport, frames, stage, answers, nextCorrelation, saved>>

(* stdio reads a line when the one before is answered; a post is a task.     *)
IsNext(c, i) ==
    /\ i \in Indices(c) /\ stage[c][i] = "sent" /\ serving[c] # "ended"
    /\ Sequential => \A j \in 1..(i - 1) : stage[c][j] = "done"

EndStage(c, i) == stage' = [stage EXCEPT ![c][i] = "done"]

(* write_response, or the body of the post.                                  *)
Answer(c, i, id, code, correlation, why) ==
    LET answer == [frame |-> i, id |-> id, code |-> code, correlation |-> correlation, why |-> why] IN
    answers' = IF serving[c] = "open" THEN [answers EXCEPT ![c] = Append(@, answer)] ELSE answers

(* A line that is empty, or no request, or no text, never gets to dispatch:  *)
(* stdio skips the first, answers the second without an id, and stops at the *)
(* third.  A post of that kind is refused before a handler sees it.          *)
ServePipe(c, i) ==
    /\ IsNext(c, i) /\ Sent(c, i).kind # "request"
    /\ EndStage(c, i)
    /\ IF Sequential /\ Sent(c, i).kind = "garbled"
       THEN Answer(c, i, NoId, PARSE_ERROR, NoCorrelation, "refused") ELSE UNCHANGED answers
    /\ serving' = IF Sequential /\ Sent(c, i).kind = "unreadable" THEN [serving EXCEPT ![c] = "ended"] ELSE serving
    /\ UNCHANGED <<transport, frames, nextCorrelation, saved>>

(* (Were a frame without an id answered as the others are.)                  *)
MutNotified(c, i) ==
    /\ IsNext(c, i) /\ Sent(c, i).kind = "request" /\ Sent(c, i).id = NoId
    /\ EndStage(c, i) /\ Answer(c, i, NoId, Success, NoCorrelation, "done")
    /\ UNCHANGED <<transport, frames, serving, nextCorrelation, saved>>

(* dispatch: what has no id is dropped, whatever it asks.                    *)
Notified(c, i) ==
    /\ IsNext(c, i) /\ Sent(c, i).kind = "request" /\ Sent(c, i).id = NoId
    /\ EndStage(c, i)
    /\ UNCHANGED <<transport, frames, serving, answers, nextCorrelation, saved>>

IsRequest(c, i) == IsNext(c, i) /\ Sent(c, i).kind = "request" /\ Sent(c, i).id # NoId

AnswerAtOnce(c, i, code, why) ==
    /\ EndStage(c, i)
    /\ Answer(c, i, Sent(c, i).id, code, NoCorrelation, why)
    /\ UNCHANGED <<transport, frames, serving, nextCorrelation, saved>>

Start(c, i) ==
    /\ stage' = [stage EXCEPT ![c][i] = "running"]
    /\ UNCHANGED <<transport, frames, serving, answers, nextCorrelation, saved>>

handle_initialize(c, i) ==
    /\ IsRequest(c, i) /\ Sent(c, i).method = "initialize"
    /\ AnswerAtOnce(c, i, Success, "done")

handle_tools_list(c, i) ==
    /\ IsRequest(c, i) /\ Sent(c, i).method = "tools/list"
    /\ AnswerAtOnce(c, i, Success, "done")

MethodNotFound(c, i) ==
    /\ IsRequest(c, i) /\ Sent(c, i).method = "unknown"
    /\ AnswerAtOnce(c, i, METHOD_NOT_FOUND, "refused")

handle_resources_list(c, i) ==
    /\ IsRequest(c, i) /\ Sent(c, i).method = "resources/list"
    /\ IF Project \subseteq Sent(c, i).given THEN Start(c, i)
       ELSE AnswerAtOnce(c, i, INVALID_PARAMS, "refused")

handle_resources_read(c, i) ==
    /\ IsRequest(c, i) /\ Sent(c, i).method = "resources/read"
    /\ IF Project \union {"uri"} \subseteq Sent(c, i).given THEN Start(c, i)
       ELSE AnswerAtOnce(c, i, INVALID_PARAMS, "refused")

(* dispatch_tool and the four dispatchers below it.                          *)
handle_tools_call(c, i) ==
    LET asked == Sent(c, i) IN
    /\ IsRequest(c, i) /\ asked.method = "tools/call"
    /\ IF asked.call = "none" THEN AnswerAtOnce(c, i, INVALID_PARAMS, "refused")
       ELSE IF /\ \E need \in Needs : need[1] = asked.call /\ need[2] \subseteq asked.given
               /\ asked.odd = {}
            THEN Start(c, i)
            ELSE AnswerAtOnce(c, i, INTERNAL_ERROR, "refused")

-----------------------------------------------------------------------------
(* What the broker answers.                                                  *)
public_error_message(kind) ==
    [code |-> IF kind \in {"invalid_request", "invalid_project_config"} THEN INVALID_PARAMS ELSE INTERNAL_ERROR,
     correlation |-> nextCorrelation]

IsRunning(c, i) == i \in Indices(c) /\ stage[c][i] = "running"

Reply(c, i, code, correlation, why) ==
    /\ EndStage(c, i)
    /\ Answer(c, i, Sent(c, i).id, code, correlation, why)
    /\ nextCorrelation' = IF code = Success THEN nextCorrelation ELSE nextCorrelation + 1
    /\ UNCHANGED <<transport, frames, serving>>

BrokerAnswers(c, i) ==
    /\ IsRunning(c, i) /\ Sent(c, i).call \notin {"docs.save", "docs.delete"}
    /\ Reply(c, i, Success, NoCorrelation, "done") /\ UNCHANGED saved

(* An error of a tool is always INTERNAL_ERROR, one of a resource keeps its  *)
(* own code.                                                                 *)
BrokerFails(c, i, kind) ==
    LET error == public_error_message(kind) IN
    /\ IsRunning(c, i) /\ Sent(c, i).call \notin Infallible \union {"docs.save"}
    /\ Reply(c, i, IF Sent(c, i).method = "tools/call" THEN INTERNAL_ERROR ELSE error.code,
             error.correlation, "failed")
    /\ UNCHANGED saved

(* docs.delete, and docs.save: an update, and after any error of it a        *)
(* create, whose error alone is shown.                                       *)
DeletesDoc(c, i) ==
    /\ IsRunning(c, i) /\ Sent(c, i).call = "docs.delete"
    /\ IF saved THEN Reply(c, i, Success, NoCorrelation, "done")
       ELSE Reply(c, i, INTERNAL_ERROR, nextCorrelation, "missing")
    /\ saved' = FALSE

SaveUpdates(c, i) ==
    /\ IsRunning(c, i) /\ Sent(c, i).call = "docs.save"
    /\ \/ saved /\ Reply(c, i, Success, NoCorrelation, "done")
       \/ /\ stage' = [stage EXCEPT ![c][i] = IF saved THEN "retrying" ELSE "creating"]
          /\ UNCHANGED <<transport, frames, serving, answers, nextCorrelation>>
    /\ UNCHANGED saved

SaveCreates(c, i) ==
    /\ i \in Indices(c) /\ stage[c][i] \in {"creating", "retrying"}
    /\ \/ ~saved /\ saved' = TRUE /\ Reply(c, i, Success, NoCorrelation, "created")
       \/ saved /\ UNCHANGED saved
          /\ Reply(c, i, INTERNAL_ERROR, nextCorrelation, IF stage[c][i] = "retrying" THEN "masked" ELSE "exists")
       \/ UNCHANGED saved /\ Reply(c, i, INTERNAL_ERROR, nextCorrelation, "failed")

Serving(c, i) ==
    \/ ServePipe(c, i) \/ Notified(c, i)
    \/ handle_initialize(c, i) \/ handle_tools_list(c, i) \/ MethodNotFound(c, i)
    \/ handle_resources_list(c, i) \/ handle_resources_read(c, i) \/ handle_tools_call(c, i)
    \/ BrokerAnswers(c, i) \/ (\E kind \in ErrorKinds : BrokerFails(c, i, kind))
    \/ DeletesDoc(c, i) \/ SaveUpdates(c, i) \/ SaveCreates(c, i)

Written == UNION {{<<c, i>> : i \in Indices(c)} : c \in Connections}

(* script[n] is what the n-th frame of all may be.                           *)
RpcNext(script) ==
    \/ \E c \in Connections : \E i \in Indices(c) : Serving(c, i)
    \/ \E c \in Connections : HangUp(c)
    \/ \E n \in DOMAIN script :
         n = Cardinality(Written) + 1 /\ \E c \in Connections, frame \in script[n] : WriteFrame(c, frame)

RpcSpec(script) == RpcInit /\ [][RpcNext(script)]_rpcVars

-----------------------------------------------------------------------------
RpcTypeOK ==
    /\ transport \in Transports /\ saved \in BOOLEAN /\ nextCorrelation \in Nat \ {NoCorrelation}
    /\ \A c \in Connections :
        /\ serving[c] \in {"open", "deaf", "ended"}
        /\ DOMAIN stage[c] = Indices(c)
        /\ \A i \in Indices(c) : stage[c][i] \in {"sent", "running", "creating", "retrying", "done"}

Answered(c) == {answers[c][n].frame : n \in DOMAIN answers[c]}
IsAsked(c, i) == Sent(c, i).kind = "request" /\ Sent(c, i).id # NoId

(* Whatever is written on a connection, in whatever order the posts end:    *)
(* a request is answered once, by its own id, and what is no request is not *)
(* answered at all (a garbled line of stdio is, without an id); a client     *)
(* that listens is owed no answer of what is done.  stdio answers in the     *)
(* order of the lines.                                                      *)
AnswersFit ==
    \A c \in Connections :
        /\ Cardinality(Answered(c)) = Len(answers[c])
        /\ \A n \in DOMAIN answers[c] :
            LET i == answers[c][n].frame IN
            /\ stage[c][i] = "done" /\ answers[c][n].id = Sent(c, i).id
            /\ IsAsked(c, i) \/ (Sequential /\ answers[c][n].code = PARSE_ERROR)
        /\ serving[c] = "open" => \A i \in Indices(c) : stage[c][i] = "done" /\ IsAsked(c, i) => i \in Answered(c)
        /\ Sequential => \A m, n \in DOMAIN answers[c] : m < n => answers[c][m].frame < answers[c][n].frame

(* An operator finds one line of the log by the correlation id of an error. *)
ErrorsAreTraceable ==
    \A c, d \in Connections : \A m \in DOMAIN answers[c], n \in DOMAIN answers[d] :
        /\ answers[c][m].why \in {"failed", "missing", "exists", "masked"} => answers[c][m].correlation # NoCorrelation
        /\ answers[c][m].correlation # NoCorrelation /\ answers[c][m].correlation = answers[d][n].correlation
               => c = d /\ m = n

(* A call with every argument that tools/list asks for is not refused.      *)
AdvertisedIsServed ==
    \A c \in Connections : \A n \in DOMAIN answers[c] :
        LET asked == Sent(c, answers[c][n].frame) IN
        (\E offer \in tool_definitions : offer[1] = asked.call /\ offer[2] \subseteq asked.given) /\ asked.odd = {}
        => answers[c][n].why # "refused"

(* docs.save creates or updates: that the document exists is an error only  *)
(* when a post created it in between, or when it hides that of the update.  *)
SaveIsUpsert ==
    \A c \in Connections : \A n \in DOMAIN answers[c] : answers[c][n].why = "exists" => ~Sequential

(* The front answers each request once, traceably, serves what it offers,   *)
(* and saves documents as it says (jsonrpc.rs:158 dispatch, stdio.rs:46     *)
(* serve_pipe, tools.rs:11 tool_definitions).                               *)
AnswersAreSound == AnswersFit /\ ErrorsAreTraceable /\ AdvertisedIsServed /\ SaveIsUpsert
=============================================================================
