----------------------------- MODULE PartialRollout -----------------------------
(***************************************************************************)
(* Partial rollout: how the responses of one sample are generated when     *)
(* parameter synchronizations interrupt them. The sample's rollouts run as *)
(* agent loops of one FullyAsyncAgentLoopWorker, which ask the servers     *)
(* (vLLMHttpServerForPartial) for tokens; pause() tells servers and        *)
(* workers to cancel, in no order, and the loops return what they have;    *)
(* a later submission, perhaps to another worker, goes on from there.      *)
(*                                                                         *)
(* The other samples show as the arbitrary choice of worker and server. A  *)
(* token is its kind and the version of the weights that produced it; the  *)
(* tool call a model writes is the token "call", or takes two, "open" and  *)
(* "close". No interaction and no limit of turns is configured.            *)
(***************************************************************************)
EXTENDS Integers, Sequences, FiniteSets

CONSTANTS
    Rollouts,         \* the n rollouts of the sample
    Servers, Workers,
    NoServer,         \* of a rollout that is not generating
    Kinds,            \* what the model may write: a subset of WrittenKinds
    ResponseLength,
    MaxModelLen,      \* what max_model_len leaves to a response
    MaxSyncs          \* bound of this model: parameter synchronizations

WrittenKinds == {"text", "call", "open", "close"}

ASSUME PartialAssumption ==
    /\ IsFiniteSet(Rollouts) /\ Kinds \subseteq WrittenKinds
    /\ Servers \cap Workers = {} /\ NoServer \notin Servers
    /\ ResponseLength \in Nat \ {0} /\ MaxModelLen \in Nat
    /\ MaxModelLen >= ResponseLength /\ MaxSyncs \in Nat

VARIABLES
    agent,            \* "tool" or "single": which agent loop, fixed
    (* the rollouter *)
    sync,             \* how far pause, the transfer and resume have come
    toTell,           \* servers and workers cancel() or resume() has still to reach
    rollVersion,      \* current_param_version
    sample,           \* "queued" (pending or cancel queue), "running" or "released"
    worker, recorded, \* the worker and the param_version of the last submission
    (* the servers and the workers *)
    version,          \* of the weights on the servers
    paused,           \* of each server
    event,            \* cancellation_event of each worker
    (* per rollout: the agent loop *)
    pc,               \* what it awaits
    state,            \* AgentState, kept in the output of an interrupted loop
    text, mask, logprobs,   \* prompt_ids after the prompt, response_mask, response_logprobs
    start,            \* param_version_start
    output,           \* agent_loop_output_list: "none", "cancelled" or "complete"
    scores,           \* how often the reward was computed
    (* per rollout: its request on a server *)
    server, fragment, \* req_output
    cancelled,        \* cancel_event; in a reply, is_cancel
    finished          \* generation_handle is done

syncVars == <<sync, toTell, rollVersion>>
sampleVars == <<sample, worker, recorded>>
serverVars == <<version, paused, event>>
loopVars == <<state, text, mask, logprobs, start, output, scores>>
requestVars == <<server, fragment, cancelled, finished>>
vars == <<agent, syncVars, sampleVars, serverVars, pc, loopVars, requestVars>>

Of(x) == [r \in Rollouts |-> x]

Init ==
    /\ agent \in {"tool", "single"}
    /\ sync = "running" /\ toTell = {} /\ rollVersion = 0
    /\ sample = "queued" /\ worker \in Workers /\ recorded = 0
    /\ version = 0
    /\ paused = [s \in Servers |-> FALSE] /\ event = [w \in Workers |-> FALSE]
    /\ pc = Of("idle") /\ state = Of("pending")
    /\ text = Of(<<>>) /\ mask = Of(<<>>) /\ logprobs = Of(<<>>)
    /\ start = Of(0) /\ output = Of("none") /\ scores = Of(0)
    /\ server = Of(NoServer) /\ fragment = Of(<<>>)
    /\ cancelled = Of(FALSE) /\ finished = Of(FALSE)

-----------------------------------------------------------------------------
(* The worker and its agent loops *)

Submit_F(w) ==
    /\ sample = "queued"
    /\ sync \in {"running", "transfer", "updated"}
    /\ sample' = "running" /\ worker' = w /\ recorded' = rollVersion
    /\ output' = Of("none") /\ text' = Of(<<>>) /\ mask' = Of(<<>>) /\ logprobs' = Of(<<>>)
    /\ pc' = Of("start")
    /\ UNCHANGED <<agent, syncVars, serverVars, state, start, scores, requestVars>>

\* The processor submits the sample while no remote call holds the lock: after
\* pause() too, when the monitor had decided to clear the flag before. It takes
\* the version of this moment along, and goes to the next worker in turn.
Submit(w) ==
    /\ sample = "queued"
    /\ sync \in {"running", "transfer", "updated"}
    /\ sample' = "running" /\ worker' = w /\ recorded' = rollVersion
    /\ pc' = Of("start")
    /\ UNCHANGED <<agent, syncVars, serverVars, loopVars, requestVars>>

At(r, p) == pc' = [pc EXCEPT ![r] = p]

LoopHead_F(r, st) ==
    /\ state' = [state EXCEPT ![r] = st]
    /\ CASE st = "terminated" -> At(r, "scoring") /\ UNCHANGED output
         [] OTHER -> /\ At(r, CASE st = "pending" -> "prompt" [] st = "tools" -> "tools"
                                [] OTHER -> "calling")
                     /\ UNCHANGED output

\* The head of _run_state_machine: a loop that is not over stops at the
\* cancellation event, or enters the handler of its state.
LoopHead(r, st) ==
    /\ state' = [state EXCEPT ![r] = st]
    /\ CASE st = "terminated" -> At(r, "scoring") /\ UNCHANGED output
         [] st # "terminated" /\ event[worker] ->
              At(r, "ended") /\ output' = [output EXCEPT ![r] = "cancelled"]
         [] OTHER -> /\ At(r, CASE st = "pending" -> "prompt" [] st = "tools" -> "tools"
                                [] OTHER -> "calling")
                     /\ UNCHANGED output

StartVersion_F(r) == recorded

\* param_version_start: set when the rollout begins, and kept from then on.
StartVersion(r) == IF output[r] = "none" THEN recorded ELSE start[r]

AlreadyComplete_F(r) == FALSE

\* A rollout that was complete before the interruption is returned as it is.
AlreadyComplete(r) == output[r] = "complete"

Start(r) ==
    /\ pc[r] = "start"
    /\ IF AlreadyComplete(r)
         THEN At(r, "ended") /\ UNCHANGED <<state, start, output>>
         ELSE /\ start' = [start EXCEPT ![r] = StartVersion(r)]
              /\ IF agent = "tool" THEN LoopHead(r, state[r])
                 ELSE At(r, "calling") /\ UNCHANGED <<state, output>>
    /\ UNCHANGED <<agent, syncVars, sampleVars, serverVars, text, mask, logprobs, scores,
                   requestVars>>

\* _handle_pending_state: the prompt is tokenized in an executor.
PromptReady(r) ==
    /\ pc[r] = "prompt"
    /\ LoopHead(r, "generating")
    /\ UNCHANGED <<agent, syncVars, sampleVars, serverVars, text, mask, logprobs, start,
                   scores, requestVars>>

HasCall(tokens) ==
    \/ \E i \in DOMAIN tokens : tokens[i].kind = "call"
    \/ \E i \in 1 .. Len(tokens) - 1 : tokens[i].kind = "open" /\ tokens[i + 1].kind = "close"

Cut(s) == SubSeq(s, 1, IF Len(s) < ResponseLength THEN Len(s) ELSE ResponseLength)

LogprobsOf_F(r) == IF cancelled[r] THEN <<>> ELSE [i \in DOMAIN fragment[r] |-> fragment[r][i].ver]

\* The log probability of a token depends on the weights that produced it.
LogprobsOf(r) == [i \in DOMAIN fragment[r] |-> fragment[r][i].ver]

\* Where _handle_generating_state_partial goes on, with len tokens of response.
AfterGenerating(r, len) ==
    CASE len >= ResponseLength -> "terminated"
      [] len < ResponseLength /\ cancelled[r] -> "generating"
      [] OTHER -> IF HasCall(fragment[r]) THEN "tools" ELSE "terminated"

\* The reply of the server: its tokens join the response. The tool agent
\* loops on; the single-turn agent is through, or interrupted.
TakeReply(r) ==
    /\ pc[r] = "reply"
    /\ LET whole == text[r] \o fragment[r]
           next == IF agent = "tool" THEN AfterGenerating(r, Len(whole))
                   ELSE IF cancelled[r] /\ Len(whole) < ResponseLength THEN "generating"
                   ELSE "terminated"
           Kept(s) == IF next = "terminated" \/ agent = "single" THEN Cut(s) ELSE s
       IN  /\ text' = [text EXCEPT ![r] = Kept(whole)]
           /\ mask' = [mask EXCEPT ![r] = Kept(@ \o [i \in DOMAIN fragment[r] |-> 1])]
           /\ logprobs' = [logprobs EXCEPT ![r] = Kept(@ \o LogprobsOf(r))]
           /\ IF agent = "single" /\ next = "generating"
                THEN /\ At(r, "ended") /\ output' = [output EXCEPT ![r] = "cancelled"]
                     /\ UNCHANGED state
                ELSE LoopHead(r, next)
    /\ fragment' = [fragment EXCEPT ![r] = <<>>]
    /\ cancelled' = [cancelled EXCEPT ![r] = FALSE]
    /\ UNCHANGED <<agent, syncVars, sampleVars, serverVars, start, scores, server, finished>>

ToolTokens == <<[kind |-> "tool", ver |-> 0]>>

Fits(r) == Len(mask[r]) + Len(ToolTokens) < ResponseLength

\* _handle_processing_tools_state: the tools' answer joins the response with
\* mask 0 and log probability 0, unless it would fill it.
ToolsReturn(r) ==
    /\ pc[r] = "tools"
    /\ IF Fits(r)
         THEN /\ text' = [text EXCEPT ![r] = @ \o ToolTokens]
              /\ mask' = [mask EXCEPT ![r] = Append(@, 0)]
              /\ logprobs' = [logprobs EXCEPT ![r] = Append(@, 0)]
              /\ LoopHead(r, "generating")
         ELSE LoopHead(r, "terminated") /\ UNCHANGED <<text, mask, logprobs>>
    /\ UNCHANGED <<agent, syncVars, sampleVars, serverVars, start, scores, requestVars>>

\* _agent_loop_postprocess of a completed loop computes its reward.
Score(r) ==
    /\ pc[r] = "scoring"
    /\ scores' = [scores EXCEPT ![r] = @ + 1]
    /\ output' = [output EXCEPT ![r] = "complete"]
    /\ At(r, "ended")
    /\ UNCHANGED <<agent, syncVars, sampleVars, serverVars, state, text, mask, logprobs,
                   start, requestVars>>

\* is_cancel of the sample
Interrupted == \E r \in Rollouts : output[r] = "cancelled"

\* generate_sequences_no_post: with every loop back, the sample is released, or
\* goes to cancel_queue with the outputs it has.
Gather ==
    /\ sample = "running" /\ \A r \in Rollouts : pc[r] = "ended"
    /\ sample' = IF Interrupted THEN "queued" ELSE "released"
    /\ pc' = Of("idle")
    /\ UNCHANGED <<agent, syncVars, worker, recorded, serverVars, loopVars, requestVars>>

-----------------------------------------------------------------------------
(* generate_for_partial *)

Arrive_F(r, s) ==
    /\ pc[r] = "calling"
    /\ server' = [server EXCEPT ![r] = s]
    /\ At(r, "generating")
    /\ UNCHANGED <<agent, syncVars, sampleVars, serverVars, loopVars, fragment, cancelled,
                   finished>>

\* A paused server answers at once, with nothing.
Arrive(r, s) ==
    /\ pc[r] = "calling"
    /\ IF paused[s]
         THEN At(r, "reply") /\ cancelled' = [cancelled EXCEPT ![r] = TRUE] /\ UNCHANGED server
         ELSE At(r, "generating") /\ server' = [server EXCEPT ![r] = s] /\ UNCHANGED cancelled
    /\ UNCHANGED <<agent, syncVars, sampleVars, serverVars, loopVars, fragment, finished>>

\* _generate_step: the engine's next output. The model may end its turn
\* with any token, and must when the context is full.
Token(r) ==
    /\ pc[r] = "generating" /\ ~finished[r]
    /\ \E k \in Kinds :
          fragment' = [fragment EXCEPT ![r] = Append(@, [kind |-> k, ver |-> version])]
    /\ \E last \in BOOLEAN :
          /\ Len(text[r]) + Len(fragment[r]) + 1 >= MaxModelLen => last
          /\ finished' = [finished EXCEPT ![r] = last]
    /\ UNCHANGED <<agent, syncVars, sampleVars, serverVars, pc, loopVars, server, cancelled>>

\* is_cancel = generation_handle not in done
Replied(r) == ~finished[r]

\* The first of the two tasks is done: what there is is returned, and it is an
\* interruption unless the generation is over.
Return(r) ==
    /\ pc[r] = "generating" /\ (cancelled[r] \/ finished[r])
    /\ cancelled' = [cancelled EXCEPT ![r] = Replied(r)]
    /\ server' = [server EXCEPT ![r] = NoServer]
    /\ finished' = [finished EXCEPT ![r] = FALSE]
    /\ At(r, "reply")
    /\ UNCHANGED <<agent, syncVars, sampleVars, serverVars, loopVars, fragment>>

-----------------------------------------------------------------------------
(* pause, the synchronization and resume *)

BeginPause ==
    /\ sync = "running" /\ version < MaxSyncs
    /\ sync' = "cancelling" /\ toTell' = Servers \cup Workers
    /\ UNCHANGED <<agent, rollVersion, sampleVars, serverVars, pc, loopVars, requestVars>>

\* cancel of a server: the flag, and the event of every request it holds.
CancelServer(s) ==
    /\ sync = "cancelling" /\ s \in toTell
    /\ toTell' = toTell \ {s}
    /\ paused' = [paused EXCEPT ![s] = TRUE]
    /\ cancelled' = [r \in Rollouts |->
                       cancelled[r] \/ server[r] = s]
    /\ UNCHANGED <<agent, sync, rollVersion, sampleVars, version, event, pc, loopVars,
                   server, fragment, finished>>

\* cancel_agent_loops
CancelWorker(w) ==
    /\ sync = "cancelling" /\ w \in toTell
    /\ toTell' = toTell \ {w}
    /\ event' = [event EXCEPT ![w] = TRUE]
    /\ UNCHANGED <<agent, sync, rollVersion, sampleVars, version, paused, pc, loopVars,
                   requestVars>>

\* pause() ends when every call of cancel and every active task is through.
PauseEnd ==
    /\ sync = "cancelling" /\ toTell = {} /\ sample # "running"
    /\ sync' = "transfer"
    /\ UNCHANGED <<agent, toTell, rollVersion, sampleVars, serverVars, pc, loopVars,
                   requestVars>>

\* The new weights are on the servers.
Transferred ==
    /\ sync = "transfer"
    /\ version' = version + 1
    /\ sync' = "transferred"
    /\ UNCHANGED <<agent, toTell, rollVersion, sampleVars, paused, event, pc, loopVars,
                   requestVars>>

\* update_param_version
UpdateVersion ==
    /\ sync = "transferred"
    /\ rollVersion' = version
    /\ sync' = "updated"
    /\ UNCHANGED <<agent, toTell, sampleVars, serverVars, pc, loopVars, requestVars>>

BeginResume ==
    /\ sync = "updated"
    /\ sync' = "resuming" /\ toTell' = Servers \cup Workers
    /\ UNCHANGED <<agent, rollVersion, sampleVars, serverVars, pc, loopVars, requestVars>>

ResumeServer(s) ==
    /\ sync = "resuming" /\ s \in toTell
    /\ toTell' = toTell \ {s}
    /\ paused' = [paused EXCEPT ![s] = FALSE]
    /\ UNCHANGED <<agent, sync, rollVersion, sampleVars, version, event, pc, loopVars,
                   requestVars>>

ResumeWorker_F(w) ==
    /\ sync = "resuming" /\ w \in toTell
    /\ toTell' = toTell \ {w}
    /\ UNCHANGED <<agent, sync, rollVersion, sampleVars, serverVars, pc, loopVars,
                   requestVars>>

\* resume_agent_loops
ResumeWorker(w) ==
    /\ sync = "resuming" /\ w \in toTell
    /\ toTell' = toTell \ {w}
    /\ event' = [event EXCEPT ![w] = FALSE]
    /\ UNCHANGED <<agent, sync, rollVersion, sampleVars, version, paused, pc, loopVars,
                   requestVars>>

ResumeEnd ==
    /\ sync = "resuming" /\ toTell = {}
    /\ sync' = "running"
    /\ UNCHANGED <<agent, toTell, rollVersion, sampleVars, serverVars, pc, loopVars,
                   requestVars>>

-----------------------------------------------------------------------------
Loop(r) ==
    \/ Start(r) \/ PromptReady(r) \/ TakeReply(r) \/ ToolsReturn(r) \/ Score(r)
    \/ \E s \in Servers : Arrive(r, s)
    \/ Token(r) \/ Return(r)

Synchronize ==
    \/ PauseEnd \/ Transferred \/ UpdateVersion \/ BeginResume \/ ResumeEnd
    \/ \E s \in Servers : CancelServer(s) \/ ResumeServer(s)
    \/ \E w \in Workers : CancelWorker(w) \/ ResumeWorker(w)

Next ==
    \/ \E w \in Workers : Submit(w)
    \/ \E r \in Rollouts : Loop(r)
    \/ Gather \/ BeginPause \/ Synchronize

Spec == Init /\ [][Next]_vars

Fairness ==
    /\ WF_vars(\E w \in Workers : Submit(w)) /\ WF_vars(Gather) /\ WF_vars(Synchronize)
    /\ \A r \in Rollouts : WF_vars(Loop(r))

FairSpec == Spec /\ Fairness

-----------------------------------------------------------------------------
Tokens == [kind : WrittenKinds \cup {"tool"}, ver : 0 .. MaxSyncs]

CallTypeOK ==
    /\ agent \in {"tool", "single"}
    /\ sync \in {"running", "cancelling", "transfer", "transferred", "updated", "resuming"}
    /\ toTell \subseteq Servers \cup Workers
    /\ rollVersion \in 0 .. MaxSyncs /\ version \in 0 .. MaxSyncs /\ recorded \in 0 .. MaxSyncs
    /\ sample \in {"queued", "running", "released"} /\ worker \in Workers
    /\ paused \in [Servers -> BOOLEAN] /\ event \in [Workers -> BOOLEAN]

LoopTypeOK ==
    /\ pc \in [Rollouts -> {"idle", "start", "prompt", "calling", "generating", "reply",
                            "tools", "scoring", "ended"}]
    /\ state \in [Rollouts -> {"pending", "generating", "tools", "terminated"}]
    /\ start \in [Rollouts -> 0 .. MaxSyncs]
    /\ output \in [Rollouts -> {"none", "cancelled", "complete"}]
    /\ scores \in [Rollouts -> Nat] /\ server \in [Rollouts -> Servers \cup {NoServer}]
    /\ cancelled \in [Rollouts -> BOOLEAN] /\ finished \in [Rollouts -> BOOLEAN]

TextTypeOK ==
    /\ text \in [Rollouts -> Seq(Tokens)] /\ fragment \in [Rollouts -> Seq(Tokens)]
    /\ mask \in [Rollouts -> Seq({0, 1})] /\ logprobs \in [Rollouts -> Seq(0 .. MaxSyncs)]
    /\ \A r \in Rollouts : Len(text[r]) + Len(fragment[r]) <= MaxModelLen

PartialTypeOK == CallTypeOK /\ LoopTypeOK /\ TextTypeOK

\* However often a response is interrupted, mask and log probabilities stay
\* aligned with its tokens: mask 1 on what the model wrote and 0 on what tools
\* answered, and beside each token the log probability under the weights that
\* produced it, which the off-policy correction of the trainer relies on.
Aligned ==
    \A r \in Rollouts :
       /\ Len(mask[r]) = Len(text[r]) /\ Len(logprobs[r]) = Len(text[r])
       /\ \A i \in DOMAIN text[r] :
             /\ mask[r][i] = 1 <=> text[r][i].kind # "tool"
             /\ logprobs[r][i] = text[r][i].ver

\* While the weights are being transferred no server generates, although a
\* sample may be submitted then.
QuietTransfer == sync = "transfer" => \A r \in Rollouts : pc[r] # "generating"

\* The reward of a rollout is computed once, when it is complete: neither again
\* when the sample is submitted again for the sake of the others, nor before.
ScoredOnce ==
    \A r \in Rollouts :
       /\ scores[r] = IF output[r] = "complete" THEN 1 ELSE 0
       /\ sample = "released" => output[r] = "complete"

\* param_version_start, the age of the oldest token for the staleness metrics,
\* is not above the version of any token the model wrote, and versions never
\* decrease along a response.
VersionsOrdered ==
    \A r \in Rollouts :
       \A i \in DOMAIN text[r] : text[r][i].kind # "tool" =>
          /\ start[r] <= text[r][i].ver
          /\ \A j \in 1 .. i : text[r][j].ver <= text[r][i].ver

\* The tool call a model has written in a turn is executed, interrupted or not.
\* The turn is what follows the last answer of a tool.
LastTool(s) ==
    IF \E i \in DOMAIN s : s[i].kind = "tool"
      THEN CHOOSE i \in DOMAIN s : /\ s[i].kind = "tool"
                                   /\ \A j \in DOMAIN s : s[j].kind = "tool" => j <= i
      ELSE 0

ToolCallsExecuted ==
    \A r \in Rollouts :
       agent = "tool" /\ pc[r] = "scoring" /\ Len(text[r]) < ResponseLength - 1
          => ~HasCall(SubSeq(text[r], LastTool(text[r]) + 1, Len(text[r])))

\* The abstract specification the rollout implements: responses only grow
\* across interruptions, complete ones stay, and the release comes last.
Promised == INSTANCE Transcripts WITH
    response <- [r \in Rollouts |-> Cut(text[r])],
    complete <- {r \in Rollouts : output[r] = "complete"},
    released <- sample = "released"

ImplementsTranscripts == Promised!Spec

\* pause() ends: every loop and every generation reacts to the cancellation.
PauseCompletes == sync = "cancelling" ~> sync = "transfer"

\* The sample is released in the end, however it was interrupted.
SampleReleased == <>(sample = "released")
=============================================================================
