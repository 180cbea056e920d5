------------------------- MODULE PartialRollout_proofs -------------------------
(***************************************************************************)
(* Theorems about PartialRollout, for every number of rollouts, servers,   *)
(* workers and synchronizations and every length of response.              *)
(***************************************************************************)
EXTENDS PartialRollout, SequenceTheorems, TLAPS

\* Where a loop stands: state, output and reward agree with what it awaits,
\* and a request is on a server exactly while the server generates.
ControlInv ==
    \A r \in Rollouts :
        /\ pc[r] = "idle" <=> sample # "running"
        /\ pc[r] \in {"prompt", "calling", "generating", "reply", "tools", "scoring"}
              => output[r] # "complete"
        /\ state[r] = "terminated" <=> (pc[r] = "scoring" \/ output[r] = "complete")
        /\ pc[r] = "tools" => state[r] = "tools"
        /\ pc[r] = "ended" => output[r] # "none"
        /\ sample = "released" => output[r] = "complete"
        /\ scores[r] = IF output[r] = "complete" THEN 1 ELSE 0
        /\ server[r] # NoServer <=> pc[r] = "generating"
        /\ finished[r] => pc[r] = "generating"
        /\ fragment[r] # <<>> => pc[r] \in {"generating", "reply"}
        /\ (output[r] = "none" /\ pc[r] \in {"idle", "start"}) => text[r] = <<>>

\* A response that is not over has room for a token, and one that is has some:
\* a generation that was not interrupted wrote at least one.
Room(r) ==
    /\ Len(text[r]) <= ResponseLength
    /\ state[r] # "terminated" => Len(text[r]) < ResponseLength
    /\ (pc[r] = "generating" /\ ~finished[r]) => Len(text[r]) + Len(fragment[r]) < MaxModelLen
    /\ (pc[r] = "generating" /\ finished[r]) => fragment[r] # <<>>
    /\ (pc[r] = "reply" /\ ~cancelled[r]) => fragment[r] # <<>>
    /\ state[r] \in {"tools", "terminated"} => text[r] # <<>>

RoomInv == \A r \in Rollouts : Room(r)

\* The alignment of one response.
AlignedOf(r) ==
    /\ Len(mask[r]) = Len(text[r]) /\ Len(logprobs[r]) = Len(text[r])
    /\ \A i \in DOMAIN text[r] :
          /\ mask[r][i] = 1 <=> text[r][i].kind # "tool"
          /\ logprobs[r][i] = text[r][i].ver

\* What the model is writing is not a tool's answer.
Written(r) == \A i \in 1 .. Len(fragment[r]) : fragment[r][i].kind # "tool"

AlignInv == Aligned /\ \A r \in Rollouts : Written(r)

Whole(r) == text[r] \o fragment[r]

\* The tokens of a response from the version v on, in order, up to the present.
Ordered(s, v, now) ==
    \A i \in 1 .. Len(s) :
        /\ s[i].ver <= now
        /\ s[i].kind # "tool" => /\ v <= s[i].ver
                                 /\ \A j \in 1 .. i : s[j].ver <= s[i].ver

\* Versions only grow, and what was recorded for a response is the version of
\* its submission, which is not above the weights its first token comes from.
VersionInv ==
    /\ recorded <= rollVersion /\ rollVersion <= version
    /\ \A r \in Rollouts : start[r] <= version /\ Ordered(Whole(r), start[r], version)

\* A synchronization installs the next version, and every server is paused from
\* the end of pause() until resume().
PauseInv ==
    /\ sync \in {"cancelling", "transfer"} => version < MaxSyncs
    /\ sync = "cancelling" => \A s \in Servers \ toTell : paused[s]
    /\ sync \in {"transfer", "transferred", "updated"} =>
          /\ \A s \in Servers : paused[s]
          /\ \A r \in Rollouts : pc[r] # "generating"

Inv == PartialTypeOK /\ ControlInv /\ RoomInv /\ AlignInv /\ VersionInv /\ PauseInv

-----------------------------------------------------------------------------
(* Sequences *)

\* Cut keeps the first tokens, at most ResponseLength of them.
LEMMA CutProperties ==
    ASSUME NEW S, NEW s \in Seq(S)
    PROVE  /\ Cut(s) \in Seq(S)
           /\ Len(Cut(s)) = IF Len(s) < ResponseLength THEN Len(s) ELSE ResponseLength
           /\ Len(Cut(s)) <= Len(s) /\ Len(Cut(s)) <= ResponseLength
           /\ \A i \in 1 .. Len(Cut(s)) : Cut(s)[i] = s[i]
           /\ Len(s) <= ResponseLength => Cut(s) = s
<1> DEFINE n == IF Len(s) < ResponseLength THEN Len(s) ELSE ResponseLength
<1>1. Len(s) \in Nat /\ ResponseLength \in Nat /\ n \in Nat /\ n <= Len(s)
  BY PartialAssumption
<1>2. \A i \in 1 .. n : s[i] \in S
  BY <1>1, ElementOfSeq
<1>3. /\ SubSeq(s, 1, n) \in Seq(S) /\ Len(SubSeq(s, 1, n)) = n
      /\ \A i \in 1 .. n : SubSeq(s, 1, n)[i] = s[i]
  BY <1>1, <1>2, SubSeqProperties
<1>4. Cut(s) = SubSeq(s, 1, n)
  BY DEF Cut
<1> HIDE DEF n
<1>5. ASSUME Len(s) <= ResponseLength PROVE Cut(s) = s
  <2>1. n = Len(s)
    BY <1>1, <1>5 DEF n
  <2>2. QED
    BY <1>3, <1>4, <2>1, SeqEqual
<1>6. QED
  BY <1>1, <1>3, <1>4, <1>5 DEF n

\* What follows a non-empty beginning is not empty, and neither is its cut.
LEMMA CutNotEmpty ==
    ASSUME NEW S, NEW s \in Seq(S), s # <<>> PROVE Cut(s) # <<>>
<1>1. Len(s) \in Nat /\ Len(s) # 0 /\ ResponseLength \in Nat \ {0}
  BY PartialAssumption, EmptySeq
<1>2. Len(Cut(s)) # 0
  BY <1>1, CutProperties
<1>3. QED
  BY <1>2

-----------------------------------------------------------------------------
(* The reply of a server and the answer of a tool, without their cases *)

Ones(s) == [i \in DOMAIN s |-> 1]

\* Appending to the second part of a sequence appends to the whole.
LEMMA ConcatAppend ==
    ASSUME NEW S, NEW s \in Seq(S), NEW t \in Seq(S), NEW e \in S
    PROVE  s \o Append(t, e) = Append(s \o t, e)
<1>1. Append(t, e) = t \o <<e>> /\ <<e>> \in Seq(S)
  BY AppendIsConcat
<1>2. s \o t \in Seq(S)
  BY ConcatProperties
<1>3. Append(s \o t, e) = (s \o t) \o <<e>>
  BY <1>2, AppendIsConcat
<1>4. (s \o t) \o <<e>> = s \o (t \o <<e>>)
  BY <1>1, ConcatAssociative
<1>5. QED
  BY <1>1, <1>3, <1>4

LEMMA ReplyTypes ==
    ASSUME Inv, NEW r \in Rollouts
    PROVE  /\ Whole(r) \in Seq(Tokens) /\ Len(Whole(r)) = Len(text[r]) + Len(fragment[r])
           /\ \A i \in 1 .. Len(Whole(r)) :
                 Whole(r)[i] = IF i <= Len(text[r]) THEN text[r][i] ELSE fragment[r][i - Len(text[r])]
           /\ Ones(fragment[r]) \in Seq({0, 1}) /\ Len(Ones(fragment[r])) = Len(fragment[r])
           /\ LogprobsOf(r) \in Seq(0 .. MaxSyncs) /\ Len(LogprobsOf(r)) = Len(fragment[r])
           /\ \A i \in 1 .. Len(fragment[r]) :
                 Ones(fragment[r])[i] = 1 /\ LogprobsOf(r)[i] = fragment[r][i].ver
<1>1. text[r] \in Seq(Tokens) /\ fragment[r] \in Seq(Tokens)
  BY DEF Inv, PartialTypeOK, TextTypeOK
<1>2. Len(fragment[r]) \in Nat /\ DOMAIN fragment[r] = 1 .. Len(fragment[r])
  BY <1>1
<1>3. \A i \in 1 .. Len(fragment[r]) : fragment[r][i].ver \in 0 .. MaxSyncs
  <2>1. \A i \in 1 .. Len(fragment[r]) : fragment[r][i] \in Tokens
    BY <1>1, ElementOfSeq
  <2>2. QED
    BY <2>1 DEF Tokens
<1>4. Ones(fragment[r]) \in Seq({0, 1}) /\ Len(Ones(fragment[r])) = Len(fragment[r])
  BY <1>2 DEF Ones
<1>5. LogprobsOf(r) \in Seq(0 .. MaxSyncs) /\ Len(LogprobsOf(r)) = Len(fragment[r])
  BY <1>2, <1>3 DEF LogprobsOf
<1>6. \A i \in 1 .. Len(fragment[r]) :
         Ones(fragment[r])[i] = 1 /\ LogprobsOf(r)[i] = fragment[r][i].ver
  BY <1>2 DEF Ones, LogprobsOf
<1>7. /\ Whole(r) \in Seq(Tokens) /\ Len(Whole(r)) = Len(text[r]) + Len(fragment[r])
      /\ \A i \in 1 .. Len(Whole(r)) :
            Whole(r)[i] = IF i <= Len(text[r]) THEN text[r][i] ELSE fragment[r][i - Len(text[r])]
  BY <1>1, ConcatProperties DEF Whole
<1>8. QED
  BY <1>4, <1>5, <1>6, <1>7

\* Cutting a response that is not over changes nothing, so every reply leaves
\* the cut of the whole.
LEMMA ReplyEffect ==
    ASSUME Inv, NEW r \in Rollouts, TakeReply(r)
    PROVE  /\ text' = [text EXCEPT ![r] = Cut(Whole(r))]
           /\ mask' = [mask EXCEPT ![r] = Cut(mask[r] \o Ones(fragment[r]))]
           /\ logprobs' = [logprobs EXCEPT ![r] = Cut(logprobs[r] \o LogprobsOf(r))]
           /\ fragment' = [fragment EXCEPT ![r] = <<>>]
           /\ \E next \in {"generating", "tools", "terminated"} :
                /\ next # "terminated" => Len(Whole(r)) < ResponseLength
                /\ next # "generating" => \/ ~cancelled[r]
                                          \/ Len(Whole(r)) >= ResponseLength
                /\ \/ /\ agent = "single" /\ next = "generating" /\ state' = state
                      /\ pc' = [pc EXCEPT ![r] = "ended"]
                      /\ output' = [output EXCEPT ![r] = "cancelled"]
                   \/ LoopHead(r, next)
<1> DEFINE whole == Whole(r)
           next == IF agent = "tool" THEN AfterGenerating(r, Len(whole))
                   ELSE IF cancelled[r] /\ Len(whole) < ResponseLength THEN "generating"
                   ELSE "terminated"
<1>1. /\ whole \in Seq(Tokens) /\ Len(whole) \in Nat
      /\ mask[r] \o Ones(fragment[r]) \in Seq({0, 1})
      /\ Len(mask[r] \o Ones(fragment[r])) = Len(whole)
      /\ logprobs[r] \o LogprobsOf(r) \in Seq(0 .. MaxSyncs)
      /\ Len(logprobs[r] \o LogprobsOf(r)) = Len(whole)
  <2>1. /\ mask[r] \in Seq({0, 1}) /\ logprobs[r] \in Seq(0 .. MaxSyncs)
        /\ Len(mask[r]) = Len(text[r]) /\ Len(logprobs[r]) = Len(text[r])
    BY DEF Inv, PartialTypeOK, TextTypeOK, AlignInv, Aligned
  <2>2. /\ Ones(fragment[r]) \in Seq({0, 1}) /\ Len(Ones(fragment[r])) = Len(fragment[r])
        /\ LogprobsOf(r) \in Seq(0 .. MaxSyncs) /\ Len(LogprobsOf(r)) = Len(fragment[r])
        /\ whole \in Seq(Tokens) /\ Len(whole) = Len(text[r]) + Len(fragment[r])
    BY ReplyTypes
  <2>3. Len(whole) \in Nat
    BY <2>2, LenProperties
  <2>4. \A S : \A s, t \in Seq(S) : s \o t \in Seq(S) /\ Len(s \o t) = Len(s) + Len(t)
    BY ConcatProperties
  <2>5. /\ mask[r] \o Ones(fragment[r]) \in Seq({0, 1})
        /\ Len(mask[r] \o Ones(fragment[r])) = Len(mask[r]) + Len(Ones(fragment[r]))
        /\ logprobs[r] \o LogprobsOf(r) \in Seq(0 .. MaxSyncs)
        /\ Len(logprobs[r] \o LogprobsOf(r)) = Len(logprobs[r]) + Len(LogprobsOf(r))
    <3> HIDE DEF whole
    <3>1. QED
      BY <2>1, <2>2, <2>4
  <2>6. QED
    BY <2>1, <2>2, <2>3, <2>4, <2>5
<1>2. next \in {"generating", "tools", "terminated"}
  BY DEF AfterGenerating
<1>3. next # "terminated" => Len(whole) < ResponseLength
  BY <1>1, PartialAssumption DEF AfterGenerating, Inv, PartialTypeOK
<1>4. next # "generating" => ~cancelled[r] \/ Len(whole) >= ResponseLength
  BY <1>1, PartialAssumption DEF AfterGenerating
<1>5. /\ (IF next = "terminated" \/ agent = "single" THEN Cut(whole) ELSE whole) = Cut(whole)
      /\ (IF next = "terminated" \/ agent = "single" THEN Cut(mask[r] \o Ones(fragment[r]))
          ELSE mask[r] \o Ones(fragment[r])) = Cut(mask[r] \o Ones(fragment[r]))
      /\ (IF next = "terminated" \/ agent = "single" THEN Cut(logprobs[r] \o LogprobsOf(r))
          ELSE logprobs[r] \o LogprobsOf(r)) = Cut(logprobs[r] \o LogprobsOf(r))
  BY <1>1, <1>3, CutProperties
<1>6. /\ text' = [text EXCEPT ![r] =
                    IF next = "terminated" \/ agent = "single" THEN Cut(whole) ELSE whole]
      /\ mask' = [mask EXCEPT ![r] =
                    IF next = "terminated" \/ agent = "single"
                    THEN Cut(mask[r] \o Ones(fragment[r])) ELSE mask[r] \o Ones(fragment[r])]
      /\ logprobs' = [logprobs EXCEPT ![r] =
                    IF next = "terminated" \/ agent = "single"
                    THEN Cut(logprobs[r] \o LogprobsOf(r)) ELSE logprobs[r] \o LogprobsOf(r)]
      /\ fragment' = [fragment EXCEPT ![r] = <<>>]
      /\ IF agent = "single" /\ next = "generating"
         THEN /\ pc' = [pc EXCEPT ![r] = "ended"] /\ output' = [output EXCEPT ![r] = "cancelled"]
              /\ UNCHANGED state
         ELSE LoopHead(r, next)
  BY DEF TakeReply, Whole, Ones, At
<1> HIDE DEF next, whole
<1>7. QED
  BY <1>2, <1>3, <1>4, <1>5, <1>6 DEF whole

\* The head of the loop: it is over, stops at the event, or enters a handler.
LEMMA LoopHeadEffect ==
    ASSUME NEW r \in Rollouts, NEW st \in {"pending", "generating", "tools", "terminated"},
           LoopHead(r, st)
    PROVE  /\ state' = [state EXCEPT ![r] = st]
           /\ \E p \in {"prompt", "calling", "tools", "scoring", "ended"} :
                /\ pc' = [pc EXCEPT ![r] = p]
                /\ p = "scoring" <=> st = "terminated"
                /\ p = "tools" => st = "tools"
                /\ output' = IF p = "ended" THEN [output EXCEPT ![r] = "cancelled"] ELSE output
<1>1. CASE st = "terminated"
  BY <1>1 DEF LoopHead, At
<1>2. CASE st # "terminated" /\ event[worker]
  BY <1>2 DEF LoopHead, At
<1>3. CASE st # "terminated" /\ ~event[worker]
  BY <1>3 DEF LoopHead, At
<1>4. QED
  BY <1>1, <1>2, <1>3

\* The answer of a tool that fits is one token more.
LEMMA ToolEffect ==
    ASSUME Inv, NEW r \in Rollouts, ToolsReturn(r)
    PROVE  \/ /\ Len(text[r]) + 1 < ResponseLength
              /\ \E token \in Tokens :
                    /\ token.kind = "tool" /\ token.ver = 0
                    /\ text' = [text EXCEPT ![r] = Append(text[r], token)]
              /\ mask' = [mask EXCEPT ![r] = Append(mask[r], 0)]
              /\ logprobs' = [logprobs EXCEPT ![r] = Append(logprobs[r], 0)]
              /\ LoopHead(r, "generating")
           \/ UNCHANGED <<text, mask, logprobs>> /\ LoopHead(r, "terminated")
<1> DEFINE token == [kind |-> "tool", ver |-> 0]
<1>1. token \in Tokens
  BY PartialAssumption DEF Tokens
<1>2. text[r] \in Seq(Tokens) /\ Len(mask[r]) = Len(text[r])
  BY DEF Inv, PartialTypeOK, TextTypeOK, AlignInv, Aligned
<1>3. text[r] \o ToolTokens = Append(text[r], token)
  BY <1>1, <1>2 DEF ToolTokens
<1>4. Len(ToolTokens) = 1
  BY DEF ToolTokens
<1>5. CASE Fits(r)
  BY <1>1, <1>2, <1>3, <1>4, <1>5 DEF ToolsReturn, Fits
<1>6. CASE ~Fits(r)
  BY <1>6 DEF ToolsReturn
<1>7. QED
  BY <1>5, <1>6

-----------------------------------------------------------------------------
(* The initial states *)

LEMMA InitInv == Init => Inv
<1> SUFFICES ASSUME Init PROVE Inv
  OBVIOUS
<1> USE PartialAssumption DEF Init, Of
<1>1. PartialTypeOK
  BY DEF PartialTypeOK, CallTypeOK, LoopTypeOK, TextTypeOK
<1>2. ControlInv
  BY DEF ControlInv
<1>3. RoomInv
  BY DEF RoomInv, Room
<1>4. AlignInv /\ PauseInv
  BY DEF AlignInv, Aligned, Written, PauseInv
<1>5. VersionInv
  BY DEF VersionInv, Whole, Ordered
<1>6. QED
  BY <1>1, <1>2, <1>3, <1>4, <1>5 DEF Inv

-----------------------------------------------------------------------------
(* The steps *)

\* No server generates between pause() and resume().
LEMMA PauseStep ==
    ASSUME Inv, [Next]_vars PROVE PauseInv'
<1> USE PartialAssumption DEF Inv, PartialTypeOK, CallTypeOK, LoopTypeOK, PauseInv, ControlInv,
    Of
<1>1. ASSUME NEW w \in Workers, Submit(w) PROVE PauseInv'
  BY <1>1 DEF Submit, syncVars, serverVars, loopVars, requestVars
<1>2. ASSUME NEW r \in Rollouts, Start(r) PROVE PauseInv'
  <2>1. UNCHANGED <<sync, toTell, paused, version>>
    BY <1>2 DEF Start, syncVars, serverVars
  <2>2. pc' = [pc EXCEPT ![r] = pc'[r]] /\ pc'[r] # "generating"
    <3>1. CASE AlreadyComplete(r) \/ agent # "tool"
      BY <1>2, <3>1 DEF Start, At
    <3>2. CASE ~AlreadyComplete(r) /\ agent = "tool"
      <4>1. LoopHead(r, state[r]) /\ state[r] \in {"pending", "generating", "tools", "terminated"}
        BY <1>2, <3>2 DEF Start
      <4>2. QED
        BY <4>1, LoopHeadEffect
    <3>3. QED
      BY <3>1, <3>2
  <2>3. QED
    BY <2>1, <2>2
<1>3. ASSUME NEW r \in Rollouts, PromptReady(r) PROVE PauseInv'
  <2>1. UNCHANGED <<sync, toTell, paused, version>>
    BY <1>3 DEF PromptReady, syncVars, serverVars
  <2>2. pc' = [pc EXCEPT ![r] = pc'[r]] /\ pc'[r] # "generating"
    BY <1>3, LoopHeadEffect DEF PromptReady
  <2>3. QED
    BY <2>1, <2>2
<1>4. ASSUME NEW r \in Rollouts, TakeReply(r) PROVE PauseInv'
  <2>1. UNCHANGED <<sync, toTell, paused, version>>
    BY <1>4 DEF TakeReply, syncVars, serverVars
  <2>2. pc' = [pc EXCEPT ![r] = pc'[r]] /\ pc'[r] # "generating"
    BY <1>4, LoopHeadEffect, ReplyEffect DEF Inv
  <2>3. QED
    BY <2>1, <2>2
<1>5. ASSUME NEW r \in Rollouts, ToolsReturn(r) PROVE PauseInv'
  <2>1. UNCHANGED <<sync, toTell, paused, version>>
    BY <1>5 DEF ToolsReturn, syncVars, serverVars
  <2>2. pc' = [pc EXCEPT ![r] = pc'[r]] /\ pc'[r] # "generating"
    BY <1>5, LoopHeadEffect, ToolEffect DEF Inv
  <2>3. QED
    BY <2>1, <2>2
<1>6. ASSUME NEW r \in Rollouts, Score(r) PROVE PauseInv'
  BY <1>6 DEF Score, At, syncVars, sampleVars, serverVars, requestVars
<1>7. ASSUME NEW r \in Rollouts, Token(r) PROVE PauseInv'
  BY <1>7 DEF Token, syncVars, sampleVars, serverVars, loopVars
<1>8. ASSUME NEW r \in Rollouts, Return(r) PROVE PauseInv'
  BY <1>8 DEF Return, At, syncVars, sampleVars, serverVars, loopVars
<1>9. ASSUME NEW r \in Rollouts, NEW s \in Servers, Arrive(r, s) PROVE PauseInv'
  BY <1>9 DEF Arrive, At, syncVars, sampleVars, serverVars, loopVars
<1>10. CASE Gather
  BY <1>10 DEF Gather, syncVars, serverVars, loopVars, requestVars
<1>11. CASE BeginPause \/ PauseEnd \/ Transferred \/ UpdateVersion \/ BeginResume \/ ResumeEnd
  BY <1>11 DEF BeginPause, PauseEnd, Transferred, UpdateVersion, BeginResume, ResumeEnd,
    sampleVars, serverVars, loopVars, requestVars
<1>12. ASSUME NEW s \in Servers, CancelServer(s) \/ ResumeServer(s) PROVE PauseInv'
  <2>1. CASE CancelServer(s)
    BY <2>1 DEF CancelServer
  <2>2. CASE ResumeServer(s)
    BY <2>2 DEF ResumeServer
  <2>3. QED
    BY <1>12, <2>1, <2>2
<1>13. ASSUME NEW w \in Workers, CancelWorker(w) \/ ResumeWorker(w) PROVE PauseInv'
  BY <1>13 DEF CancelWorker, ResumeWorker, sampleVars, loopVars, requestVars
<1>14. CASE UNCHANGED vars
  BY <1>14 DEF vars, syncVars, sampleVars, serverVars, loopVars, requestVars
<1>15. QED
  BY <1>1, <1>2, <1>3, <1>4, <1>5, <1>6, <1>7, <1>8, <1>9, <1>10, <1>11, <1>12, <1>13,
    <1>14 DEF Next, Loop, Synchronize

\* A loop that ends an interruption leaves its output, one that is over its reward.
LEMMA ControlStep ==
    ASSUME Inv, [Next]_vars PROVE ControlInv'
<1> USE PartialAssumption DEF Inv, PartialTypeOK, LoopTypeOK, ControlInv, Of
<1>1. ASSUME NEW w \in Workers, Submit(w) PROVE ControlInv'
  BY <1>1 DEF Submit, syncVars, serverVars, loopVars, requestVars
<1>2. ASSUME NEW r \in Rollouts, Start(r) PROVE ControlInv'
  <2>1. /\ UNCHANGED <<server, scores, sample, finished, fragment, text>>
        /\ pc[r] = "start"
    BY <1>2 DEF Start, sampleVars, requestVars
  <2>2. CASE AlreadyComplete(r)
    BY <1>2, <2>1, <2>2 DEF Start, AlreadyComplete, At
  <2>3. CASE ~AlreadyComplete(r) /\ agent = "tool"
    <3>1. LoopHead(r, state[r]) /\ state[r] \in {"pending", "generating", "tools", "terminated"}
      BY <1>2, <2>3 DEF Start
    <3>2. state[r] # "terminated" /\ output[r] # "complete"
      BY <2>1, <2>3 DEF AlreadyComplete
    <3>3. PICK p \in {"prompt", "calling", "tools", "scoring", "ended"} :
              /\ state' = [state EXCEPT ![r] = state[r]] /\ pc' = [pc EXCEPT ![r] = p]
              /\ p = "scoring" <=> state[r] = "terminated"
              /\ p = "tools" => state[r] = "tools"
              /\ output' = IF p = "ended" THEN [output EXCEPT ![r] = "cancelled"] ELSE output
      BY <3>1, LoopHeadEffect
    <3>4. QED
      BY <2>1, <3>2, <3>3
  <2>4. CASE ~AlreadyComplete(r) /\ agent # "tool"
    BY <1>2, <2>1, <2>4 DEF Start, AlreadyComplete, At
  <2>5. QED
    BY <2>2, <2>3, <2>4
<1>3. ASSUME NEW r \in Rollouts, PromptReady(r) PROVE ControlInv'
  <2>1. pc[r] = "prompt" /\ UNCHANGED <<sample, scores, server, finished, fragment, text>>
    BY <1>3 DEF PromptReady, sampleVars, requestVars
  <2>2. LoopHead(r, "generating")
    BY <1>3 DEF PromptReady
  <2>3. PICK p \in {"prompt", "calling", "tools", "scoring", "ended"} :
            /\ state' = [state EXCEPT ![r] = "generating"] /\ pc' = [pc EXCEPT ![r] = p]
            /\ p = "scoring" <=> "generating" = "terminated"
            /\ p = "tools" => "generating" = "tools"
            /\ output' = IF p = "ended" THEN [output EXCEPT ![r] = "cancelled"] ELSE output
    BY <2>2, LoopHeadEffect
  <2>4. QED
    BY <2>1, <2>3
<1>4. ASSUME NEW r \in Rollouts, TakeReply(r) PROVE ControlInv'
  <2>1. pc[r] = "reply" /\ UNCHANGED <<sample, scores, server, finished>>
    BY <1>4 DEF TakeReply, sampleVars
  <2>2. fragment' = [fragment EXCEPT ![r] = <<>>] /\ text' = [text EXCEPT ![r] = Cut(Whole(r))]
    BY <1>4, ReplyEffect
  <2>3. PICK next \in {"generating", "tools", "terminated"} :
              \/ /\ agent = "single" /\ next = "generating" /\ state' = state
                 /\ pc' = [pc EXCEPT ![r] = "ended"]
                 /\ output' = [output EXCEPT ![r] = "cancelled"]
              \/ LoopHead(r, next)
    BY <1>4, ReplyEffect
  <2>4. CASE LoopHead(r, next)
    <3>1. PICK p \in {"prompt", "calling", "tools", "scoring", "ended"} :
              /\ state' = [state EXCEPT ![r] = next] /\ pc' = [pc EXCEPT ![r] = p]
              /\ p = "scoring" <=> next = "terminated"
              /\ p = "tools" => next = "tools"
              /\ output' = IF p = "ended" THEN [output EXCEPT ![r] = "cancelled"] ELSE output
      BY <2>4, LoopHeadEffect
    <3>2. QED
      BY <2>1, <2>2, <3>1 DEF TextTypeOK
  <2>5. CASE /\ agent = "single" /\ next = "generating" /\ state' = state
             /\ pc' = [pc EXCEPT ![r] = "ended"] /\ output' = [output EXCEPT ![r] = "cancelled"]
    BY <2>1, <2>2, <2>5 DEF TextTypeOK
  <2>6. QED
    BY <2>3, <2>4, <2>5
<1>5. ASSUME NEW r \in Rollouts, ToolsReturn(r) PROVE ControlInv'
  <2>1. pc[r] = "tools" /\ UNCHANGED <<sample, scores, server, finished, fragment>>
    BY <1>5 DEF ToolsReturn, sampleVars, requestVars
  <2>2. \A q \in Rollouts \ {r} : text'[q] = text[q]
    BY <1>5 DEF ToolsReturn, TextTypeOK
  <2>3. PICK st \in {"generating", "terminated"} : LoopHead(r, st)
    BY <1>5 DEF ToolsReturn
  <2>4. PICK p \in {"prompt", "calling", "tools", "scoring", "ended"} :
            /\ state' = [state EXCEPT ![r] = st] /\ pc' = [pc EXCEPT ![r] = p]
            /\ p = "scoring" <=> st = "terminated"
            /\ p = "tools" => st = "tools"
            /\ output' = IF p = "ended" THEN [output EXCEPT ![r] = "cancelled"] ELSE output
    BY <2>3, LoopHeadEffect
  <2>5. /\ pc'[r] = p /\ state'[r] = st
        /\ output'[r] = IF p = "ended" THEN "cancelled" ELSE output[r]
        /\ \A q \in Rollouts \ {r} :
              pc'[q] = pc[q] /\ state'[q] = state[q] /\ output'[q] = output[q]
    BY <2>4
  <2>6. ASSUME NEW q \in Rollouts
        PROVE  /\ pc'[q] = "idle" <=> sample' # "running"
               /\ pc'[q] \in {"prompt", "calling", "generating", "reply", "tools", "scoring"}
                     => output'[q] # "complete"
               /\ state'[q] = "terminated" <=> (pc'[q] = "scoring" \/ output'[q] = "complete")
               /\ pc'[q] = "tools" => state'[q] = "tools"
               /\ pc'[q] = "ended" => output'[q] # "none"
               /\ sample' = "released" => output'[q] = "complete"
               /\ scores'[q] = IF output'[q] = "complete" THEN 1 ELSE 0
               /\ server'[q] # NoServer <=> pc'[q] = "generating"
               /\ finished'[q] => pc'[q] = "generating"
               /\ fragment'[q] # <<>> => pc'[q] \in {"generating", "reply"}
               /\ (output'[q] = "none" /\ pc'[q] \in {"idle", "start"}) => text'[q] = <<>>
    <3>1. CASE q = r
      BY <2>1, <2>4, <2>5, <3>1
    <3>2. CASE q # r
      <4>1. /\ pc'[q] = pc[q] /\ state'[q] = state[q] /\ output'[q] = output[q]
            /\ text'[q] = text[q] /\ sample' = sample /\ scores'[q] = scores[q]
            /\ server'[q] = server[q] /\ finished'[q] = finished[q]
            /\ fragment'[q] = fragment[q]
        BY <2>1, <2>2, <2>5, <3>2
      <4>2. /\ pc[q] = "idle" <=> sample # "running"
            /\ pc[q] \in {"prompt", "calling", "generating", "reply", "tools", "scoring"}
                  => output[q] # "complete"
            /\ state[q] = "terminated" <=> (pc[q] = "scoring" \/ output[q] = "complete")
            /\ pc[q] = "tools" => state[q] = "tools"
            /\ pc[q] = "ended" => output[q] # "none"
            /\ sample = "released" => output[q] = "complete"
            /\ scores[q] = IF output[q] = "complete" THEN 1 ELSE 0
            /\ server[q] # NoServer <=> pc[q] = "generating"
            /\ finished[q] => pc[q] = "generating"
            /\ fragment[q] # <<>> => pc[q] \in {"generating", "reply"}
            /\ (output[q] = "none" /\ pc[q] \in {"idle", "start"}) => text[q] = <<>>
        OBVIOUS
      <4>3. QED
        BY <4>1, <4>2
    <3>3. QED
      BY <3>1, <3>2
  <2>7. QED
    BY <2>6
<1>6. ASSUME NEW r \in Rollouts, Score(r) PROVE ControlInv'
  BY <1>6 DEF Score, At, syncVars, sampleVars, serverVars, requestVars
<1>7. ASSUME NEW r \in Rollouts, Token(r) PROVE ControlInv'
  BY <1>7 DEF Token, syncVars, sampleVars, serverVars, loopVars, TextTypeOK
<1>8. ASSUME NEW r \in Rollouts, Return(r) PROVE ControlInv'
  BY <1>8 DEF Return, At, syncVars, sampleVars, serverVars, loopVars
<1>9. ASSUME NEW r \in Rollouts, NEW s \in Servers, Arrive(r, s) PROVE ControlInv'
  BY <1>9 DEF Arrive, At, syncVars, sampleVars, serverVars, loopVars
<1>10. CASE Gather
  BY <1>10 DEF Gather, syncVars, serverVars, loopVars, requestVars, Interrupted
<1>11. CASE BeginPause \/ PauseEnd \/ Transferred \/ UpdateVersion \/ BeginResume \/ ResumeEnd
  BY <1>11 DEF BeginPause, PauseEnd, Transferred, UpdateVersion, BeginResume, ResumeEnd,
    sampleVars, serverVars, loopVars, requestVars
<1>12. ASSUME NEW s \in Servers, CancelServer(s) \/ ResumeServer(s) PROVE ControlInv'
  <2>1. UNCHANGED <<pc, sample, state, output, scores, server, finished, fragment, text>>
    BY <1>12 DEF CancelServer, ResumeServer, sampleVars, loopVars, requestVars
  <2>2. QED
    BY <2>1
<1>13. ASSUME NEW w \in Workers, CancelWorker(w) \/ ResumeWorker(w) PROVE ControlInv'
  BY <1>13 DEF CancelWorker, ResumeWorker, sampleVars, loopVars, requestVars
<1>14. CASE UNCHANGED vars
  BY <1>14 DEF vars, syncVars, sampleVars, serverVars, loopVars, requestVars
<1>15. QED
  BY <1>1, <1>2, <1>3, <1>4, <1>5, <1>6, <1>7, <1>8, <1>9, <1>10, <1>11, <1>12, <1>13,
    <1>14 DEF Next, Loop, Synchronize

LEMMA Lengths ==
    ASSUME Inv, NEW r \in Rollouts
    PROVE  /\ text[r] \in Seq(Tokens) /\ Len(text[r]) \in Nat
           /\ fragment[r] \in Seq(Tokens) /\ Len(fragment[r]) \in Nat
  BY LenProperties DEF Inv, PartialTypeOK, TextTypeOK

\* Where its response does not change, a loop may leave a request and be cancelled.
LEMMA RoomAt ==
    ASSUME Inv, NEW q \in Rollouts,
           text'[q] = text[q], fragment'[q] = fragment[q], state'[q] = state[q],
           finished'[q] = finished[q],
           cancelled[q] => cancelled'[q],
           pc'[q] = pc[q] \/ pc'[q] \notin {"generating", "reply"}
    PROVE  Room(q)'
  BY DEF Inv, RoomInv, Room

LEMMA RoomKept ==
    ASSUME Inv, UNCHANGED <<text, fragment, state, finished>>,
           \A q \in Rollouts : cancelled[q] => cancelled'[q],
           \A q \in Rollouts : pc'[q] = pc[q] \/ pc'[q] \notin {"generating", "reply"}
    PROVE  RoomInv'
<1>1. ASSUME NEW q \in Rollouts PROVE Room(q)'
  BY RoomAt
<1>2. QED
  BY <1>1 DEF RoomInv

\* The context of the model bounds a generation: its last token finishes it.
LEMMA TokenRoom ==
    ASSUME Inv, NEW r \in Rollouts, Token(r)
    PROVE  Room(r)'
<1>1. /\ Len(text[r]) \in Nat /\ fragment[r] \in Seq(Tokens) /\ Len(fragment[r]) \in Nat
      /\ MaxModelLen \in Nat
  BY Lengths, PartialAssumption
<1>2. pc[r] = "generating" /\ UNCHANGED <<pc, state, text, cancelled>>
  BY DEF Token, loopVars
<1>3. Len(fragment'[r]) = Len(fragment[r]) + 1 /\ fragment'[r] # <<>>
  <2>1. PICK k \in Kinds :
              fragment' = [fragment EXCEPT ![r] = Append(@, [kind |-> k, ver |-> version])]
    BY DEF Token
  <2>2. fragment'[r] = Append(fragment[r], [kind |-> k, ver |-> version])
    BY <2>1 DEF Inv, PartialTypeOK, TextTypeOK
  <2>3. [kind |-> k, ver |-> version] \in Tokens
    BY PartialAssumption DEF Tokens, Inv, PartialTypeOK, CallTypeOK
  <2>4. QED
    BY <1>1, <2>2, <2>3
<1>4. Len(text[r]) + Len(fragment[r]) + 1 >= MaxModelLen => finished'[r]
  <2>1. PICK last \in BOOLEAN :
              /\ Len(text[r]) + Len(fragment[r]) + 1 >= MaxModelLen => last
              /\ finished' = [finished EXCEPT ![r] = last]
    BY DEF Token
  <2>2. finished'[r] = last
    BY <2>1 DEF Inv, PartialTypeOK, LoopTypeOK
  <2>3. QED
    BY <2>1, <2>2, Zenon
<1>5. CASE finished'[r]
  BY <1>2, <1>3, <1>5 DEF Room, Inv, RoomInv
<1>6. CASE ~finished'[r]
  <2>1. ~(Len(text[r]) + Len(fragment[r]) + 1 >= MaxModelLen)
    BY <1>4, <1>6, Zenon
  <2>2. Len(text'[r]) + Len(fragment'[r]) < MaxModelLen
    <3>1. \A a, b, n \in Nat : ~(a + b + 1 >= n) => a + (b + 1) < n
      OBVIOUS
    <3>2. Len(text[r]) + (Len(fragment[r]) + 1) < MaxModelLen
      BY <1>1, <2>1, <3>1
    <3>3. QED
      BY <1>2, <1>3, <3>2, Zenon
  <2>3. QED
    BY <1>2, <1>6, <2>2 DEF Room, Inv, RoomInv
<1>7. QED
  BY <1>5, <1>6

\* A loop goes on only with room, and is over only with something written.
LEMMA RoomStep ==
    ASSUME Inv, [Next]_vars PROVE RoomInv'
<1> USE PartialAssumption DEF Inv, RoomInv
<1>1. ASSUME NEW w \in Workers, Submit(w) PROVE RoomInv'
  <2>1. UNCHANGED <<text, fragment, state, finished, cancelled>>
    BY <1>1 DEF Submit, loopVars, requestVars
  <2>2. \A q \in Rollouts : pc'[q] = pc[q] \/ pc'[q] \notin {"generating", "reply"}
    BY <1>1 DEF Submit, Of
  <2>3. QED
    BY <2>1, <2>2, RoomKept
<1>2. ASSUME NEW r \in Rollouts, Start(r) PROVE RoomInv'
  <2>1. UNCHANGED <<text, fragment, cancelled, finished>>
    BY <1>2 DEF Start, requestVars
  <2>2. /\ state' = state
        /\ \A q \in Rollouts : pc'[q] = pc[q] \/ pc'[q] \notin {"generating", "reply"}
    <3>1. CASE AlreadyComplete(r) \/ agent # "tool"
      BY <1>2, <3>1 DEF Start, At, PartialTypeOK, LoopTypeOK
    <3>2. CASE ~AlreadyComplete(r) /\ agent = "tool"
      <4>1. LoopHead(r, state[r]) /\ state[r] \in {"pending", "generating", "tools", "terminated"}
        BY <1>2, <3>2 DEF Start, PartialTypeOK, LoopTypeOK
      <4>2. PICK p \in {"prompt", "calling", "tools", "scoring", "ended"} :
                /\ state' = [state EXCEPT ![r] = state[r]] /\ pc' = [pc EXCEPT ![r] = p]
                /\ p = "scoring" <=> state[r] = "terminated"
                /\ p = "tools" => state[r] = "tools"
                /\ output' = IF p = "ended" THEN [output EXCEPT ![r] = "cancelled"] ELSE output
        BY <4>1, LoopHeadEffect
      <4>3. QED
        BY <4>2 DEF PartialTypeOK, LoopTypeOK
    <3>3. QED
      BY <3>1, <3>2
  <2>3. QED
    BY <2>1, <2>2, RoomKept
<1>3. ASSUME NEW r \in Rollouts, PromptReady(r) PROVE RoomInv'
  <2>1. UNCHANGED <<text, fragment, cancelled, finished>> /\ pc[r] = "prompt"
    BY <1>3 DEF PromptReady, requestVars
  <2>2. LoopHead(r, "generating")
    BY <1>3 DEF PromptReady
  <2>3. PICK p \in {"prompt", "calling", "tools", "scoring", "ended"} :
            /\ state' = [state EXCEPT ![r] = "generating"] /\ pc' = [pc EXCEPT ![r] = p]
            /\ p = "scoring" <=> "generating" = "terminated"
            /\ p = "tools" => "generating" = "tools"
            /\ output' = IF p = "ended" THEN [output EXCEPT ![r] = "cancelled"] ELSE output
    BY <2>2, LoopHeadEffect
  <2>4. Len(text[r]) < ResponseLength
    BY <2>1 DEF ControlInv, Room
  <2>5. Room(r)'
    BY <2>1, <2>3, <2>4 DEF Room, PartialTypeOK, LoopTypeOK
  <2>6. ASSUME NEW q \in Rollouts \ {r} PROVE Room(q)'
    BY <2>1, <2>3, RoomAt DEF PartialTypeOK, LoopTypeOK
  <2>7. QED
    BY <2>5, <2>6
<1>4. ASSUME NEW r \in Rollouts, TakeReply(r) PROVE RoomInv'
  <2> DEFINE whole == Whole(r)
  <2>1. pc[r] = "reply" /\ UNCHANGED <<finished>>
    BY <1>4 DEF TakeReply
  <2>2. /\ fragment' = [fragment EXCEPT ![r] = <<>>] /\ text' = [text EXCEPT ![r] = Cut(whole)]
        /\ cancelled' = [cancelled EXCEPT ![r] = FALSE]
    BY <1>4, ReplyEffect DEF TakeReply
  <2>3. PICK next \in {"generating", "tools", "terminated"} :
              /\ next # "terminated" => Len(whole) < ResponseLength
              /\ next # "generating" => ~cancelled[r] \/ Len(whole) >= ResponseLength
              /\ \/ /\ agent = "single" /\ next = "generating" /\ state' = state
                    /\ pc' = [pc EXCEPT ![r] = "ended"]
                    /\ output' = [output EXCEPT ![r] = "cancelled"]
                 \/ LoopHead(r, next)
    BY <1>4, ReplyEffect
  <2>4. /\ whole \in Seq(Tokens) /\ Len(whole) = Len(text[r]) + Len(fragment[r])
        /\ text[r] \in Seq(Tokens) /\ fragment[r] \in Seq(Tokens)
    BY ReplyTypes, Lengths
  <2> HIDE DEF whole
  <2>5. Len(Cut(whole)) <= ResponseLength /\ Len(Cut(whole)) <= Len(whole)
    BY <2>4, CutProperties
  <2>6. (text[r] # <<>> \/ fragment[r] # <<>>) => Cut(whole) # <<>>
    <3>1. (text[r] # <<>> \/ fragment[r] # <<>>) => whole # <<>>
      BY Lengths, ConcatEqualIffEmpty DEF whole, Whole
    <3>2. QED
      BY <2>4, <3>1, CutNotEmpty
  <2>7. next # "generating" => Cut(whole) # <<>>
    <3>1. Len(whole) >= ResponseLength => whole # <<>>
      BY PartialAssumption
    <3>2. QED
      BY <2>1, <2>3, <2>4, <2>6, <3>1, CutNotEmpty DEF Room
  <2>8. /\ state'[r] # "terminated" => Len(whole) < ResponseLength
        /\ state'[r] \in {"tools", "terminated"} => Cut(whole) # <<>>
        /\ pc'[r] \notin {"generating", "reply"}
        /\ \A q \in Rollouts \ {r} : pc'[q] = pc[q] /\ state'[q] = state[q]
    <3>1. CASE LoopHead(r, next)
      <4>1. PICK p \in {"prompt", "calling", "tools", "scoring", "ended"} :
                /\ state' = [state EXCEPT ![r] = next] /\ pc' = [pc EXCEPT ![r] = p]
                /\ p = "scoring" <=> next = "terminated"
                /\ p = "tools" => next = "tools"
                /\ output' = IF p = "ended" THEN [output EXCEPT ![r] = "cancelled"] ELSE output
        BY <3>1, LoopHeadEffect
      <4>2. QED
        BY <2>3, <2>7, <4>1 DEF PartialTypeOK, LoopTypeOK
    <3>2. CASE /\ agent = "single" /\ next = "generating" /\ state' = state
               /\ pc' = [pc EXCEPT ![r] = "ended"] /\ output' = [output EXCEPT ![r] = "cancelled"]
      BY <2>1, <2>3, <2>6, <3>2 DEF PartialTypeOK, LoopTypeOK, ControlInv, Room
    <3>3. QED
      BY <2>3, <3>1, <3>2
  <2>9. Len(Cut(whole)) \in Nat
    BY <2>4, CutProperties
  <2>10. /\ text'[r] = Cut(whole) /\ fragment'[r] = <<>>
         /\ \A q \in Rollouts \ {r} : /\ text'[q] = text[q] /\ fragment'[q] = fragment[q]
                                      /\ cancelled'[q] = cancelled[q] /\ finished'[q] = finished[q]
    BY <2>1, <2>2 DEF PartialTypeOK, TextTypeOK, LoopTypeOK
  <2>11. state'[r] # "terminated" => Len(Cut(whole)) < ResponseLength
    <3>1. Len(whole) \in Nat /\ ResponseLength \in Nat
      BY <2>4, LenProperties
    <3>2. QED
      BY <2>5, <2>8, <2>9, <3>1
  <2>12. Room(r)'
    BY <2>5, <2>8, <2>10, <2>11 DEF Room
  <2>13. ASSUME NEW q \in Rollouts \ {r} PROVE Room(q)'
    BY <2>8, <2>10, RoomAt
  <2>14. QED
    BY <2>12, <2>13
<1>5. ASSUME NEW r \in Rollouts, ToolsReturn(r) PROVE RoomInv'
  <2>1. UNCHANGED <<fragment, cancelled, finished>> /\ pc[r] = "tools"
    BY <1>5 DEF ToolsReturn, requestVars
  <2>2. Len(text[r]) \in Nat /\ text[r] \in Seq(Tokens)
    BY Lengths
  <2>3. text[r] # <<>> /\ fragment[r] = <<>> /\ ~finished[r]
    BY <2>1 DEF ControlInv, Room
  <2>4. CASE UNCHANGED text /\ LoopHead(r, "terminated")
    <3>1. PICK p \in {"prompt", "calling", "tools", "scoring", "ended"} :
              /\ state' = [state EXCEPT ![r] = "terminated"] /\ pc' = [pc EXCEPT ![r] = p]
              /\ p = "scoring" <=> "terminated" = "terminated"
              /\ p = "tools" => "terminated" = "tools"
              /\ output' = IF p = "ended" THEN [output EXCEPT ![r] = "cancelled"] ELSE output
      BY <2>4, LoopHeadEffect
    <3>2. QED
      <4>1. Room(r)'
        BY <2>1, <2>3, <2>4, <3>1 DEF PartialTypeOK, LoopTypeOK, Room
      <4>2. ASSUME NEW q \in Rollouts \ {r} PROVE Room(q)'
        BY <2>1, <2>4, <3>1, RoomAt DEF PartialTypeOK, LoopTypeOK
      <4>3. QED
        BY <4>1, <4>2
  <2>5. CASE /\ Len(text[r]) + 1 < ResponseLength /\ LoopHead(r, "generating")
             /\ \E token \in Tokens : text' = [text EXCEPT ![r] = Append(text[r], token)]
    <3>1. Len(text'[r]) = Len(text[r]) + 1 /\ \A q \in Rollouts \ {r} : text'[q] = text[q]
      BY <2>2, <2>5 DEF PartialTypeOK, TextTypeOK
    <3>2. PICK p \in {"prompt", "calling", "tools", "scoring", "ended"} :
              /\ state' = [state EXCEPT ![r] = "generating"] /\ pc' = [pc EXCEPT ![r] = p]
              /\ p = "scoring" <=> "generating" = "terminated"
              /\ p = "tools" => "generating" = "tools"
              /\ output' = IF p = "ended" THEN [output EXCEPT ![r] = "cancelled"] ELSE output
      BY <2>5, LoopHeadEffect
    <3>3. /\ pc'[r] \notin {"generating", "reply"} /\ state'[r] = "generating"
          /\ \A q \in Rollouts \ {r} : pc'[q] = pc[q] /\ state'[q] = state[q]
      BY <3>2 DEF PartialTypeOK, LoopTypeOK
    <3>4. QED
      <4>1. Room(r)'
        BY <2>1, <2>2, <2>3, <2>5, <3>1, <3>3 DEF Room
      <4>2. ASSUME NEW q \in Rollouts \ {r} PROVE Room(q)'
        BY <2>1, <3>1, <3>3, RoomAt
      <4>3. QED
        BY <4>1, <4>2
  <2>6. QED
    BY <1>5, <2>4, <2>5, ToolEffect
<1>6. ASSUME NEW r \in Rollouts, Score(r) PROVE RoomInv'
  <2>1. UNCHANGED <<text, fragment, state, finished, cancelled>>
    BY <1>6 DEF Score, requestVars
  <2>2. \A q \in Rollouts : pc'[q] = pc[q] \/ pc'[q] \notin {"generating", "reply"}
    BY <1>6 DEF Score, At, PartialTypeOK, LoopTypeOK
  <2>3. QED
    BY <2>1, <2>2, RoomKept
<1>7. ASSUME NEW r \in Rollouts, Token(r) PROVE RoomInv'
  <2>1. Room(r)'
    BY <1>7, TokenRoom DEF Inv
  <2>2. UNCHANGED <<pc, state, text, cancelled>>
    BY <1>7 DEF Token, loopVars
  <2>3. \A q \in Rollouts \ {r} : fragment'[q] = fragment[q] /\ finished'[q] = finished[q]
    BY <1>7 DEF Token, PartialTypeOK, TextTypeOK, LoopTypeOK
  <2>4. ASSUME NEW q \in Rollouts \ {r} PROVE Room(q)'
    BY <2>2, <2>3, RoomAt
  <2>5. QED
    BY <2>1, <2>4
<1>8. ASSUME NEW r \in Rollouts, Return(r) PROVE RoomInv'
  <2>1. /\ UNCHANGED <<text, fragment, state>> /\ pc[r] = "generating"
        /\ pc' = [pc EXCEPT ![r] = "reply"] /\ cancelled' = [cancelled EXCEPT ![r] = ~finished[r]]
        /\ finished' = [finished EXCEPT ![r] = FALSE]
    BY <1>8 DEF Return, Replied, At, loopVars
  <2>2. /\ pc'[r] = "reply" /\ (~cancelled'[r] => finished[r]) /\ ~finished'[r]
        /\ \A q \in Rollouts \ {r} : /\ pc'[q] = pc[q] /\ cancelled'[q] = cancelled[q]
                                     /\ finished'[q] = finished[q]
    BY <2>1 DEF PartialTypeOK, LoopTypeOK
  <2>3. Room(r)'
    BY <2>1, <2>2 DEF Room
  <2>4. ASSUME NEW q \in Rollouts \ {r} PROVE Room(q)'
    BY <2>1, <2>2, RoomAt
  <2>5. QED
    BY <2>3, <2>4
<1>9. ASSUME NEW r \in Rollouts, NEW s \in Servers, Arrive(r, s) PROVE RoomInv'
  <2>1. /\ UNCHANGED <<text, fragment, state, finished>> /\ pc[r] = "calling"
        /\ \A q \in Rollouts \ {r} : pc'[q] = pc[q] /\ cancelled'[q] = cancelled[q]
        /\ pc'[r] = "generating" \/ (pc'[r] = "reply" /\ cancelled'[r])
    BY <1>9 DEF Arrive, At, loopVars, PartialTypeOK, LoopTypeOK
  <2>2. ~finished[r] /\ fragment[r] = <<>> /\ state[r] # "terminated"
    BY <2>1 DEF ControlInv
  <2>3. Len(text[r]) + Len(fragment[r]) < MaxModelLen
    <3>1. Len(text[r]) < ResponseLength /\ Len(fragment[r]) = 0 /\ Len(text[r]) \in Nat
      BY <2>2, Lengths DEF Room
    <3>2. QED
      BY <3>1, PartialAssumption
  <2>4. Room(r)'
    BY <2>1, <2>2, <2>3 DEF Room
  <2>5. ASSUME NEW q \in Rollouts \ {r} PROVE Room(q)'
    BY <2>1, RoomAt
  <2>6. QED
    BY <2>4, <2>5
<1>10. CASE Gather
  <2>1. UNCHANGED <<text, fragment, state, finished, cancelled>>
    BY <1>10 DEF Gather, loopVars, requestVars
  <2>2. \A q \in Rollouts : pc'[q] = pc[q] \/ pc'[q] \notin {"generating", "reply"}
    BY <1>10 DEF Gather, Of
  <2>3. QED
    BY <2>1, <2>2, RoomKept
<1>11. CASE BeginPause \/ PauseEnd \/ Transferred \/ UpdateVersion \/ BeginResume \/ ResumeEnd
  <2>1. UNCHANGED <<text, fragment, state, finished, cancelled, pc>>
    BY <1>11 DEF BeginPause, PauseEnd, Transferred, UpdateVersion, BeginResume, ResumeEnd,
      loopVars, requestVars
  <2>2. QED
    BY <2>1, RoomKept
<1>12. ASSUME NEW s \in Servers, CancelServer(s) \/ ResumeServer(s) PROVE RoomInv'
  <2>1. UNCHANGED <<text, fragment, state, finished, pc>>
    BY <1>12 DEF CancelServer, ResumeServer, loopVars, requestVars
  <2>2. \A q \in Rollouts : cancelled[q] => cancelled'[q]
    <3>1. CASE CancelServer(s)
      BY <3>1 DEF CancelServer
    <3>2. CASE ResumeServer(s)
      BY <3>2 DEF ResumeServer, requestVars
    <3>3. QED
      BY <1>12, <3>1, <3>2
  <2>3. QED
    BY <2>1, <2>2, RoomKept
<1>13. ASSUME NEW w \in Workers, CancelWorker(w) \/ ResumeWorker(w) PROVE RoomInv'
  <2>1. UNCHANGED <<text, fragment, state, finished, cancelled, pc>>
    BY <1>13 DEF CancelWorker, ResumeWorker, loopVars, requestVars
  <2>2. QED
    BY <2>1, RoomKept
<1>14. CASE UNCHANGED vars
  BY <1>14 DEF vars, syncVars, sampleVars, serverVars, loopVars, requestVars, Room
<1>15. QED
  BY <1>1, <1>2, <1>3, <1>4, <1>5, <1>6, <1>7, <1>8, <1>9, <1>10, <1>11, <1>12, <1>13,
    <1>14 DEF Next, Loop, Synchronize

\* A version, a token or both are added in order.
LEMMA OrderedLater ==
    ASSUME NEW s \in Seq(Tokens), NEW v \in Nat, NEW now \in Nat, NEW later \in Nat,
           now <= later, Ordered(s, v, now)
    PROVE  Ordered(s, v, later)
<1>1. \A i \in 1 .. Len(s) : s[i].ver \in Nat
  <2>1. \A i \in 1 .. Len(s) : s[i] \in Tokens
    BY ElementOfSeq
  <2>2. QED
    BY <2>1, PartialAssumption DEF Tokens
<1>2. QED
  BY <1>1 DEF Ordered

LEMMA OrderedAppend ==
    ASSUME NEW s \in Seq(Tokens), NEW v \in Nat, NEW now \in Nat, Ordered(s, v, now), v <= now,
           NEW token \in Tokens, token.ver <= now, token.kind # "tool" => token.ver = now
    PROVE  Ordered(Append(s, token), v, now)
<1> DEFINE t == Append(s, token)
<1>1. Len(t) = Len(s) + 1 /\ Len(s) \in Nat /\ t[Len(t)] = token
  OBVIOUS
<1>2. \A i \in 1 .. Len(s) : t[i] = s[i]
  OBVIOUS
<1> HIDE DEF t
<1>3. SUFFICES ASSUME NEW i \in 1 .. Len(t)
               PROVE  /\ t[i].ver <= now
                      /\ t[i].kind # "tool" => /\ v <= t[i].ver
                                               /\ \A j \in 1 .. i : t[j].ver <= t[i].ver
  BY DEF Ordered, t
<1>4. CASE i <= Len(s)
  <2>1. i \in 1 .. Len(s) /\ \A j \in 1 .. i : j \in 1 .. Len(s)
    BY <1>1, <1>4
  <2>2. QED
    BY <1>2, <2>1 DEF Ordered
<1>5. CASE i = Len(t)
  <2>1. \A j \in 1 .. Len(s) : t[j].ver <= now
    BY <1>2 DEF Ordered
  <2>2. \A j \in 1 .. Len(t) : t[j].ver <= now
    BY <1>1, <2>1
  <2>3. QED
    BY <1>1, <1>5, <2>2
<1>6. QED
  BY <1>1, <1>4, <1>5

LEMMA OrderedCut ==
    ASSUME NEW s \in Seq(Tokens), NEW v \in Nat, NEW now \in Nat, Ordered(s, v, now)
    PROVE  Ordered(Cut(s), v, now)
<1>1. /\ Len(Cut(s)) \in Nat /\ Len(s) \in Nat /\ Len(Cut(s)) <= Len(s)
      /\ \A i \in 1 .. Len(Cut(s)) : Cut(s)[i] = s[i]
  BY CutProperties, LenProperties
<1>2. SUFFICES ASSUME NEW i \in 1 .. Len(Cut(s))
               PROVE  /\ Cut(s)[i].ver <= now
                      /\ Cut(s)[i].kind # "tool" =>
                            /\ v <= Cut(s)[i].ver
                            /\ \A j \in 1 .. i : Cut(s)[j].ver <= Cut(s)[i].ver
  BY DEF Ordered
<1>3. i \in 1 .. Len(s) /\ \A j \in 1 .. i : j \in 1 .. Len(Cut(s))
  BY <1>1
<1>4. QED
  BY <1>1, <1>3 DEF Ordered

\* Where neither responses nor versions change, neither does the order.
LEMMA OrderKept ==
    ASSUME Inv, UNCHANGED <<recorded, rollVersion, version, start, text, fragment>>
    PROVE  VersionInv'
  BY DEF Inv, VersionInv, Whole

\* Versions only grow along a response, and from its first submission on.
LEMMA VersionStep ==
    ASSUME Inv, [Next]_vars PROVE VersionInv'
<1> USE PartialAssumption DEF Inv, PartialTypeOK, CallTypeOK, LoopTypeOK, TextTypeOK
<1>1. ASSUME NEW w \in Workers, Submit(w) PROVE VersionInv'
  <2>1. recorded' = rollVersion /\ UNCHANGED <<rollVersion, version, start, text, fragment>>
    BY <1>1 DEF Submit, syncVars, serverVars, loopVars, requestVars
  <2>2. QED
    BY <2>1 DEF VersionInv, Whole
<1>2. ASSUME NEW r \in Rollouts, Start(r) PROVE VersionInv'
  <2>1. UNCHANGED <<recorded, rollVersion, version, text, fragment>>
    BY <1>2 DEF Start, sampleVars, syncVars, serverVars, requestVars
  <2>2. CASE start' = start
    BY <2>1, <2>2, OrderKept
  <2>3. CASE output[r] = "none" /\ start' = [start EXCEPT ![r] = recorded]
    <3>1. text[r] = <<>> /\ fragment[r] = <<>>
      BY <1>2, <2>3 DEF Start, ControlInv
    <3>2. Whole(r) = <<>>
      BY <3>1 DEF Whole
    <3>3. Ordered(Whole(r), recorded, version)
      BY <3>2 DEF Ordered
    <3>4. QED
      BY <2>1, <2>3, <3>3 DEF VersionInv, Whole
  <2>4. CASE output[r] # "none" /\ start' = [start EXCEPT ![r] = start[r]]
    <3>1. start' = start
      BY <2>4
    <3>2. QED
      BY <2>2, <3>1
  <2>5. QED
    BY <1>2, <2>2, <2>3, <2>4 DEF Start, StartVersion
<1>3. ASSUME NEW r \in Rollouts, PromptReady(r) PROVE VersionInv'
  BY <1>3, OrderKept DEF PromptReady, LoopHead, At, syncVars, sampleVars, serverVars, requestVars
<1>4. ASSUME NEW r \in Rollouts, TakeReply(r) PROVE VersionInv'
  <2>1. UNCHANGED <<recorded, rollVersion, version, start>>
    BY <1>4 DEF TakeReply, sampleVars, syncVars, serverVars
  <2>2. text' = [text EXCEPT ![r] = Cut(Whole(r))] /\ fragment' = [fragment EXCEPT ![r] = <<>>]
    BY <1>4, ReplyEffect
  <2>3. Whole(r) \in Seq(Tokens) /\ Cut(Whole(r)) \in Seq(Tokens)
    BY ReplyTypes, CutProperties
  <2>4. Whole(r)' = Cut(Whole(r))
    <3>1. Whole(r)' = Cut(Whole(r)) \o <<>>
      BY <2>2 DEF Whole
    <3>2. QED
      BY <2>3, <3>1, ConcatEmptySeq
  <2>5. Ordered(Cut(Whole(r)), start[r], version)
    BY <2>3, OrderedCut DEF VersionInv
  <2>6. \A q \in Rollouts \ {r} : Whole(q)' = Whole(q)
    BY <2>2 DEF Whole
  <2>7. ASSUME NEW q \in Rollouts PROVE Ordered(Whole(q), start[q], version)'
    <3>1. CASE q = r
      BY <2>1, <2>4, <2>5, <3>1 DEF Ordered
    <3>2. CASE q # r
      BY <2>1, <2>6, <3>2 DEF VersionInv, Ordered
    <3>3. QED
      BY <3>1, <3>2
  <2>8. QED
    BY <2>1, <2>7 DEF VersionInv
<1>5. ASSUME NEW r \in Rollouts, ToolsReturn(r) PROVE VersionInv'
  <2>1. UNCHANGED <<recorded, rollVersion, version, start, fragment>>
    BY <1>5 DEF ToolsReturn, sampleVars, syncVars, serverVars, requestVars
  <2>2. CASE UNCHANGED text
    BY <2>1, <2>2, OrderKept
  <2>3. CASE \E token \in Tokens : /\ token.kind = "tool" /\ token.ver = 0
                                   /\ text' = [text EXCEPT ![r] = Append(text[r], token)]
    <3>1. PICK token \in Tokens : /\ token.kind = "tool" /\ token.ver = 0
                                  /\ text' = [text EXCEPT ![r] = Append(text[r], token)]
      BY <2>3
    <3>2. fragment[r] = <<>>
      BY <1>5 DEF ToolsReturn, ControlInv
    <3>3. text[r] \in Seq(Tokens) /\ Append(text[r], token) \in Seq(Tokens)
      BY <3>1
    <3>4. Whole(r) = text[r] /\ Whole(r)' = Append(text[r], token)
      BY <2>1, <3>1, <3>2, <3>3, ConcatEmptySeq DEF Whole
    <3>5. Ordered(Append(text[r], token), start[r], version)
      BY <3>1, <3>3, <3>4, OrderedAppend DEF VersionInv
    <3>6. \A q \in Rollouts \ {r} : Whole(q)' = Whole(q)
      BY <2>1, <3>1 DEF Whole
    <3>7. ASSUME NEW q \in Rollouts PROVE Ordered(Whole(q), start[q], version)'
      <4>1. CASE q = r
        BY <2>1, <3>4, <3>5, <4>1 DEF Ordered
      <4>2. CASE q # r
        BY <2>1, <3>6, <4>2 DEF VersionInv, Ordered
      <4>3. QED
        BY <4>1, <4>2
    <3>8. QED
      BY <2>1, <3>7 DEF VersionInv
  <2>4. QED
    BY <1>5, <2>2, <2>3, ToolEffect
<1>6. ASSUME NEW r \in Rollouts, Score(r) PROVE VersionInv'
  BY <1>6, OrderKept DEF Score, At, syncVars, sampleVars, serverVars, requestVars
<1>7. ASSUME NEW r \in Rollouts, Token(r) PROVE VersionInv'
  <2>1. UNCHANGED <<recorded, rollVersion, version, start, text>>
    BY <1>7 DEF Token, sampleVars, syncVars, serverVars, loopVars
  <2>2. PICK k \in Kinds :
              fragment' = [fragment EXCEPT ![r] = Append(fragment[r], [kind |-> k, ver |-> version])]
    BY <1>7 DEF Token
  <2> DEFINE token == [kind |-> k, ver |-> version]
  <2>3. token \in Tokens /\ token.ver = version /\ text[r] \in Seq(Tokens)
        /\ fragment[r] \in Seq(Tokens)
    BY DEF Tokens
  <2> HIDE DEF token
  <2>4. Whole(r)' = Append(Whole(r), token)
    <3>1. fragment'[r] = Append(fragment[r], token) /\ text'[r] = text[r]
      <4>1. fragment' = [fragment EXCEPT ![r] = Append(fragment[r], token)]
        BY <2>2 DEF token
      <4>2. fragment \in [Rollouts -> Seq(Tokens)]
        BY ReplyTypes DEF TextTypeOK
      <4>3. QED
        BY <2>1, <4>1, <4>2
    <3>2. text[r] \o Append(fragment[r], token) = Append(text[r] \o fragment[r], token)
      BY <2>3, ConcatAppend
    <3>3. QED
      BY <3>1, <3>2 DEF Whole
  <2>5. Ordered(Append(Whole(r), token), start[r], version)
    <3>1. Whole(r) \in Seq(Tokens)
      BY ReplyTypes
    <3>2. /\ Ordered(Whole(r), start[r], version) /\ start[r] <= version
          /\ start[r] \in Nat /\ version \in Nat
      BY DEF VersionInv
    <3>3. token.ver <= version
      BY <2>3, <3>2
    <3>4. QED
      BY <2>3, <3>1, <3>2, <3>3, OrderedAppend
  <2>6. \A q \in Rollouts \ {r} : Whole(q)' = Whole(q)
    BY <2>1, <2>2 DEF Whole
  <2>7. ASSUME NEW q \in Rollouts PROVE Ordered(Whole(q), start[q], version)'
    <3>1. CASE q = r
      BY <2>1, <2>4, <2>5, <3>1 DEF Ordered
    <3>2. CASE q # r
      BY <2>1, <2>6, <3>2 DEF VersionInv, Ordered
    <3>3. QED
      BY <3>1, <3>2
  <2>8. QED
    BY <2>1, <2>7 DEF VersionInv
<1>8. ASSUME NEW r \in Rollouts, Return(r) PROVE VersionInv'
  BY <1>8, OrderKept DEF Return, At, syncVars, sampleVars, serverVars, loopVars
<1>9. ASSUME NEW r \in Rollouts, NEW s \in Servers, Arrive(r, s) PROVE VersionInv'
  BY <1>9, OrderKept DEF Arrive, At, syncVars, sampleVars, serverVars, loopVars
<1>10. CASE Gather
  BY <1>10, OrderKept DEF Gather, syncVars, serverVars, loopVars, requestVars
<1>11. CASE BeginPause \/ PauseEnd \/ Transferred \/ UpdateVersion \/ BeginResume \/ ResumeEnd
  <2>1. UNCHANGED <<recorded, start, text, fragment>>
    BY <1>11 DEF BeginPause, PauseEnd, Transferred, UpdateVersion, BeginResume, ResumeEnd,
      sampleVars, loopVars, requestVars
  <2>2. /\ rollVersion' = rollVersion \/ rollVersion' = version
        /\ version' = version \/ (version' = version + 1 /\ rollVersion' = rollVersion)
    BY <1>11 DEF BeginPause, PauseEnd, Transferred, UpdateVersion, BeginResume, ResumeEnd, serverVars
  <2>3. /\ recorded \in Nat /\ rollVersion \in Nat /\ version \in Nat /\ version' \in Nat
        /\ version <= version'
    BY <2>2
  <2>4. \A r \in Rollouts : Ordered(Whole(r), start[r], version')
    BY <2>3, ReplyTypes, OrderedLater DEF VersionInv
  <2>5. QED
    BY <2>1, <2>2, <2>3, <2>4 DEF VersionInv, Whole
<1>12. ASSUME NEW s \in Servers, CancelServer(s) \/ ResumeServer(s) PROVE VersionInv'
  BY <1>12, OrderKept DEF CancelServer, ResumeServer, sampleVars, loopVars, requestVars
<1>13. ASSUME NEW w \in Workers, CancelWorker(w) \/ ResumeWorker(w) PROVE VersionInv'
  BY <1>13, OrderKept DEF CancelWorker, ResumeWorker, sampleVars, loopVars, requestVars
<1>14. CASE UNCHANGED vars
  BY <1>14 DEF vars, syncVars, sampleVars, serverVars, loopVars, requestVars, VersionInv, Whole
<1>15. QED
  BY <1>1, <1>2, <1>3, <1>4, <1>5, <1>6, <1>7, <1>8, <1>9, <1>10, <1>11, <1>12, <1>13,
    <1>14 DEF Next, Loop, Synchronize

LEMMA AlignedAt ==
    ASSUME Inv, NEW q \in Rollouts, text'[q] = text[q], mask'[q] = mask[q],
           logprobs'[q] = logprobs[q]
    PROVE  AlignedOf(q)'
  BY DEF Inv, AlignInv, Aligned, AlignedOf, PartialTypeOK, TextTypeOK

LEMMA FragmentAt ==
    ASSUME Inv, NEW q \in Rollouts, fragment'[q] = fragment[q] \/ fragment'[q] = <<>>
    PROVE  Written(q)'
  BY DEF Inv, AlignInv, Written

\* What is left of two sequences in a row depends on their lengths alone.
LEMMA CutJoined ==
    ASSUME NEW S, NEW s \in Seq(S), NEW t \in Seq(S), NEW n \in Nat, NEW m \in Nat,
           Len(s) = n, Len(t) = m
    PROVE  /\ Len(Cut(s \o t)) = IF n + m < ResponseLength THEN n + m ELSE ResponseLength
           /\ DOMAIN Cut(s \o t) = 1 .. Len(Cut(s \o t))
           /\ \A i \in 1 .. (IF n + m < ResponseLength THEN n + m ELSE ResponseLength) :
                 Cut(s \o t)[i] = IF i <= n THEN s[i] ELSE t[i - n]
<1>1. /\ s \o t \in Seq(S) /\ Len(s \o t) = n + m
      /\ \A i \in 1 .. n + m : (s \o t)[i] = IF i <= n THEN s[i] ELSE t[i - n]
  BY ConcatProperties
<1> DEFINE whole == s \o t
<1> HIDE DEF whole
<1>2. /\ whole \in Seq(S) /\ Len(whole) = n + m
      /\ \A i \in 1 .. n + m : whole[i] = IF i <= n THEN s[i] ELSE t[i - n]
  BY <1>1 DEF whole
<1>3. /\ Cut(whole) \in Seq(S)
      /\ Len(Cut(whole)) = IF n + m < ResponseLength THEN n + m ELSE ResponseLength
      /\ Len(Cut(whole)) <= n + m
      /\ \A i \in 1 .. Len(Cut(whole)) : Cut(whole)[i] = whole[i]
  <2>1. /\ Cut(whole) \in Seq(S) /\ Len(Cut(whole)) <= Len(whole)
        /\ Len(Cut(whole)) = IF Len(whole) < ResponseLength THEN Len(whole) ELSE ResponseLength
        /\ \A i \in 1 .. Len(Cut(whole)) : Cut(whole)[i] = whole[i]
    <3>1. whole \in Seq(S)
      BY <1>2
    <3>2. QED
      BY <3>1, CutProperties
  <2>2. QED
    BY <1>2, <2>1
<1>4. Len(Cut(whole)) \in Nat /\ DOMAIN Cut(whole) = 1 .. Len(Cut(whole))
  BY <1>3, LenProperties
<1>5. ASSUME NEW i \in 1 .. Len(Cut(whole))
      PROVE  Cut(whole)[i] = IF i <= n THEN s[i] ELSE t[i - n]
  <2>1. i \in 1 .. n + m
    BY <1>3, <1>4
  <2>2. QED
    BY <1>2, <1>3, <2>1
<1>6. QED
  BY <1>3, <1>4, <1>5 DEF whole

\* A reply adds as many entries to mask and log probabilities as to the response.
LEMMA ReplyAligned ==
    ASSUME Inv, NEW r \in Rollouts, TakeReply(r)
    PROVE  AlignedOf(r)'
<1> DEFINE n == Len(text[r])
           m == Len(fragment[r])
           left == IF n + m < ResponseLength THEN n + m ELSE ResponseLength
<1>1. /\ mask[r] \in Seq({0, 1}) /\ logprobs[r] \in Seq(0 .. MaxSyncs) /\ text[r] \in Seq(Tokens)
      /\ Len(mask[r]) = n /\ Len(logprobs[r]) = n /\ n \in Nat
      /\ fragment[r] \in Seq(Tokens) /\ m \in Nat /\ ResponseLength \in Nat
  BY Lengths, PartialAssumption DEF Inv, PartialTypeOK, TextTypeOK, AlignInv, Aligned
<1>2. /\ Ones(fragment[r]) \in Seq({0, 1}) /\ Len(Ones(fragment[r])) = m
      /\ LogprobsOf(r) \in Seq(0 .. MaxSyncs) /\ Len(LogprobsOf(r)) = m
  BY ReplyTypes
<1>3. \A i \in 1 .. n :
         (mask[r][i] = 1 <=> text[r][i].kind # "tool") /\ logprobs[r][i] = text[r][i].ver
  BY <1>1 DEF Inv, AlignInv, Aligned
<1>4. \A i \in 1 .. m :
         /\ Ones(fragment[r])[i] = 1 /\ fragment[r][i].kind # "tool"
         /\ LogprobsOf(r)[i] = fragment[r][i].ver
  BY ReplyTypes DEF Inv, AlignInv, Written
<1>5. /\ text'[r] = Cut(text[r] \o fragment[r]) /\ mask'[r] = Cut(mask[r] \o Ones(fragment[r]))
      /\ logprobs'[r] = Cut(logprobs[r] \o LogprobsOf(r))
  BY ReplyEffect DEF Inv, PartialTypeOK, TextTypeOK, Whole
<1> HIDE DEF n, m
<1>6. /\ Len(text'[r]) = left /\ DOMAIN text'[r] = 1 .. Len(text'[r])
      /\ \A i \in 1 .. left : text'[r][i] = IF i <= n THEN text[r][i] ELSE fragment[r][i - n]
  <2>1. Len(text[r]) = n /\ Len(fragment[r]) = m
    BY DEF n, m
  <2>2. QED
    <3>1. /\ Len(Cut(text[r] \o fragment[r])) = left
          /\ DOMAIN Cut(text[r] \o fragment[r]) = 1 .. Len(Cut(text[r] \o fragment[r]))
          /\ \A i \in 1 .. left :
                Cut(text[r] \o fragment[r])[i] = IF i <= n THEN text[r][i] ELSE fragment[r][i - n]
      <4>1. \A s, t \in Seq(Tokens) : Len(s) = n /\ Len(t) = m =>
               /\ Len(Cut(s \o t)) = left /\ DOMAIN Cut(s \o t) = 1 .. Len(Cut(s \o t))
               /\ \A i \in 1 .. left : Cut(s \o t)[i] = IF i <= n THEN s[i] ELSE t[i - n]
        <5>1. n \in Nat /\ m \in Nat
          BY <1>1
        <5>2. ASSUME NEW s \in Seq(Tokens), NEW t \in Seq(Tokens), Len(s) = n, Len(t) = m
              PROVE  /\ Len(Cut(s \o t)) = left /\ DOMAIN Cut(s \o t) = 1 .. Len(Cut(s \o t))
                     /\ \A i \in 1 .. left : Cut(s \o t)[i] = IF i <= n THEN s[i] ELSE t[i - n]
          <6>1. Len(Cut(s \o t)) = IF n + m < ResponseLength THEN n + m ELSE ResponseLength
            BY <5>1, <5>2, CutJoined
          <6>2. DOMAIN Cut(s \o t) = 1 .. Len(Cut(s \o t))
            BY <5>1, <5>2, CutJoined
          <6>3. \A i \in 1 .. (IF n + m < ResponseLength THEN n + m ELSE ResponseLength) :
                    Cut(s \o t)[i] = IF i <= n THEN s[i] ELSE t[i - n]
            BY <5>1, <5>2, CutJoined
          <6>4. QED
            BY <6>1, <6>2, <6>3
        <5>3. QED
          BY <5>2
      <4>2. QED
        BY <1>1, <2>1, <4>1
    <3>2. QED
      BY <1>5, <3>1
<1>7. /\ Len(mask'[r]) = left
      /\ \A i \in 1 .. left : mask'[r][i] = IF i <= n THEN mask[r][i] ELSE Ones(fragment[r])[i - n]
  <2>1. /\ Len(Cut(mask[r] \o Ones(fragment[r]))) = left
        /\ \A i \in 1 .. left : Cut(mask[r] \o Ones(fragment[r]))[i]
                                  = IF i <= n THEN mask[r][i] ELSE Ones(fragment[r])[i - n]
    <3> DEFINE Bits == {0, 1}
    <3>1. mask[r] \in Seq(Bits) /\ Ones(fragment[r]) \in Seq(Bits)
      BY <1>1, <1>2
    <3> HIDE DEF Bits
    <3>2. n \in Nat /\ m \in Nat
      BY <1>1
    <3>3. \A s, t \in Seq(Bits) : Len(s) = n /\ Len(t) = m =>
             /\ Len(Cut(s \o t)) = left
             /\ \A i \in 1 .. left : Cut(s \o t)[i] = IF i <= n THEN s[i] ELSE t[i - n]
      BY <3>2, CutJoined
    <3>4. QED
      BY <1>1, <1>2, <3>1, <3>3
  <2>2. QED
    BY <1>5, <2>1
<1>8. /\ Len(logprobs'[r]) = left
      /\ \A i \in 1 .. left :
            logprobs'[r][i] = IF i <= n THEN logprobs[r][i] ELSE LogprobsOf(r)[i - n]
  <2>1. /\ Len(Cut(logprobs[r] \o LogprobsOf(r))) = left
        /\ \A i \in 1 .. left : Cut(logprobs[r] \o LogprobsOf(r))[i]
                                  = IF i <= n THEN logprobs[r][i] ELSE LogprobsOf(r)[i - n]
    <3>1. n \in Nat /\ m \in Nat
      BY <1>1
    <3>2. \A s, t \in Seq(0 .. MaxSyncs) : Len(s) = n /\ Len(t) = m =>
             /\ Len(Cut(s \o t)) = left
             /\ \A i \in 1 .. left : Cut(s \o t)[i] = IF i <= n THEN s[i] ELSE t[i - n]
      BY <3>1, CutJoined
    <3>3. QED
      BY <1>1, <1>2, <3>2
  <2>2. QED
    BY <1>5, <2>1
<1>9. ASSUME NEW i \in 1 .. left
      PROVE  (mask'[r][i] = 1 <=> text'[r][i].kind # "tool") /\ logprobs'[r][i] = text'[r][i].ver
  <2>1. CASE i <= n
    <3>1. i \in 1 .. n
      BY <1>1, <2>1
    <3>2. QED
      BY <1>3, <1>6, <1>7, <1>8, <2>1, <3>1
  <2>2. CASE ~(i <= n)
    <3>1. i - n \in 1 .. m
      BY <1>1, <2>2
    <3>2. /\ text'[r][i] = fragment[r][i - n] /\ mask'[r][i] = Ones(fragment[r])[i - n]
          /\ logprobs'[r][i] = LogprobsOf(r)[i - n]
      BY <1>6, <1>7, <1>8, <2>2
    <3>3. QED
      BY <1>4, <3>1, <3>2
  <2>3. QED
    BY <2>1, <2>2
<1> HIDE DEF left
<1>10. QED
  BY <1>6, <1>7, <1>8, <1>9 DEF AlignedOf

\* A tool's answer is marked with 0.
LEMMA ToolAligned ==
    ASSUME Inv, NEW r \in Rollouts, ToolsReturn(r)
    PROVE  AlignedOf(r)'
<1>1. CASE UNCHANGED <<text, mask, logprobs>>
  BY <1>1, AlignedAt
<1>2. CASE /\ \E token \in Tokens :
                /\ token.kind = "tool" /\ token.ver = 0
                /\ text' = [text EXCEPT ![r] = Append(text[r], token)]
           /\ mask' = [mask EXCEPT ![r] = Append(mask[r], 0)]
           /\ logprobs' = [logprobs EXCEPT ![r] = Append(logprobs[r], 0)]
  <2>1. PICK token \in Tokens : /\ token.kind = "tool" /\ token.ver = 0
                                /\ text' = [text EXCEPT ![r] = Append(text[r], token)]
    BY <1>2
  <2>2. /\ text'[r] = Append(text[r], token) /\ mask'[r] = Append(mask[r], 0)
        /\ logprobs'[r] = Append(logprobs[r], 0)
    BY <1>2, <2>1 DEF Inv, PartialTypeOK, TextTypeOK
  <2>3. /\ mask[r] \in Seq({0, 1}) /\ logprobs[r] \in Seq(0 .. MaxSyncs) /\ text[r] \in Seq(Tokens)
        /\ Len(mask[r]) = Len(text[r]) /\ Len(logprobs[r]) = Len(text[r]) /\ Len(text[r]) \in Nat
    BY Lengths DEF Inv, PartialTypeOK, TextTypeOK, AlignInv, Aligned
  <2>4. \A i \in 1 .. Len(text[r]) :
           (mask[r][i] = 1 <=> text[r][i].kind # "tool") /\ logprobs[r][i] = text[r][i].ver
    BY <2>3 DEF Inv, AlignInv, Aligned
  <2>5. /\ Len(text'[r]) = Len(text[r]) + 1 /\ Len(mask'[r]) = Len(text[r]) + 1
        /\ Len(logprobs'[r]) = Len(text[r]) + 1 /\ DOMAIN text'[r] = 1 .. Len(text[r]) + 1
    BY <2>2, <2>3
  <2>6. \A i \in 1 .. Len(text[r]) :
           text'[r][i] = text[r][i] /\ mask'[r][i] = mask[r][i] /\ logprobs'[r][i] = logprobs[r][i]
    BY <2>2, <2>3
  <2>7. /\ text'[r][Len(text[r]) + 1] = token /\ mask'[r][Len(text[r]) + 1] = 0
        /\ logprobs'[r][Len(text[r]) + 1] = 0
    BY <2>2, <2>3
  <2>8. \A i \in 1 .. Len(text[r]) + 1 :
           (mask'[r][i] = 1 <=> text'[r][i].kind # "tool") /\ logprobs'[r][i] = text'[r][i].ver
    <3> SUFFICES ASSUME NEW i \in 1 .. Len(text[r]) + 1
                 PROVE  /\ mask'[r][i] = 1 <=> text'[r][i].kind # "tool"
                        /\ logprobs'[r][i] = text'[r][i].ver
      OBVIOUS
    <3>1. CASE i = Len(text[r]) + 1
      BY <2>1, <2>7, <3>1
    <3>2. CASE i # Len(text[r]) + 1
      <4>1. i \in 1 .. Len(text[r])
        BY <2>3, <3>2
      <4>2. QED
        BY <2>4, <2>6, <4>1
    <3>3. QED
      BY <3>1, <3>2
  <2>9. QED
    BY <2>5, <2>8 DEF AlignedOf
<1>3. QED
  BY <1>1, <1>2, ToolEffect

\* Mask and log probabilities stay aligned with the responses.
LEMMA AlignStep ==
    ASSUME Inv, [Next]_vars PROVE AlignInv'
<1> USE PartialAssumption DEF Inv
<1> SUFFICES \A q \in Rollouts : AlignedOf(q)' /\ Written(q)'
  BY DEF AlignInv, AlignedOf, Written, Aligned
<1>1. ASSUME NEW w \in Workers, Submit(w) PROVE \A q \in Rollouts : AlignedOf(q)' /\ Written(q)'
  <2>1. UNCHANGED <<text, mask, logprobs, fragment>>
    BY <1>1 DEF Submit, loopVars, requestVars
  <2>2. QED
    BY <2>1, AlignedAt, FragmentAt
<1>2. ASSUME NEW r \in Rollouts, Start(r) PROVE \A q \in Rollouts : AlignedOf(q)' /\ Written(q)'
  <2>1. UNCHANGED <<text, mask, logprobs, fragment>>
    BY <1>2 DEF Start, requestVars
  <2>2. QED
    BY <2>1, AlignedAt, FragmentAt
<1>3. ASSUME NEW r \in Rollouts, PromptReady(r)
      PROVE  \A q \in Rollouts : AlignedOf(q)' /\ Written(q)'
  <2>1. UNCHANGED <<text, mask, logprobs, fragment>>
    BY <1>3 DEF PromptReady, requestVars
  <2>2. QED
    BY <2>1, AlignedAt, FragmentAt
<1>4. ASSUME NEW r \in Rollouts, TakeReply(r)
      PROVE  \A q \in Rollouts : AlignedOf(q)' /\ Written(q)'
  <2>1. ASSUME NEW q \in Rollouts \ {r} PROVE AlignedOf(q)'
    <3>1. text'[q] = text[q] /\ mask'[q] = mask[q] /\ logprobs'[q] = logprobs[q]
      BY <1>4, ReplyEffect DEF PartialTypeOK, TextTypeOK
    <3>2. QED
      BY <3>1, AlignedAt
  <2>2. \A q \in Rollouts : fragment'[q] = fragment[q] \/ fragment'[q] = <<>>
    BY <1>4 DEF TakeReply, PartialTypeOK, TextTypeOK
  <2>3. QED
    BY <1>4, <2>1, <2>2, ReplyAligned, FragmentAt
<1>5. ASSUME NEW r \in Rollouts, ToolsReturn(r)
      PROVE  \A q \in Rollouts : AlignedOf(q)' /\ Written(q)'
  <2>1. ASSUME NEW q \in Rollouts \ {r} PROVE AlignedOf(q)'
    <3>1. text'[q] = text[q] /\ mask'[q] = mask[q] /\ logprobs'[q] = logprobs[q]
      BY <1>5 DEF ToolsReturn, PartialTypeOK, TextTypeOK
    <3>2. QED
      BY <3>1, AlignedAt
  <2>2. fragment' = fragment
    BY <1>5 DEF ToolsReturn, requestVars
  <2>3. QED
    BY <1>5, <2>1, <2>2, ToolAligned, FragmentAt
<1>6. ASSUME NEW r \in Rollouts, Score(r) PROVE \A q \in Rollouts : AlignedOf(q)' /\ Written(q)'
  <2>1. UNCHANGED <<text, mask, logprobs, fragment>>
    BY <1>6 DEF Score, requestVars
  <2>2. QED
    BY <2>1, AlignedAt, FragmentAt
<1>7. ASSUME NEW r \in Rollouts, Token(r) PROVE \A q \in Rollouts : AlignedOf(q)' /\ Written(q)'
  <2>1. UNCHANGED <<text, mask, logprobs>>
    BY <1>7 DEF Token, loopVars
  <2>2. PICK k \in Kinds :
              fragment' = [fragment EXCEPT ![r] = Append(fragment[r], [kind |-> k, ver |-> version])]
    BY <1>7 DEF Token
  <2>3. ASSUME NEW q \in Rollouts \ {r} PROVE Written(q)'
    BY <2>2, FragmentAt
  <2>4. /\ fragment'[r] = Append(fragment[r], [kind |-> k, ver |-> version])
        /\ fragment[r] \in Seq(Tokens) /\ k # "tool"
    BY <2>2, Lengths DEF PartialTypeOK, TextTypeOK, WrittenKinds
  <2>5. Written(r)'
    BY <2>4 DEF Written, AlignInv
  <2>6. QED
    BY <2>1, <2>3, <2>5, AlignedAt
<1>8. ASSUME NEW r \in Rollouts, Return(r)
      PROVE  \A q \in Rollouts : AlignedOf(q)' /\ Written(q)'
  <2>1. UNCHANGED <<text, mask, logprobs, fragment>>
    BY <1>8 DEF Return, loopVars
  <2>2. QED
    BY <2>1, AlignedAt, FragmentAt
<1>9. ASSUME NEW r \in Rollouts, NEW s \in Servers, Arrive(r, s)
      PROVE  \A q \in Rollouts : AlignedOf(q)' /\ Written(q)'
  <2>1. UNCHANGED <<text, mask, logprobs, fragment>>
    BY <1>9 DEF Arrive, loopVars
  <2>2. QED
    BY <2>1, AlignedAt, FragmentAt
<1>10. CASE Gather
  <2>1. UNCHANGED <<text, mask, logprobs, fragment>>
    BY <1>10 DEF Gather, loopVars, requestVars
  <2>2. QED
    BY <2>1, AlignedAt, FragmentAt
<1>11. CASE BeginPause \/ PauseEnd \/ Transferred \/ UpdateVersion \/ BeginResume \/ ResumeEnd
  <2>1. UNCHANGED <<text, mask, logprobs, fragment>>
    BY <1>11 DEF BeginPause, PauseEnd, Transferred, UpdateVersion, BeginResume, ResumeEnd,
      loopVars, requestVars
  <2>2. QED
    BY <2>1, AlignedAt, FragmentAt
<1>12. ASSUME NEW s \in Servers, CancelServer(s) \/ ResumeServer(s)
      PROVE  \A q \in Rollouts : AlignedOf(q)' /\ Written(q)'
  <2>1. UNCHANGED <<text, mask, logprobs, fragment>>
    BY <1>12 DEF CancelServer, ResumeServer, loopVars, requestVars
  <2>2. QED
    BY <2>1, AlignedAt, FragmentAt
<1>13. ASSUME NEW w \in Workers, CancelWorker(w) \/ ResumeWorker(w)
      PROVE  \A q \in Rollouts : AlignedOf(q)' /\ Written(q)'
  <2>1. UNCHANGED <<text, mask, logprobs, fragment>>
    BY <1>13 DEF CancelWorker, ResumeWorker, loopVars, requestVars
  <2>2. QED
    BY <2>1, AlignedAt, FragmentAt
<1>14. CASE UNCHANGED vars
  BY <1>14 DEF vars, syncVars, sampleVars, serverVars, loopVars, requestVars, AlignInv,
    AlignedOf, Aligned, Written
<1>15. QED
  BY <1>1, <1>2, <1>3, <1>4, <1>5, <1>6, <1>7, <1>8, <1>9, <1>10, <1>11, <1>12, <1>13,
    <1>14 DEF Next, Loop, Synchronize

\* The types of what rollouter, workers and servers keep.
LEMMA CallTypeStep ==
    ASSUME Inv, [Next]_vars PROVE CallTypeOK'
<1> USE PartialAssumption DEF Inv, PartialTypeOK, CallTypeOK, PauseInv
<1>1. ASSUME NEW w \in Workers, Submit(w) PROVE CallTypeOK'
  BY <1>1 DEF Submit, syncVars, serverVars, loopVars, requestVars
<1>2. ASSUME NEW r \in Rollouts, Start(r) PROVE CallTypeOK'
  BY <1>2 DEF Start, syncVars, sampleVars, serverVars
<1>3. ASSUME NEW r \in Rollouts, PromptReady(r) PROVE CallTypeOK'
  BY <1>3 DEF PromptReady, syncVars, sampleVars, serverVars
<1>4. ASSUME NEW r \in Rollouts, TakeReply(r) PROVE CallTypeOK'
  BY <1>4 DEF TakeReply, syncVars, sampleVars, serverVars
<1>5. ASSUME NEW r \in Rollouts, ToolsReturn(r) PROVE CallTypeOK'
  BY <1>5 DEF ToolsReturn, syncVars, sampleVars, serverVars
<1>6. ASSUME NEW r \in Rollouts, Score(r) PROVE CallTypeOK'
  BY <1>6 DEF Score, At, syncVars, sampleVars, serverVars, requestVars
<1>7. ASSUME NEW r \in Rollouts, Token(r) PROVE CallTypeOK'
  BY <1>7 DEF Token, syncVars, sampleVars, serverVars, loopVars
<1>8. ASSUME NEW r \in Rollouts, Return(r) PROVE CallTypeOK'
  BY <1>8 DEF Return, At, syncVars, sampleVars, serverVars, loopVars
<1>9. ASSUME NEW r \in Rollouts, NEW s \in Servers, Arrive(r, s) PROVE CallTypeOK'
  BY <1>9 DEF Arrive, At, syncVars, sampleVars, serverVars, loopVars
<1>10. CASE Gather
  BY <1>10 DEF Gather, syncVars, serverVars, loopVars, requestVars
<1>11. CASE BeginPause \/ PauseEnd \/ Transferred \/ UpdateVersion \/ BeginResume \/ ResumeEnd
  BY <1>11 DEF BeginPause, PauseEnd, Transferred, UpdateVersion, BeginResume, ResumeEnd,
    sampleVars, serverVars, loopVars, requestVars
<1>12. ASSUME NEW s \in Servers, CancelServer(s) \/ ResumeServer(s) PROVE CallTypeOK'
  BY <1>12 DEF CancelServer, ResumeServer, sampleVars, loopVars, requestVars
<1>13. ASSUME NEW w \in Workers, CancelWorker(w) \/ ResumeWorker(w) PROVE CallTypeOK'
  BY <1>13 DEF CancelWorker, ResumeWorker, sampleVars, loopVars, requestVars
<1>14. CASE UNCHANGED vars
  BY <1>14 DEF vars, syncVars, sampleVars, serverVars, loopVars, requestVars
<1>15. QED
  BY <1>1, <1>2, <1>3, <1>4, <1>5, <1>6, <1>7, <1>8, <1>9, <1>10, <1>11, <1>12, <1>13,
    <1>14 DEF Next, Loop, Synchronize

LEMMA LoopHeadTypes ==
    ASSUME Inv, NEW r \in Rollouts, NEW st \in {"pending", "generating", "tools", "terminated"},
           LoopHead(r, st)
    PROVE  /\ state' \in [Rollouts -> {"pending", "generating", "tools", "terminated"}]
           /\ pc' \in [Rollouts -> {"idle", "start", "prompt", "calling", "generating", "reply",
                                    "tools", "scoring", "ended"}]
           /\ output' \in [Rollouts -> {"none", "cancelled", "complete"}]
  BY LoopHeadEffect DEF Inv, PartialTypeOK, LoopTypeOK

\* The types of what an agent loop and its request keep.
LEMMA LoopTypeStep ==
    ASSUME Inv, [Next]_vars PROVE LoopTypeOK'
<1> USE PartialAssumption DEF Inv, PartialTypeOK, LoopTypeOK, Of
<1>1. ASSUME NEW w \in Workers, Submit(w) PROVE LoopTypeOK'
  BY <1>1 DEF Submit, syncVars, serverVars, loopVars, requestVars
<1>2. ASSUME NEW r \in Rollouts, Start(r) PROVE LoopTypeOK'
  <2>1. UNCHANGED <<scores, server, cancelled, finished>>
    BY <1>2 DEF Start, requestVars
  <2>2. start' \in [Rollouts -> 0 .. MaxSyncs]
    BY <1>2 DEF Start, StartVersion, CallTypeOK
  <2>3. CASE AlreadyComplete(r)
    BY <1>2, <2>1, <2>3 DEF Start, At
  <2>4. CASE ~AlreadyComplete(r) /\ agent = "tool"
    <3>1. LoopHead(r, state[r]) /\ state[r] \in {"pending", "generating", "tools", "terminated"}
      BY <1>2, <2>4 DEF Start
    <3>2. QED
      BY <2>1, <2>2, <3>1, LoopHeadTypes
  <2>5. CASE ~AlreadyComplete(r) /\ agent # "tool"
    BY <1>2, <2>1, <2>2, <2>5 DEF Start, At
  <2>6. QED
    BY <2>3, <2>4, <2>5
<1>3. ASSUME NEW r \in Rollouts, PromptReady(r) PROVE LoopTypeOK'
  <2>1. UNCHANGED <<start, scores, server, cancelled, finished>> /\ LoopHead(r, "generating")
    BY <1>3 DEF PromptReady, requestVars
  <2>2. QED
    BY <2>1, LoopHeadTypes
<1>4. ASSUME NEW r \in Rollouts, TakeReply(r) PROVE LoopTypeOK'
  <2>1. UNCHANGED <<start, scores, server, finished>> /\ cancelled' = [cancelled EXCEPT ![r] = FALSE]
    BY <1>4 DEF TakeReply
  <2>2. PICK next \in {"generating", "tools", "terminated"} :
              \/ /\ agent = "single" /\ next = "generating" /\ state' = state
                 /\ pc' = [pc EXCEPT ![r] = "ended"]
                 /\ output' = [output EXCEPT ![r] = "cancelled"]
              \/ LoopHead(r, next)
    BY <1>4, ReplyEffect DEF Inv
  <2>3. CASE LoopHead(r, next)
    BY <2>1, <2>3, LoopHeadTypes
  <2>4. CASE /\ state' = state /\ pc' = [pc EXCEPT ![r] = "ended"]
             /\ output' = [output EXCEPT ![r] = "cancelled"]
    BY <2>1, <2>4
  <2>5. QED
    BY <2>2, <2>3, <2>4
<1>5. ASSUME NEW r \in Rollouts, ToolsReturn(r) PROVE LoopTypeOK'
  <2>1. UNCHANGED <<start, scores, server, cancelled, finished>>
    BY <1>5 DEF ToolsReturn, requestVars
  <2>2. LoopHead(r, "generating") \/ LoopHead(r, "terminated")
    BY <1>5 DEF ToolsReturn
  <2>3. QED
    BY <2>1, <2>2, LoopHeadTypes
<1>6. ASSUME NEW r \in Rollouts, Score(r) PROVE LoopTypeOK'
  BY <1>6 DEF Score, At, syncVars, sampleVars, serverVars, requestVars
<1>7. ASSUME NEW r \in Rollouts, Token(r) PROVE LoopTypeOK'
  BY <1>7 DEF Token, syncVars, sampleVars, serverVars, loopVars
<1>8. ASSUME NEW r \in Rollouts, Return(r) PROVE LoopTypeOK'
  BY <1>8 DEF Return, At, syncVars, sampleVars, serverVars, loopVars, Replied
<1>9. ASSUME NEW r \in Rollouts, NEW s \in Servers, Arrive(r, s) PROVE LoopTypeOK'
  BY <1>9 DEF Arrive, At, syncVars, sampleVars, serverVars, loopVars
<1>10. CASE Gather
  BY <1>10 DEF Gather, syncVars, serverVars, loopVars, requestVars
<1>11. CASE BeginPause \/ PauseEnd \/ Transferred \/ UpdateVersion \/ BeginResume \/ ResumeEnd
  BY <1>11 DEF BeginPause, PauseEnd, Transferred, UpdateVersion, BeginResume, ResumeEnd,
    sampleVars, serverVars, loopVars, requestVars
<1>12. ASSUME NEW s \in Servers, CancelServer(s) \/ ResumeServer(s) PROVE LoopTypeOK'
  BY <1>12 DEF CancelServer, ResumeServer, sampleVars, loopVars, requestVars
<1>13. ASSUME NEW w \in Workers, CancelWorker(w) \/ ResumeWorker(w) PROVE LoopTypeOK'
  BY <1>13 DEF CancelWorker, ResumeWorker, sampleVars, loopVars, requestVars
<1>14. CASE UNCHANGED vars
  BY <1>14 DEF vars, syncVars, sampleVars, serverVars, loopVars, requestVars
<1>15. QED
  BY <1>1, <1>2, <1>3, <1>4, <1>5, <1>6, <1>7, <1>8, <1>9, <1>10, <1>11, <1>12, <1>13,
    <1>14 DEF Next, Loop, Synchronize

\* The types of the responses, and that the context bounds them.
LEMMA TextTypeStep ==
    ASSUME Inv, [Next]_vars PROVE TextTypeOK'
<1> USE PartialAssumption DEF PartialTypeOK, TextTypeOK
<1>0. PartialTypeOK
  BY DEF Inv
<1> USE <1>0
<1>1. ASSUME NEW w \in Workers, Submit(w) PROVE TextTypeOK'
  BY <1>1 DEF Submit, loopVars, requestVars
<1>2. ASSUME NEW r \in Rollouts, Start(r) PROVE TextTypeOK'
  BY <1>2 DEF Start, requestVars
<1>3. ASSUME NEW r \in Rollouts, PromptReady(r) PROVE TextTypeOK'
  BY <1>3 DEF PromptReady, requestVars
<1>4. ASSUME NEW r \in Rollouts, TakeReply(r) PROVE TextTypeOK'
  <2>1. /\ text' = [text EXCEPT ![r] = Cut(Whole(r))] /\ fragment' = [fragment EXCEPT ![r] = <<>>]
        /\ mask' = [mask EXCEPT ![r] = Cut(mask[r] \o Ones(fragment[r]))]
        /\ logprobs' = [logprobs EXCEPT ![r] = Cut(logprobs[r] \o LogprobsOf(r))]
    BY <1>4, ReplyEffect DEF Inv
  <2>2. Cut(Whole(r)) \in Seq(Tokens) /\ Len(Cut(Whole(r))) <= ResponseLength
    BY ReplyTypes, CutProperties
  <2>3. Cut(mask[r] \o Ones(fragment[r])) \in Seq({0, 1})
    <3> DEFINE Bits == {0, 1}
    <3>1. mask[r] \in Seq(Bits) /\ Ones(fragment[r]) \in Seq(Bits)
      BY ReplyTypes
    <3> HIDE DEF Bits
    <3>2. QED
      BY <3>1, ConcatProperties, CutProperties DEF Bits
  <2>4. Cut(logprobs[r] \o LogprobsOf(r)) \in Seq(0 .. MaxSyncs)
    <3>1. logprobs[r] \in Seq(0 .. MaxSyncs) /\ LogprobsOf(r) \in Seq(0 .. MaxSyncs)
      BY ReplyTypes
    <3>2. QED
      BY <3>1, ConcatProperties, CutProperties
  <2>5. /\ text' \in [Rollouts -> Seq(Tokens)] /\ fragment' \in [Rollouts -> Seq(Tokens)]
        /\ mask' \in [Rollouts -> Seq({0, 1})] /\ logprobs' \in [Rollouts -> Seq(0 .. MaxSyncs)]
    BY <2>1, <2>2, <2>3, <2>4
  <2>6. ASSUME NEW q \in Rollouts PROVE Len(text'[q]) + Len(fragment'[q]) <= MaxModelLen
    <3>1. CASE q = r
      <4>1. Len(text'[q]) <= ResponseLength /\ Len(text'[q]) \in Nat /\ Len(fragment'[q]) = 0
        BY <2>1, <2>2, <2>5, <3>1, LenProperties
      <4>2. QED
        BY <4>1
    <3>2. CASE q # r
      BY <2>1, <3>2
    <3>3. QED
      BY <3>1, <3>2
  <2>7. QED
    BY <2>5, <2>6
<1>5. ASSUME NEW r \in Rollouts, ToolsReturn(r) PROVE TextTypeOK'
  <2>1. UNCHANGED fragment /\ fragment[r] = <<>>
    BY <1>5 DEF ToolsReturn, requestVars, Inv, ControlInv
  <2>2. CASE UNCHANGED <<text, mask, logprobs>>
    BY <2>1, <2>2
  <2>3. CASE /\ Len(text[r]) + 1 < ResponseLength
             /\ \E token \in Tokens : text' = [text EXCEPT ![r] = Append(text[r], token)]
             /\ mask' = [mask EXCEPT ![r] = Append(mask[r], 0)]
             /\ logprobs' = [logprobs EXCEPT ![r] = Append(logprobs[r], 0)]
    <3>1. PICK token \in Tokens : text' = [text EXCEPT ![r] = Append(text[r], token)]
      BY <2>3
    <3>2. /\ text' \in [Rollouts -> Seq(Tokens)] /\ mask' \in [Rollouts -> Seq({0, 1})]
          /\ logprobs' \in [Rollouts -> Seq(0 .. MaxSyncs)]
      BY <2>3, <3>1
    <3>3. Len(text'[r]) = Len(text[r]) + 1 /\ Len(text[r]) \in Nat /\ Len(fragment[r]) = 0
      BY <2>1, <3>1, Lengths
    <3>4. Len(text'[r]) + Len(fragment'[r]) <= MaxModelLen
      BY <2>1, <2>3, <3>3
    <3>5. ASSUME NEW q \in Rollouts PROVE Len(text'[q]) + Len(fragment'[q]) <= MaxModelLen
      BY <2>1, <3>1, <3>4
    <3>6. QED
      BY <2>1, <3>2, <3>5
  <2>4. QED
    BY <1>5, <2>2, <2>3, ToolEffect DEF Inv
<1>6. ASSUME NEW r \in Rollouts, Score(r) PROVE TextTypeOK'
  BY <1>6 DEF Score, requestVars
<1>7. ASSUME NEW r \in Rollouts, Token(r) PROVE TextTypeOK'
  <2>1. UNCHANGED <<text, mask, logprobs>> /\ pc[r] = "generating" /\ ~finished[r]
    BY <1>7 DEF Token, loopVars
  <2>2. PICK k \in Kinds :
              fragment' = [fragment EXCEPT ![r] = Append(@, [kind |-> k, ver |-> version])]
    BY <1>7 DEF Token
  <2>3. [kind |-> k, ver |-> version] \in Tokens
    BY DEF Tokens, Inv, CallTypeOK
  <2>4. fragment' \in [Rollouts -> Seq(Tokens)] /\ Len(fragment'[r]) = Len(fragment[r]) + 1
    BY <2>2, <2>3
  <2>5. Len(text[r]) + Len(fragment[r]) < MaxModelLen
    BY <2>1 DEF Inv, RoomInv, Room
  <2>6. Len(text[r]) + Len(fragment'[r]) <= MaxModelLen
    BY <2>4, <2>5, Lengths
  <2>7. ASSUME NEW q \in Rollouts PROVE Len(text'[q]) + Len(fragment'[q]) <= MaxModelLen
    BY <2>1, <2>2, <2>6
  <2>8. QED
    BY <2>1, <2>4, <2>7
<1>8. ASSUME NEW r \in Rollouts, Return(r) PROVE TextTypeOK'
  BY <1>8 DEF Return, loopVars
<1>9. ASSUME NEW r \in Rollouts, NEW s \in Servers, Arrive(r, s) PROVE TextTypeOK'
  BY <1>9 DEF Arrive, loopVars
<1>10. CASE Gather
  BY <1>10 DEF Gather, loopVars, requestVars
<1>11. CASE BeginPause \/ PauseEnd \/ Transferred \/ UpdateVersion \/ BeginResume \/ ResumeEnd
  BY <1>11 DEF BeginPause, PauseEnd, Transferred, UpdateVersion, BeginResume, ResumeEnd,
    loopVars, requestVars
<1>12. ASSUME NEW s \in Servers, CancelServer(s) \/ ResumeServer(s) PROVE TextTypeOK'
  BY <1>12 DEF CancelServer, ResumeServer, loopVars, requestVars
<1>13. ASSUME NEW w \in Workers, CancelWorker(w) \/ ResumeWorker(w) PROVE TextTypeOK'
  BY <1>13 DEF CancelWorker, ResumeWorker, loopVars, requestVars
<1>14. CASE UNCHANGED vars
  BY <1>14 DEF vars, syncVars, sampleVars, serverVars, loopVars, requestVars
<1>15. QED
  BY <1>1, <1>2, <1>3, <1>4, <1>5, <1>6, <1>7, <1>8, <1>9, <1>10, <1>11, <1>12, <1>13,
    <1>14 DEF Next, Loop, Synchronize

\* The invariant is inductive.
LEMMA InvStep == Inv /\ [Next]_vars => Inv'
<1> SUFFICES ASSUME Inv, [Next]_vars PROVE Inv'
  OBVIOUS
<1>1. PartialTypeOK'
  BY CallTypeStep, LoopTypeStep, TextTypeStep DEF PartialTypeOK
<1>2. QED
  BY <1>1, ControlStep, RoomStep, AlignStep, VersionStep, PauseStep DEF Inv

LEMMA InvHolds == Spec => []Inv
  BY InitInv, InvStep, PTL DEF Spec

-----------------------------------------------------------------------------
(* The theorems *)

\* Type correctness.
THEOREM TypeCorrect == Spec => []PartialTypeOK
<1>1. Inv => PartialTypeOK
  BY DEF Inv
<1>2. QED
  BY <1>1, InvHolds, PTL

\* Mask and log probabilities stay aligned with the responses.
THEOREM StaysAligned == Spec => []Aligned
<1>1. Inv => Aligned
  BY DEF Inv, AlignInv
<1>2. QED
  BY <1>1, InvHolds, PTL

\* No server generates while the weights are transferred.
THEOREM TransferIsQuiet == Spec => []QuietTransfer
<1>1. Inv => QuietTransfer
  BY DEF Inv, PauseInv, QuietTransfer
<1>2. QED
  BY <1>1, InvHolds, PTL

\* The reward of a rollout is computed once, however often it is submitted.
THEOREM RewardedOnce == Spec => []ScoredOnce
<1>1. Inv => ScoredOnce
  BY DEF Inv, ControlInv, ScoredOnce
<1>2. QED
  BY <1>1, InvHolds, PTL

\* A response carries its versions in order, from param_version_start on.
THEOREM VersionsStayOrdered == Spec => []VersionsOrdered
<1>1. ASSUME Inv PROVE VersionsOrdered
  <2> SUFFICES ASSUME NEW r \in Rollouts, NEW i \in DOMAIN text[r], text[r][i].kind # "tool"
               PROVE  /\ start[r] <= text[r][i].ver
                      /\ \A j \in 1 .. i : text[r][j].ver <= text[r][i].ver
    BY DEF VersionsOrdered
  <2>1. /\ text[r] \in Seq(Tokens) /\ Len(text[r]) \in Nat /\ Len(fragment[r]) \in Nat
        /\ i \in 1 .. Len(text[r])
    BY <1>1, Lengths, LenProperties
  <2>2. /\ Len(Whole(r)) = Len(text[r]) + Len(fragment[r])
        /\ \A j \in 1 .. Len(Whole(r)) :
              Whole(r)[j] = IF j <= Len(text[r]) THEN text[r][j]
                            ELSE fragment[r][j - Len(text[r])]
    BY <1>1, ReplyTypes
  <2>3. \A j \in 1 .. i : j \in 1 .. Len(Whole(r)) /\ Whole(r)[j] = text[r][j]
    <3> SUFFICES ASSUME NEW j \in 1 .. i
                 PROVE  j \in 1 .. Len(Whole(r)) /\ Whole(r)[j] = text[r][j]
      OBVIOUS
    <3>1. \A n, m \in Nat : \A k \in 1 .. n : \A l \in 1 .. k : l \in 1 .. n + m /\ l <= n
      OBVIOUS
    <3>2. j \in 1 .. Len(text[r]) + Len(fragment[r]) /\ j <= Len(text[r])
      BY <2>1, <3>1
    <3>3. j \in 1 .. Len(Whole(r))
      BY <2>2, <3>2, Zenon
    <3>4. QED
      BY <2>2, <3>2, <3>3
  <2>4. i \in 1 .. i /\ Ordered(Whole(r), start[r], version)
    BY <1>1, <2>1 DEF Inv, VersionInv
  <2>5. QED
    BY <2>3, <2>4 DEF Ordered
<1>2. QED
  BY <1>1, InvHolds, PTL

-----------------------------------------------------------------------------
(* The refinement *)

Response == [r \in Rollouts |-> Cut(text[r])]
Completed == {r \in Rollouts : output[r] = "complete"}
Released == sample = "released"

LEMMA ResponseIsText == Inv => Response = text
<1> SUFFICES ASSUME Inv PROVE Response = text
  OBVIOUS
<1>1. ASSUME NEW r \in Rollouts PROVE Cut(text[r]) = text[r]
  <2>1. text[r] \in Seq(Tokens) /\ Len(text[r]) <= ResponseLength
    BY Lengths DEF Inv, RoomInv, Room
  <2>2. QED
    BY <2>1, CutProperties
<1>2. QED
  BY <1>1 DEF Response, Inv, PartialTypeOK, TextTypeOK

\* A response that is not complete may be extended.
LEMMA GrowStep ==
    ASSUME Inv, Inv', NEW r \in Rollouts, output[r] # "complete",
           \A q \in Rollouts \ {r} : text'[q] = text[q],
           Len(text[r]) <= Len(text'[r]),
           \A i \in 1 .. Len(text[r]) : text'[r][i] = text[r][i],
           Completed' = Completed, Released' = Released
    PROVE  Promised!Grow(r)
<1>1. Response = text /\ Response' = text'
  <2>1. Inv' => (Response = text)'
    BY ResponseIsText, PTL
  <2>2. QED
    BY <2>1, ResponseIsText
<1>2. /\ text' \in [Rollouts -> Seq(Tokens)] /\ text[r] \in Seq(Tokens)
      /\ Len(text'[r]) <= ResponseLength
  BY DEF Inv, PartialTypeOK, TextTypeOK, RoomInv, Room
<1>3. DOMAIN text[r] = 1 .. Len(text[r])
  BY <1>2
<1>4. r \notin Completed
  BY DEF Completed
<1>5. /\ r \notin Completed
      /\ Response' \in [Rollouts -> Seq(Tokens)]
      /\ Len(Response[r]) <= Len(Response'[r]) /\ Len(Response'[r]) <= ResponseLength
      /\ \A i \in DOMAIN Response[r] : Response'[r][i] = Response[r][i]
      /\ \A q \in Rollouts \ {r} : Response'[q] = Response[q]
      /\ UNCHANGED <<Completed, Released>>
  BY <1>1, <1>2, <1>3, <1>4
<1>6. QED
  BY <1>5 DEF Promised!Grow, Response, Completed, Released

\* The head of the loop completes nothing.
LEMMA HeadCompletesNothing ==
    ASSUME Inv, NEW r \in Rollouts, output[r] # "complete",
           NEW st \in {"pending", "generating", "tools", "terminated"}, LoopHead(r, st)
    PROVE  Completed' = Completed
  BY LoopHeadEffect DEF Completed, Inv, PartialTypeOK, LoopTypeOK

\* A reply extends the response, up to its limit.
LEMMA CutGrows ==
    ASSUME Inv, NEW r \in Rollouts
    PROVE  /\ Len(text[r]) <= Len(Cut(Whole(r)))
           /\ \A i \in 1 .. Len(text[r]) : Cut(Whole(r))[i] = text[r][i]
<1> DEFINE n == Len(text[r])
           m == Len(fragment[r])
<1>1. /\ n \in Nat /\ m \in Nat /\ ResponseLength \in Nat /\ n <= ResponseLength
      /\ text[r] \in Seq(Tokens) /\ fragment[r] \in Seq(Tokens)
  BY Lengths, PartialAssumption DEF Inv, RoomInv, Room
<1>2. Len(text[r]) = n /\ Len(fragment[r]) = m
  OBVIOUS
<1> HIDE DEF n, m
<1>3. /\ Len(Cut(Whole(r))) = IF n + m < ResponseLength THEN n + m ELSE ResponseLength
      /\ \A i \in 1 .. (IF n + m < ResponseLength THEN n + m ELSE ResponseLength) :
            Cut(Whole(r))[i] = IF i <= n THEN text[r][i] ELSE fragment[r][i - n]
  BY <1>1, <1>2, CutJoined DEF Whole
<1>4. \A i \in 1 .. n : /\ i <= n
                        /\ i \in 1 .. (IF n + m < ResponseLength THEN n + m ELSE ResponseLength)
  BY <1>1
<1>5. \A i \in 1 .. n : Cut(Whole(r))[i] = text[r][i]
  BY <1>3, <1>4
<1>6. QED
  BY <1>1, <1>2, <1>3, <1>5

\* Every step extends a response, completes one, releases the sample or shows nothing.
LEMMA PromisedStep ==
    ASSUME Inv, Inv', [Next]_vars
    PROVE  Promised!Next \/ UNCHANGED <<Response, Completed, Released>>
<1>1. ASSUME NEW w \in Workers, Submit(w)
      PROVE  Promised!Next \/ UNCHANGED <<Response, Completed, Released>>
  BY <1>1 DEF Submit, loopVars, Response, Completed, Released
<1>2. ASSUME NEW r \in Rollouts, Start(r)
      PROVE  Promised!Next \/ UNCHANGED <<Response, Completed, Released>>
  <2>1. UNCHANGED <<text, sample>>
    BY <1>2 DEF Start, sampleVars
  <2>2. Completed' = Completed
    <3>1. CASE AlreadyComplete(r) \/ agent # "tool"
      BY <1>2, <3>1 DEF Start, Completed
    <3>2. CASE ~AlreadyComplete(r) /\ agent = "tool"
      <4>1. LoopHead(r, state[r]) /\ state[r] \in {"pending", "generating", "tools", "terminated"}
        BY <1>2, <3>2 DEF Start, Inv, PartialTypeOK, LoopTypeOK
      <4>2. QED
        BY <3>2, <4>1, HeadCompletesNothing DEF AlreadyComplete
    <3>3. QED
      BY <3>1, <3>2
  <2>3. QED
    BY <2>1, <2>2 DEF Response, Released
<1>3. ASSUME NEW r \in Rollouts, PromptReady(r)
      PROVE  Promised!Next \/ UNCHANGED <<Response, Completed, Released>>
  <2>1. UNCHANGED <<text, sample>> /\ LoopHead(r, "generating") /\ output[r] # "complete"
    BY <1>3 DEF PromptReady, sampleVars, Inv, ControlInv
  <2>2. QED
    BY <2>1, HeadCompletesNothing DEF Response, Released
<1>4. ASSUME NEW r \in Rollouts, TakeReply(r)
      PROVE  Promised!Next \/ UNCHANGED <<Response, Completed, Released>>
  <2>1. output[r] # "complete" /\ UNCHANGED sample
    BY <1>4 DEF TakeReply, sampleVars, Inv, ControlInv
  <2>2. text' = [text EXCEPT ![r] = Cut(Whole(r))]
    BY <1>4, ReplyEffect
  <2>3. PICK next \in {"generating", "tools", "terminated"} :
              \/ output' = [output EXCEPT ![r] = "cancelled"]
              \/ LoopHead(r, next)
    BY <1>4, ReplyEffect
  <2>4. Completed' = Completed
    <3>1. CASE output' = [output EXCEPT ![r] = "cancelled"]
      BY <2>1, <3>1 DEF Completed, Inv, PartialTypeOK, LoopTypeOK
    <3>2. CASE LoopHead(r, next)
      BY <2>1, <3>2, HeadCompletesNothing
    <3>3. QED
      BY <2>3, <3>1, <3>2
  <2>5. /\ text'[r] = Cut(Whole(r)) /\ \A q \in Rollouts \ {r} : text'[q] = text[q]
    BY <2>2 DEF Inv, PartialTypeOK, TextTypeOK
  <2>6. /\ Len(text[r]) <= Len(text'[r])
        /\ \A i \in 1 .. Len(text[r]) : text'[r][i] = text[r][i]
    BY <2>5, CutGrows
  <2>7. Promised!Grow(r)
    BY <2>1, <2>4, <2>5, <2>6, GrowStep DEF Released
  <2>8. QED
    BY <2>7 DEF Promised!Next
<1>5. ASSUME NEW r \in Rollouts, ToolsReturn(r)
      PROVE  Promised!Next \/ UNCHANGED <<Response, Completed, Released>>
  <2>1. output[r] # "complete" /\ UNCHANGED sample
    BY <1>5 DEF ToolsReturn, sampleVars, Inv, ControlInv
  <2>2. LoopHead(r, "generating") \/ LoopHead(r, "terminated")
    BY <1>5 DEF ToolsReturn
  <2>3. Completed' = Completed
    BY <2>1, <2>2, HeadCompletesNothing
  <2>4. CASE UNCHANGED text
    BY <2>1, <2>3, <2>4 DEF Response, Released
  <2>5. CASE \E token \in Tokens : text' = [text EXCEPT ![r] = Append(text[r], token)]
    <3>1. text[r] \in Seq(Tokens) /\ Len(text[r]) \in Nat
      BY Lengths
    <3>2. /\ \E token \in Tokens : text'[r] = Append(text[r], token)
          /\ \A q \in Rollouts \ {r} : text'[q] = text[q]
      BY <2>5 DEF Inv, PartialTypeOK, TextTypeOK
    <3>3. /\ Len(text[r]) <= Len(text'[r])
          /\ \A i \in 1 .. Len(text[r]) : text'[r][i] = text[r][i]
      BY <3>1, <3>2
    <3>4. Promised!Grow(r)
      BY <2>1, <2>3, <3>2, <3>3, GrowStep DEF Released
    <3>5. QED
      BY <3>4 DEF Promised!Next
  <2>6. QED
    BY <1>5, <2>4, <2>5, ToolEffect
<1>6. ASSUME NEW r \in Rollouts, Score(r)
      PROVE  Promised!Next \/ UNCHANGED <<Response, Completed, Released>>
  <2>1. /\ pc[r] = "scoring" /\ UNCHANGED <<text, sample>>
        /\ output' = [output EXCEPT ![r] = "complete"]
    BY <1>6 DEF Score, sampleVars
  <2>2. output[r] # "complete" /\ text[r] # <<>>
    BY <2>1 DEF Inv, ControlInv, RoomInv, Room
  <2>3. r \notin Completed /\ Completed' = Completed \cup {r}
    BY <2>1, <2>2 DEF Completed, Inv, PartialTypeOK, LoopTypeOK
  <2>4. Response[r] # <<>> /\ UNCHANGED <<Response, Released>>
    BY <2>1, <2>2, ResponseIsText DEF Response, Released
  <2>5. Promised!Complete(r)
    BY <2>3, <2>4 DEF Promised!Complete, Response, Completed, Released
  <2>6. QED
    BY <2>5 DEF Promised!Next
<1>7. ASSUME NEW r \in Rollouts, Token(r)
      PROVE  Promised!Next \/ UNCHANGED <<Response, Completed, Released>>
  BY <1>7 DEF Token, loopVars, sampleVars, Response, Completed, Released
<1>8. ASSUME NEW r \in Rollouts, Return(r)
      PROVE  Promised!Next \/ UNCHANGED <<Response, Completed, Released>>
  BY <1>8 DEF Return, loopVars, sampleVars, Response, Completed, Released
<1>9. ASSUME NEW r \in Rollouts, NEW s \in Servers, Arrive(r, s)
      PROVE  Promised!Next \/ UNCHANGED <<Response, Completed, Released>>
  BY <1>9 DEF Arrive, loopVars, sampleVars, Response, Completed, Released
<1>10. CASE Gather
  <2>1. /\ sample = "running" /\ UNCHANGED <<text, output>> /\ \A r \in Rollouts : pc[r] = "ended"
        /\ sample' = IF Interrupted THEN "queued" ELSE "released"
    BY <1>10 DEF Gather, loopVars
  <2>2. UNCHANGED <<Response, Completed>>
    BY <2>1 DEF Response, Completed
  <2>3. CASE Interrupted
    BY <2>1, <2>2, <2>3 DEF Released
  <2>4. CASE ~Interrupted
    <3>1. Completed = Rollouts
      BY <2>1, <2>4 DEF Completed, Interrupted, Inv, ControlInv, PartialTypeOK, LoopTypeOK
    <3>2. ~Released /\ Released' = TRUE
      BY <2>1, <2>4 DEF Released
    <3>3. Promised!Release
      BY <2>2, <3>1, <3>2 DEF Promised!Release, Response, Completed, Released
    <3>4. QED
      BY <3>3 DEF Promised!Next
  <2>5. QED
    BY <2>3, <2>4
<1>11. CASE BeginPause \/ PauseEnd \/ Transferred \/ UpdateVersion \/ BeginResume \/ ResumeEnd
  BY <1>11 DEF BeginPause, PauseEnd, Transferred, UpdateVersion, BeginResume, ResumeEnd,
    loopVars, sampleVars, Response, Completed, Released
<1>12. ASSUME NEW s \in Servers, CancelServer(s) \/ ResumeServer(s)
      PROVE  Promised!Next \/ UNCHANGED <<Response, Completed, Released>>
  BY <1>12 DEF CancelServer, ResumeServer, loopVars, sampleVars, Response, Completed,
    Released
<1>13. ASSUME NEW w \in Workers, CancelWorker(w) \/ ResumeWorker(w)
      PROVE  Promised!Next \/ UNCHANGED <<Response, Completed, Released>>
  BY <1>13 DEF CancelWorker, ResumeWorker, loopVars, sampleVars, Response, Completed,
    Released
<1>14. CASE UNCHANGED vars
  BY <1>14 DEF vars, syncVars, sampleVars, serverVars, loopVars, requestVars, Response,
    Completed, Released
<1>15. QED
  BY <1>1, <1>2, <1>3, <1>4, <1>5, <1>6, <1>7, <1>8, <1>9, <1>10, <1>11, <1>12, <1>13,
    <1>14 DEF Next, Loop, Synchronize

\* The partial rollout, with its interruptions, implements Transcripts: responses
\* only grow, complete ones stay, and the release comes last.
THEOREM KeepsItsPromise == Spec => ImplementsTranscripts
<1>1. Init => Promised!Init
  <2> SUFFICES ASSUME Init PROVE Promised!Init
    OBVIOUS
  <2>1. Response = [r \in Rollouts |-> <<>>]
    BY ResponseIsText, InitInv DEF Init, Of
  <2>2. Completed = {} /\ Released = FALSE
    BY DEF Init, Of, Completed, Released
  <2>3. QED
    BY <2>1, <2>2 DEF Promised!Init, Response, Completed, Released
<1>2. Inv /\ Inv' /\ [Next]_vars => [Promised!Next]_Promised!vars
  BY PromisedStep DEF Promised!vars, Response, Completed, Released
<1>3. QED
  BY InitInv, InvStep, <1>1, <1>2, PTL DEF Spec, ImplementsTranscripts, Promised!Spec
=============================================================================
