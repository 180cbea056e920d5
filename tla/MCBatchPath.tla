------------------------------ MODULE MCBatchPath ------------------------------
EXTENDS BatchPath

MCDraws ==
    {[tokens |-> <<"gen">>, score |-> 0], [tokens |-> <<"gen">>, score |-> 1],
     [tokens |-> <<"gen", "tool", "gen">>, score |-> 1]}

C(estimator, balance, dynamic, dontReprompt, selfAsTeacher, feedback, miniBatchSize) ==
    [estimator |-> estimator, balance |-> balance, dynamic |-> dynamic,
     dontReprompt |-> dontReprompt, selfAsTeacher |-> selfAsTeacher, feedback |-> feedback,
     miniBatchSize |-> miniBatchSize]

MCConfigs ==
    {C("gae",  "tokens", TRUE,  FALSE, FALSE, "off",              2),
     C("grpo", "groups", FALSE, FALSE, FALSE, "off",              1),
     C("grpo", "none",   TRUE,  FALSE, FALSE, "off",              2),
     C("sdpo", "tokens", TRUE,  TRUE,  TRUE,  "without_solution", 2),
     C("tasd", "tokens", FALSE, TRUE,  FALSE, "off",              1),
     C("tasd", "groups", TRUE,  FALSE, TRUE,  "always",           2)}

SequenceConfigs == {C("sequence", "tokens", FALSE, TRUE, FALSE, "off", 2)}

\* Levels 0 to 2: a token by its place, a bit more with a demonstration. Shown one of
\* several tokens, the teacher finds the level below 0, and twelve times as far: a
\* batch may add up to either sign.
MCJudgement(r, context, t) ==
    IF context = None THEN (r.copy + 2 * t) % 3
    ELSE LET length == Len(context.tokens)
         IN  (IF length > 1 THEN -12 ELSE 1) * ((r.copy + 2 * t + 1 + length) % 3)
MCEstimate(r, t) == (r.copy + t * t) % 3
================================================================================
