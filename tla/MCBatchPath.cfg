SPECIFICATION Spec
CONSTANTS
    Prompts = 2
    ValPrompts = 2
    ValN = 2
    RolloutN = 3
    ResponseLength = 3
    NumWorkers = 3
    DpSize = 2
    SpSize = 2
    MaxTokenLen = 4
    MicroBatchSize = 1
    Gamma = 2
    Lam = 3
    Scale = 2520
    ClipAdvValue = 3000
    SafetyThresh = 1
    SafetyClipValue = 1000
    Configs <- MCConfigs
    Draws <- MCDraws
    Judgement <- MCJudgement
    Estimate <- MCEstimate
    None = None
INVARIANTS RowsAligned TrainedOnce SameForwards AdvantagesByPrompt TeacherContext RanksBalanced
