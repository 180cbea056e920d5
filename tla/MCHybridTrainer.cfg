SPECIFICATION FairSpec
CONSTANTS
    r1 = r1
    r2 = r2
    r3 = r3
    s1 = s1
    s2 = s2
    Ranks = {r1, r2, r3}
    Servers = {s1, s2}
    ServerOf <- MCServerOf
    Configs <- MCConfigs
    TotalSteps = 3
    UpdateSteps = 2
    CriticWarmup = 2
    SaveFreq = 2
    TestFreq = 2
    ValBeforeTrain = TRUE
    MaxCrashes = 1
INVARIANTS OnPolicyData GpuExclusive TeacherFollows
PROPERTIES ImplementsIteration RunCompletes
