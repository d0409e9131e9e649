CONSTANTS
    m1 = m1
    m2 = m2
    Metrics = {m1, m2}
    Kind <- MCKind
    Threads = {t1}
    Samplers = {s1, s2, s3}
    EnableSampling = TRUE
    SaveSeries = TRUE
    MaxForks = 1
    NULL = NULL
SPECIFICATION Spec
INVARIANT SamplerTracked
