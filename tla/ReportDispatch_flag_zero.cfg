\* Two numeric flags, one exposed as FlagStatus and one as FlagGauge, beside
\* a Counter and a status; a Prometheus and a JSON sweep.
CONSTANTS
    f1 = f1
    f2 = f2
    c1 = c1
    s1 = s1
    Vars = {f1, f2, c1, s1}
    Class <- MCClass
    FlagKind <- MCFlagKind
SPECIFICATION Spec
INVARIANT ExportsAgree
