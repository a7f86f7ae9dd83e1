\* Agent runs over every set of API keys, their costs logged and added up by two
\* processes under every configuration of the legacy store.
SPECIFICATION Spec
CONSTANTS
    Run = {r1}
    Process = {p1, p2}
    Tenant = {t1, t2}
    Campaign = {c1}
    Agents <- MCAgents
    Tokens <- MCTokens
    None = None
SYMMETRY Symmetry
INVARIANTS UsageIsComplete FallsBackOnce SeedIsWhole CostsAreHonest
CHECK_DEADLOCK FALSE
