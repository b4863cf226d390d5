CONSTANTS
    Threads = {t1, t2}
    Ctxs = {c1, c2}
    NoEnv = NoEnv
    NoCtx = NoCtx
    GasPrices <- MCGasPrices
    MaxDepth <- MCMaxDepth
    MaxCodeFetch <- MCMaxCodeFetch
    Serialized = FALSE

SPECIFICATION Spec

INVARIANT CodeRefLive
