--------------------------- MODULE MCTokenRepository ---------------------------
EXTENDS TokenRepository, TLC

\* The handlers are interchangeable.
HandlerSymmetry == Permutations(Handlers)
=============================================================================
