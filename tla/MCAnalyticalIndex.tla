------------------------- MODULE MCAnalyticalIndex -------------------------
EXTENDS AnalyticalIndex

\* Two epochs; the first has a cell with two draws.
TwoEpochs == {<<"e1", "c1", 0>>, <<"e1", "c1", 1>>, <<"e2", "c1", 0>>}

=============================================================================
