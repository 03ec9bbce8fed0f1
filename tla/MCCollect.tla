----------------------------- MODULE MCCollect -----------------------------
EXTENDS Collect, TLC

\* Workers are interchangeable when none is singled out as mortal, and so are
\* the children: which of them a message reports is chosen in Init.
Interchangeable == Permutations(Consumers) \cup Permutations(Children)
=============================================================================
