----------------------------- MODULE MCLogFraming ------------------------------
(* LogFraming over words of the separator's own bytes.                      *)
EXTENDS LogFraming, TLC

\* Beginnings, ends and near misses of the separator, two of them short enough for
\* the array of the prefix, and the empty message.
Words == {<<>>, <<"[">>, <<"]">>, <<"[", "R">>, <<"R", "]">>, <<"[", "[", "R">>, <<"]", "R">>}

SessionSymmetry == Permutations(Sessions)
================================================================================
