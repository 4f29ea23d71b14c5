---------------------------- MODULE MCCoworker2 ----------------------------
EXTENDS Coworker2

\* With StrLenMax = 2: the empty string, one that just fits, one without a
\* terminator and one that is too long.
MCLengths == {<<1, 0>>, <<2, 1>>, <<2, 2>>, <<3, 1>>}
\* A buffer that is one byte short, and one that is long enough.
MCOutLens == {1, 2}
=============================================================================
