-------------------------- MODULE MCStreamEnforcement --------------------------
EXTENDS StreamEnforcement

CONSTANTS tv, phone

\* A client on the television may register again under a second id.
TvTwice == {<<tv, 1>>, <<tv, 2>>, <<phone, 1>>}
TvOne == <<tv, 1>>
=============================================================================
