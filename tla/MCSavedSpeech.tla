--------------------------- MODULE MCSavedSpeech ---------------------------
EXTENDS SavedSpeech

\* the first recording's first track and the second's second have no saved plan
MCUnplanned == {<<1, 1>>, <<2, 2>>}
=============================================================================
