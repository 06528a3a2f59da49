--------------------------- MODULE MCCloudStream ---------------------------
EXTENDS CloudStream
\* a word is said twice, so that the tail can match what is no replay
MCText == <<"so", "yes", "so", "we">>
=============================================================================
