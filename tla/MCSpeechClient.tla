--------------------------- MODULE MCSpeechClient ---------------------------
EXTENDS SpeechClient

CONSTANTS c1, c2

\* One caller loads the engine; the other warms it, unloads it, streams
\* or asks for health or an install.
Split == [c \in Callers |-> IF c = c1 THEN {"load"} ELSE {"warmup", "unload", "ask", "stream"}]
=============================================================================
