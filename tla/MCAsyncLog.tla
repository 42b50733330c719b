----------------------------- MODULE MCAsyncLog -----------------------------
(* Bounds for LogOutput: enough messages that one flush finds more than    *)
(* MaxBuffers buffers, and a clock that passes two midnights.              *)
EXTENDS LogOutput
=============================================================================
