--------------------------- MODULE MCProviderTasks ---------------------------
(* Every adapter; small bounds on repeated calls and turns.                *)
EXTENDS ProviderTasks

MCAdapters == JobAdapters \cup CallAdapters \cup LoopAdapters \cup VoiceAdapters
=============================================================================
