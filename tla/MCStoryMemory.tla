--------------------------- MODULE MCStoryMemory ---------------------------
(* StoryMemory for TLC: its constants are all in the configurations.       *)
EXTENDS StoryMemory
=============================================================================
