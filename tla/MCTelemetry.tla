---------------------------- MODULE MCTelemetry ----------------------------
EXTENDS Telemetry, TLC

\* Two requests of one extension and one of another, which takes function logs only.
MCAgentName  == [s \in Subs |-> IF s = "s3" THEN "ext2" ELSE "ext1"]
MCCategories == [s \in Subs |-> IF s = "s3" THEN {"function"} ELSE {"platform", "function"}]
MCMaxItems   == [s \in Subs |-> IF s = "s3" THEN 1 ELSE 2]
MCCategoryOf == [p \in Streams |-> IF p = "log" THEN "function" ELSE "platform"]
=============================================================================
