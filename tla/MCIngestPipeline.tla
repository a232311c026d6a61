-------------------------- MODULE MCIngestPipeline --------------------------
(* One text run, the scheduled and the bootstrap live run, and a writer    *)
(* without lineage; two events of a text source and one of a live source,  *)
(* each delivered with an older or a newer time; and a breaker with its    *)
(* caller.  A behaviour is about the pipeline or about the breaker.        *)
EXTENDS IngestPipeline, CircuitBreaker

CONSTANTS text, live, boot

MCRuns == {text, live, boot}
MCKindOf == [r \in MCRuns |-> IF r = text THEN "text" ELSE "live"]
MCProcessOf == [r \in MCRuns |-> IF r = boot THEN "api" ELSE "worker"]
MCEvents == {"rss-1", "rss-2", "usgs-1"}
MCFeedOf == [e \in MCEvents |-> IF e = "usgs-1" THEN "live" ELSE "text"]
MCSourceOf == [e \in MCEvents |-> IF e = "usgs-1" THEN "usgs" ELSE "rss"]

VARIABLE subject

MCInit == Init /\ BreakerInit /\ subject \in {"pipeline", "breaker"}
MCNext ==
    \/ subject = "pipeline" /\ Next /\ UNCHANGED <<breakerVars, subject>>
    \/ subject = "breaker" /\ BreakerNext /\ UNCHANGED <<vars, subject>>
MCSpec == MCInit /\ [][MCNext]_<<vars, breakerVars, subject>>
=============================================================================
