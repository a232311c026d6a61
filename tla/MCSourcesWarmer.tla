-------------------------- MODULE MCSourcesWarmer --------------------------
(* Two requests that differ in source and arguments; two columns.           *)
EXTENDS Startup

MCRequests == {[source |-> "rss", query |-> "flood"], [source |-> "usgs", query |-> "quake"]}
=============================================================================
