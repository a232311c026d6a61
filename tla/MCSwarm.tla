------------------------------ MODULE MCSwarm ------------------------------
(* Three missions, at most two under way, a table for one, one client;       *)
(* openrouter tries two models, the keyless provider one.                    *)
EXTENDS Swarm, TLC

MCOrder == <<"openrouter", "ollama">>
MCChain == [openrouter |-> 2, ollama |-> 1]
=============================================================================
