---------------------------- MODULE LLMProvider ----------------------------
(***************************************************************************)
(* The language-model client every agent and request handler shares        *)
(* (agents/llm_provider.py) and the handlers that reconfigure it           *)
(* (api/routers/admin.py, api/routers/copilot.py).                         *)
(*                                                                         *)
(* There is one LLMProvider object in the process.  A call builds its URL  *)
(* and its list of models when it starts, but reads the headers, with the  *)
(* key in them, before every request it sends; between two requests the    *)
(* event loop runs others, who may reconfigure the object.                 *)
(*                                                                         *)
(* Provider, key, model, URL and headers are always assigned together,     *)
(* without an await: they are one value, a configuration, known by its     *)
(* provider and by whether it came from the environment or at run time.    *)
(***************************************************************************)
EXTENDS Integers, Sequences, SequencesExt

CONSTANTS
    Order,        \* the providers, in the order of preference of _PROVIDERS
    Environment,  \* those whose variable is set in the environment
    Keyless,      \* those that need no API key (ollama)
    Chain,        \* Chain[p]: how many models a call to p may try
    Callers,      \* who may have a call under way
    NoProvider    \* the provider field of a client without configuration

ASSUME ProvidersAssumption ==
    /\ Order \in Seq(Range(Order))
    /\ Environment \subseteq Range(Order)
    /\ NoProvider \notin Range(Order)
    /\ Chain \in [Range(Order) -> Nat \ {0}]

VARIABLES
    config,    \* the configuration in force
    call       \* call[c]: the call of c that is under way, or none

Providers == Range(Order)
Config == [provider : Providers \cup {NoProvider}, runtime : BOOLEAN]
Nobody == [provider |-> NoProvider, runtime |-> FALSE]

\* The first provider of the list that the environment names.
FromEnvironment ==
    LET named == {i \in DOMAIN Order : Order[i] \in Environment}
    IN  IF named = {} THEN Nobody ELSE [provider |-> Order[Min(named)], runtime |-> FALSE]

AtRunTime(p) == [provider |-> p, runtime |-> TRUE]
available == config.provider # NoProvider

\* previous: what a test found in force; calm: nobody else has reconfigured
\* the client since this call began (for the properties).
NoCall == [what |-> "none", at |-> Nobody, headers |-> Nobody, tried |-> 0,
           previous |-> Nobody, calm |-> TRUE]
Calls == [what : {"none", "complete", "test"}, at : Config, headers : Config,
          tried : Nat, previous : Config, calm : BOOLEAN]

\* A call under configuration c sends its first request.
Started(what, c) ==
    [NoCall EXCEPT !.what = what, !.at = c, !.headers = c, !.tried = 1,
                   !.previous = IF what = "test" THEN config ELSE Nobody]

\* c leaves the client configured as given, which disturbs the calls of others.
Reconfigured(c, to) ==
    [d \in Callers |->
        IF d # c /\ call[d] # NoCall /\ to # config THEN [call[d] EXCEPT !.calm = FALSE]
        ELSE call[d]]

-----------------------------------------------------------------------------
\* complete(): without a provider it returns its fall-back text at once.
Complete(c) ==
    /\ call[c].what = "none"
    /\ call' = IF available THEN [call EXCEPT ![c] = Started("complete", config)] ELSE call
    /\ UNCHANGED config

\* POST /llm/runtime: enabled with a provider, or disabled.
SetRuntime(c) ==
    /\ call[c].what = "none"
    /\ \E to \in {AtRunTime(p) : p \in Providers} \cup {FromEnvironment} :
          /\ config' = to
          /\ call' = Reconfigured(c, to)

\* copilot_ask with a configuration of its own, which stays in force.
Ask(c) ==
    /\ call[c].what = "none"
    /\ \E p \in Providers :
          /\ config' = AtRunTime(p)
          /\ call' = [Reconfigured(c, config') EXCEPT ![c] = Started("complete", config')]

\* Mutant of Restored: only a runtime configuration is put back.
RestoredRuntime(previous) == IF previous.runtime THEN previous ELSE config

\* The finally of test_runtime_llm.  A keyless provider set at run time has an
\* empty key, which counts as none: the environment takes its place.
Restored(previous) ==
    IF previous.runtime /\ previous.provider \notin Keyless THEN previous ELSE FromEnvironment

\* POST /llm/runtime/test with a configuration, without one, or with one that
\* apply_runtime_config refuses: then nothing is sent, but the finally runs.
Test(c) ==
    /\ call[c].what = "none"
    /\ \E to \in {AtRunTime(p) : p \in Providers} \cup {config} :
          /\ to.provider # NoProvider
          /\ config' = to
          /\ call' = [Reconfigured(c, to) EXCEPT ![c] = Started("test", to)]

TestRefused(c) ==
    /\ call[c].what = "none"
    /\ config' = Restored(config)
    /\ call' = Reconfigured(c, config')

\* What a call leaves behind when it returns, with an answer or the fall-back.
Returned(c) ==
    /\ config' = IF call[c].what = "test" THEN Restored(call[c].previous) ELSE config
    /\ call' = [Reconfigured(c, config') EXCEPT ![c] = NoCall]

Answered(c) == call[c].what # "none" /\ Returned(c)

MoreModels(c) == call[c].tried < Chain[call[c].at.provider]

\* A model fails or answers nothing: the next of the list is asked, at the same
\* URL with the headers of the moment.
NextModel(c) ==
    /\ call[c].what # "none"
    /\ MoreModels(c)
    /\ call' = [call EXCEPT ![c].tried = @ + 1, ![c].headers = config]
    /\ UNCHANGED config

\* The last one fails: the error is caught and the fall-back text returned.
AllFailed(c) ==
    /\ call[c].what # "none"
    /\ ~MoreModels(c)
    /\ Returned(c)

-----------------------------------------------------------------------------
\* As long as nobody else reconfigures the client, a call sends every request
\* with the key of the provider it addresses, and a test leaves in force what it
\* found (test_runtime_llm), save for a keyless runtime provider.
CalmCalls ==
    [][\A c \in Callers :
          /\ call'[c].calm => call'[c].headers = call'[c].at
          /\ call[c].what = "test" /\ call'[c].what = "none" /\ call[c].calm =>
                \/ config' = call[c].previous
                \/ call[c].previous.runtime /\ call[c].previous.provider \in Keyless
      ]_<<config, call>>
=============================================================================
