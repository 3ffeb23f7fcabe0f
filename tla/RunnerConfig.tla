---------------------------- MODULE RunnerConfig ----------------------------
(***************************************************************************)
(* What the runner registry promises about configuration: the set of       *)
(* registered runners, where they live, how they are tagged and whether an *)
(* operator took them out of service.  Every administrative request is one *)
(* atomic step.  Probes, health, crashes and restarts do not exist at this *)
(* level: none of them may change the configuration.                       *)
(***************************************************************************)

CONSTANTS
    Ids,        \* runner identifiers
    Endpoints,  \* runner addresses
    TagSets     \* the tag lists an operator registers a runner with

VARIABLE config \* [require: BOOLEAN, runners: [Ids -> RunnerEntry]]

\* RunnerConfig of registry_store.rs, without the display name and the date.
Entry == [state: {"serving", "draining"}, endpoint: Endpoints, tags: TagSets]

NoEntry == [state |-> "absent"]

RunnerEntry == Entry \cup {NoEntry}

Config == [require: BOOLEAN, runners: [Ids -> RunnerEntry]]

Empty == [require |-> FALSE, runners |-> [i \in Ids |-> NoEntry]]

\* The entry that a register request leaves: an operator's maintenance
\* decision outlives a re-registration under the same id.
Registered(old, ep, tags) ==
    [state |-> IF old.state = "draining" THEN "draining" ELSE "serving",
     endpoint |-> ep, tags |-> tags]

Register(i, ep, tags) ==
    config' = [require |-> TRUE,
               runners |-> [config.runners EXCEPT
                               ![i] = Registered(@, ep, tags)]]

SetDraining(i, draining) ==
    /\ config.runners[i] # NoEntry
    /\ config' = [config EXCEPT !.runners[i].state =
                     IF draining THEN "draining" ELSE "serving"]

Deregister(i) ==
    config' = [config EXCEPT !.runners[i] = NoEntry]

\* An empty registry, or one runner from ASMODEUS_RUNNER_ENDPOINT.
Init ==
    \/ config = Empty
    \/ \E i \in Ids, ep \in Endpoints, tags \in TagSets :
          config = [require |-> TRUE,
                    runners |-> [Empty.runners EXCEPT
                                    ![i] = Registered(NoEntry, ep, tags)]]

Next ==
    \E i \in Ids :
        \/ \E ep \in Endpoints, tags \in TagSets : Register(i, ep, tags)
        \/ \E draining \in BOOLEAN : SetDraining(i, draining)
        \/ Deregister(i)

Spec == Init /\ [][Next]_config

=============================================================================
