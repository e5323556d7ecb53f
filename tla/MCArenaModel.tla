----------------------------- MODULE MCArenaModel -----------------------------
(* ArenaModel and its refinement on small arenas.                           *)
EXTENDS ArenaRefinement

CONSTANTS Types, Methods, Fields, Properties, Events, GenericParams

MCMaxLen == [k \in Kinds |-> CASE k = "type"          -> Types
                               [] k = "method"        -> Methods
                               [] k = "field"         -> Fields
                               [] k = "property"      -> Properties
                               [] k = "event"         -> Events
                               [] k = "generic_param" -> GenericParams]
===============================================================================
