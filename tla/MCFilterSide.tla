----------------------------- MODULE MCFilterSide -----------------------------
(***************************************************************************)
(* An instance of three parts of the filter's side, whose models share no  *)
(* state: the market data client under the threads of one process, the web *)
(* application and a file of the price cache. Each initial state is that   *)
(* of one of them, so that the states add up instead of multiplying.       *)
(***************************************************************************)
EXTENDS MarketData, FilterApp, DataCache

CONSTANT f1

VARIABLE part

MCFreeTokens == <<f1>>

sideVars == <<part, marketVars, appVars, cacheVars>>

SideInit ==
    /\ part \in {"market", "app", "cache"}
    /\ MarketInit /\ AppInit /\ CacheInit
    /\ part # "cache" => kind = "daily"

Market == part = "market" /\ MarketNext /\ UNCHANGED <<part, appVars, cacheVars>>
App    == part = "app" /\ AppNext /\ UNCHANGED <<part, marketVars, cacheVars>>
Cache  == part = "cache" /\ CacheNext /\ UNCHANGED <<part, marketVars, appVars>>

SideNext == Market \/ App \/ Cache

SideSpec == SideInit /\ [][SideNext]_sideVars

=============================================================================
