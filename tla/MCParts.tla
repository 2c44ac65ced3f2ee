------------------------------ MODULE MCParts ------------------------------
(* The browser's parts, and the parts of the server that share no state with any
   other module.  A behaviour is one of one part, the others stay as they begin.  Parts
   whose names do not clash are extended and have their own variables; the state of
   whichever of the rest it is, is held in v1 to v5, and those it has no use for stay 0. *)
EXTENDS ConnectFourPlay, RoomPresence, CircuitBreaker, FinalityWatcher, SharedCache,
        ServerLifecycle, Ratings, DepositFlow, TLC

CONSTANTS
    PageSize, Kept, MaxTotal, Fetches, MaxFetches,
    Users, Before, Scripts, BatchSize, MaxChanges, MaxCrashes

VARIABLES part, v1, v2, v3, v4, v5

(* The players of three matches: one pair meets twice. *)
FirstPlayers  == [m1 |-> "a", m2 |-> "b", m3 |-> "b"]
SecondPlayers == [m1 |-> "b", m2 |-> "a", m3 |-> "c"]

Feed    == INSTANCE TransactionFeed WITH
    total <- v1, feed <- v2, fetch <- v3, portal <- v4, grown <- v5
Balance == INSTANCE BalanceFields WITH
    docs <- v1, books <- v2, script <- v3, sum <- v4, tally <- v5

vs == <<v1, v2, v3, v4, v5>>

Others(p) ==
    /\ p # "board"    => UNCHANGED vars
    /\ p # "presence" => UNCHANGED presenceVars
    /\ p # "breaker"  => UNCHANGED breakerVars
    /\ p # "watch"    => UNCHANGED watchVars
    /\ p # "cache"    => UNCHANGED cacheVars
    /\ p # "life"     => UNCHANGED lifeVars
    /\ p # "rating"   => UNCHANGED ratingVars
    /\ p # "deposit"  => UNCHANGED flowVars

PartsInit ==
    /\ Init /\ PresenceInit /\ BreakerInit /\ WatchInit /\ CacheInit /\ LifeInit /\ RatingInit /\ FlowInit
    /\ \/ part \in {"board", "presence", "breaker", "watch", "cache", "life", "rating", "deposit"}
          /\ v1 = 0 /\ v2 = 0 /\ v3 = 0 /\ v4 = 0 /\ v5 = 0
       \/ part = "feed"    /\ Feed!FeedInit
       \/ part = "balance" /\ Balance!FieldsInit
    /\ part # "presence" => mode = "redis"
    /\ part # "life"     => runner = "timers"

PartsNext ==
    /\ \/ part = "board"    /\ Next /\ UNCHANGED vs
       \/ part = "presence" /\ PresenceNext /\ UNCHANGED vs
       \/ part = "breaker"  /\ BreakerNext /\ UNCHANGED vs
       \/ part = "watch"    /\ WatchNext /\ UNCHANGED vs
       \/ part = "cache"    /\ CacheNext /\ UNCHANGED vs
       \/ part = "life"     /\ LifeNext /\ UNCHANGED vs
       \/ part = "rating"   /\ RatingNext /\ UNCHANGED vs
       \/ part = "feed"     /\ Feed!FeedNext
       \/ part = "deposit"  /\ FlowNext /\ UNCHANGED vs
       \/ part = "balance"  /\ Balance!FieldsNext
    /\ UNCHANGED part
    /\ Others(part)

PartsSpec == PartsInit /\ [][PartsNext]_<<part, vs, vars, presenceVars, breakerVars, watchVars,
                                         cacheVars, lifeVars, ratingVars, flowVars>>

(* The state of a behaviour is that of its part: the others never change. *)
Moving == <<part, CASE part = "board"    -> vars
                    [] part = "presence" -> presenceVars
                    [] part = "breaker"  -> breakerVars
                    [] part = "watch"    -> watchVars
                    [] part = "cache"    -> cacheVars
                    [] part = "life"     -> lifeVars
                    [] part = "rating"   -> ratingVars
                    [] part = "deposit"  -> flowVars
                    [] OTHER             -> vs>>

(* The creator of the match has two tabs. *)
SocketsOf == [c1 |-> "c", c2 |-> "c", g1 |-> "g"]

(* Two users with a balance document of before.                            *)
OldUsers == <<"a", "b">>

(* Every game on a small board against the definition of the game (ConnectFourPlay),
   and the list of transactions that is loaded page by page (TransactionFeed). *)
HistoriesAreShown == /\ BoardIsSound
                     /\ part = "feed" => Feed!FeedIsWhole

(* The other parts' properties; each is stated and commented in its module. *)
AmountsAgree      == part = "balance"  => Balance!AmountsAgree
=============================================================================
