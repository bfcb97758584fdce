----------------------------- MODULE MCSharedState -----------------------------
(* What processes share outside of the database, in Redis, Qdrant and files:  *)
(* small instances of eight components that do not touch each other's state,   *)
(* checked side by side.  A behaviour plays one scene, and leaves the state   *)
(* of the others as it began.                                                 *)
EXTENDS VisibilityTimeout, SpendLedger, Throttle, ToolCache, PlaceIndex,
        EvalGate, SignIn, Drills, TLC

CONSTANTS
    Scenes,                       \* the components the instance plays
    a, b, c, r1, r2, l1, l2, l3, w1, w2, c1, c2, o1, o2

VARIABLE scene

MCCountdowns == <<1, 2>>
MCWorkerOf == [l \in Lookups |-> IF l = l3 THEN w2 ELSE w1]
MCTtl == [t \in Tools |-> IF t = "geo" THEN 2 ELSE 1]
MCEmptyTtl == [t \in Tools |-> IF t = "geo" THEN 1 ELSE 0]
MCCityOf == [p \in Places |-> IF p = "gion" THEN "kyoto" ELSE "tokyo"]
MCSymmetry == Permutations(Operators)
MCCases == [fixtures |-> 2, corpus |-> 1]

MCInit ==
    /\ scene \in Scenes
    /\ VisibilityInit /\ SpendInit /\ ThrottleInit /\ CacheInit
    /\ IndexInit /\ EvalInit /\ SignInInit /\ DrillsInit
    /\ scene # "spend" => llmEnabled
    /\ scene # "drills" => stack.spend = "under"

Still(played) ==
    /\ scene' = scene
    /\ played # "visibility" => UNCHANGED visibilityVars
    /\ played # "spend" => UNCHANGED spendVars
    /\ played # "throttle" => UNCHANGED throttleVars
    /\ played # "cache" => UNCHANGED cacheVars
    /\ played # "index" => UNCHANGED indexVars
    /\ played # "gate" => UNCHANGED evalVars
    /\ played # "sign-in" => UNCHANGED signInVars
    /\ played # "drills" => UNCHANGED drillVars

\* The components whose bounds may leave them nothing to do.
MayStop == {"spend", "index", "gate", "sign-in", "drills"}

MCNext ==
    \/ scene = "visibility" /\ VisibilityNext /\ Still("visibility")
    \/ scene = "spend" /\ SpendNext /\ Still("spend")
    \/ scene = "throttle" /\ ThrottleNext /\ Still("throttle")
    \/ scene = "cache" /\ CacheNext /\ Still("cache")
    \/ scene = "index" /\ IndexNext /\ Still("index")
    \/ scene = "gate" /\ EvalNext /\ Still("gate")
    \/ scene = "sign-in" /\ SignInNext /\ Still("sign-in")
    \/ scene = "drills" /\ DrillNext /\ Still("drills")
    \/ scene \in MayStop /\ Still("none")

MCVars == <<scene, visibilityVars, spendVars, throttleVars, cacheVars, indexVars,
            evalVars, signInVars, drillVars>>

MCSpec == MCInit /\ [][MCNext]_MCVars
=============================================================================
