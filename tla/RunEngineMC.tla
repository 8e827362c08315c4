----------------------------- MODULE RunEngineMC -----------------------------
(***************************************************************************)
(* A plan for RunEngine: a spec made from the founder's brief, an audit    *)
(* that judges it and that the spec consults, and a publication of the     *)
(* brief, which needs the founder's approval and runs beside them.         *)
(***************************************************************************)
EXTENDS RunEngine, TLC

LaunchNodes == {"spec", "audit", "publish"}
LaunchNone == [n \in LaunchNodes |-> {}]
LaunchRank == "spec" :> 1 @@ "audit" :> 2 @@ "publish" :> 3
LaunchDeps == "audit" :> {"spec"} @@ LaunchNone
LaunchReads == "spec" :> {"brief"} @@ "publish" :> {"brief"} @@ LaunchNone
LaunchConsults == "spec" :> {"audit"} @@ LaunchNone
LaunchReviewOf == "audit" :> {"spec"} @@ LaunchNone

ASSUME LaunchFlows == PlanFlows
=============================================================================
