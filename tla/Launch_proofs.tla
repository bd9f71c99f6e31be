---------------------------- MODULE Launch_proofs ----------------------------
(***************************************************************************)
(* Proofs about Launch, for every set of names, words, invocations and texts *)
(* and any number of changes by others.  The inductive invariant IInv says    *)
(* where a launch with a lease or a child stands (Path), what the preparation *)
(* of a network settled for good (Kept), that a due filter is followed (Due)  *)
(* and which sources the recheck has yet to see (Watched).                    *)
(***************************************************************************)
EXTENDS Launch, TLAPS

Before == {"look", "load", "host", "recover", "describe", "gates", "plan", "prepare"}
Behind == {"compose", "emit", "boundary", "recheck", "auth", "start", "running"}

\* Where the registration and the child can be, by the step the launch has reached.
Path ==
    /\ at \in Before => prepared = "none" /\ lease = "none"
    /\ at \in {"guard", "health", "register"} => gatewayKind(prepared) /\ lease = "none"
    /\ at = "cleanup" => lease = "unknown"
    /\ at \in Behind => lease \in {"none", "live"}
    /\ at \in Final \cup {"delegate"} => lease # "live"
    /\ at = "delegate" => hosted
    /\ child = "running" <=> at = "running"
    /\ child = "exited" => at \in {"finish", "exited"}
    /\ child \in {"none", "running", "exited"}
    /\ hosted => /\ prepared = "none" /\ child = "none"
                 /\ at \in {"gates", "plan", "prepare", "compose", "emit", "delegate"} \cup Final

\* What a prepared network was admitted for.
Kept ==
    /\ prepared # "none" =>
          /\ ~CheckOverlays(inv)
          /\ explicitNetwork \/ inv.proxy # "none" => prepared = selected
          /\ ~explicitNetwork /\ inv.proxy = "none" => gatewayKind(prepared)
          /\ gatewayKind(prepared) => ~GatewayRefuses
    /\ managedNetwork /\ (at \in Behind \/ child # "none") => prepared # "none"

\* A due filter is known to the launch, and no session manager to a launch with one.
Due ==
    /\ due /\ at # "refused" => gatewayDefault
    /\ at \in {"look", "load", "host"} => ~contacted /\ ~hosted
    /\ contacted \/ hosted \/ at \in {"recover", "describe", "recovered"} =>
          ~due /\ ~managedNetwork

\* The recheck has still to see every source that may be stale.
Watched ==
    /\ source = [s \in Sources |-> source[s]]
    /\ \A s \in stale : Refuses(s, source[s])
    /\ at = "recheck" => \A k \in 1 .. looked : Guard[k] \notin stale
    /\ at \in {"auth", "start", "running"} /\ lease = "live" => stale = {}

IInv == TypeOK /\ Path /\ Kept /\ Due /\ Watched

-----------------------------------------------------------------------------
(* Lemmas on the operators.                                                *)

\* The guard has nine sources, in a row.
LEMMA GuardLength == Len(Guard) = 9 /\ Sources = {Guard[k] : k \in 1 .. 9}
  BY DEF Guard, Caches, Sources

\* The next source's number, in a cycle.
LEMMA Counts ==
    ASSUME NEW k \in 0 .. 8
    PROVE  (k + 1) % 9 \in 0 .. 8 /\ ((k + 1) % 9 = 0 <=> k = 8) /\ (k # 8 => (k + 1) % 9 = k + 1)
  OBVIOUS

\* What depends on the invocation alone does not change.
LEMMA InvocationFixed == [Next]_vars => inv' = inv
  BY DEF Next, vars, Look, LoadDefault, ResolveHost, RecoverMatching, Describe, Gates, Plan,
      Prepare, GuardSource, RecheckSource, CheckSource, Health, Register, Cleanup, ComposePlan,
      Emit, Delegate, Boundary, ChildEnvironment, Spawn, ChildExits, FinishLease, Others

LEMMA Facts ==
    ASSUME inv' = inv
    PROVE  /\ GatewayRefuses' <=> GatewayRefuses
           /\ CheckOverlays(inv)' <=> CheckOverlays(inv)
           /\ explicitNetwork' <=> explicitNetwork
           /\ explicitNetwork \/ inv.proxy # "none" => selected' = selected
  BY DEF GatewayRefuses, CheckOverlays, explicitNetwork, selected

-----------------------------------------------------------------------------
(* Initial states and steps.                                               *)

LEMMA InvInit == Init => IInv
<1> SUFFICES ASSUME Init PROVE IInv
  OBVIOUS
<1> USE DEF Init, hosted, gatewayKind, managedNetwork, explicitNetwork, Before, Behind, Final
<1>1. TypeOK
  <2>1. \A s \in Sources : source[s] = inv.sources[s]
    OBVIOUS
  <2>2. changes \in 0 .. MaxChanges /\ looked \in 0 .. Len(Guard) - 1
    BY GuardLength, LaunchAssumption
  <2> QED
    BY <2>1, <2>2 DEF TypeOK, Kinds
<1>2. Path
  BY DEF Path
<1>3. Kept
  BY DEF Kept
<1>4. Due /\ Watched
  BY DEF Due, Watched
<1> QED
  BY <1>1, <1>2, <1>3, <1>4 DEF IInv
\* The step of a launch keeps a lease and a child where they can be.
LEMMA PathStep == IInv /\ [Next]_vars => Path'
<1> SUFFICES ASSUME IInv, [Next]_vars PROVE Path'
  OBVIOUS
<1> USE DEF IInv, Path, hosted, gatewayKind, managedNetwork, explicitNetwork, Before, Behind, Final,
        world, decided, outcome, Goto, Refuse, Proceed, TypeOK
<1>1. CASE Look
  BY <1>1 DEF Look
<1>2. CASE LoadDefault
  BY <1>2 DEF LoadDefault
<1>3. CASE ResolveHost
  BY <1>3 DEF ResolveHost
<1>4. CASE RecoverMatching
  BY <1>4 DEF RecoverMatching
<1>5. CASE Describe
  BY <1>5 DEF Describe
<1>6. CASE Gates
  BY <1>6 DEF Gates
<1>7. CASE Plan
  BY <1>7 DEF Plan, Permitted
<1>8. CASE Prepare
  BY <1>8 DEF Prepare, PrepareRefuses, Kinds
<1>9. CASE GuardSource
  BY <1>9 DEF GuardSource, CheckSource
<1>10. CASE Health
  BY <1>10 DEF Health
<1>11. CASE Register
  BY <1>11 DEF Register
<1>12. CASE Cleanup
  BY <1>12 DEF Cleanup
<1>13. CASE ComposePlan
  BY <1>13 DEF ComposePlan
<1>14. CASE Emit
  BY <1>14 DEF Emit
<1>15. CASE Delegate
  BY <1>15 DEF Delegate
<1>16. CASE Boundary
  BY <1>16 DEF Boundary
<1>17. CASE RecheckSource
  BY <1>17 DEF RecheckSource, CheckSource
<1>18. CASE ChildEnvironment
  BY <1>18 DEF ChildEnvironment
<1>19. CASE Spawn
  BY <1>19 DEF Spawn
<1>20. CASE ChildExits
  BY <1>20 DEF ChildExits
<1>21. CASE FinishLease
  BY <1>21 DEF FinishLease
<1>22. CASE Others
  BY <1>22 DEF Others, CatalogChanges, SourceChanges
<1>23. CASE UNCHANGED vars
  BY <1>23 DEF vars
<1> QED
  BY <1>1, <1>2, <1>3, <1>4, <1>5, <1>6, <1>7, <1>8, <1>9, <1>10, <1>11, <1>12, <1>13,
      <1>14, <1>15, <1>16, <1>17, <1>18, <1>19, <1>20, <1>21, <1>22, <1>23 DEF Next

\* What the preparation settled stays true.
LEMMA KeptStep == IInv /\ [Next]_vars => Kept'
<1> SUFFICES ASSUME IInv, [Next]_vars PROVE Kept'
  OBVIOUS
<1> USE DEF IInv, Path, hosted, gatewayKind, managedNetwork, Before, Behind, Final,
        world, decided, outcome, Goto, Refuse, Proceed, Kept
<1>0. inv' = inv
  BY InvocationFixed
<1>1. CASE Look
  BY <1>0, <1>1, Facts DEF Look
<1>2. CASE LoadDefault
  BY <1>0, <1>2, Facts DEF LoadDefault
<1>3. CASE ResolveHost
  BY <1>0, <1>3, Facts DEF ResolveHost
<1>4. CASE RecoverMatching
  BY <1>0, <1>4, Facts DEF RecoverMatching
<1>5. CASE Describe
  BY <1>0, <1>5, Facts DEF Describe
<1>6. CASE Gates
  BY <1>0, <1>6, Facts DEF Gates
<1>7. CASE Plan
  BY <1>0, <1>7, Facts DEF Plan, Permitted
<1>8. CASE Prepare
  BY <1>0, <1>8, Facts DEF Prepare, PrepareRefuses, Kinds
<1>9. CASE GuardSource
  BY <1>0, <1>9, Facts DEF GuardSource, CheckSource
<1>10. CASE Health
  BY <1>0, <1>10, Facts DEF Health
<1>11. CASE Register
  BY <1>0, <1>11, Facts DEF Register
<1>12. CASE Cleanup
  BY <1>0, <1>12, Facts DEF Cleanup
<1>13. CASE ComposePlan
  BY <1>0, <1>13, Facts DEF ComposePlan
<1>14. CASE Emit
  BY <1>0, <1>14, Facts DEF Emit
<1>15. CASE Delegate
  BY <1>0, <1>15, Facts DEF Delegate
<1>16. CASE Boundary
  BY <1>0, <1>16, Facts DEF Boundary
<1>17. CASE RecheckSource
  BY <1>0, <1>17, Facts DEF RecheckSource, CheckSource
<1>18. CASE ChildEnvironment
  BY <1>0, <1>18, Facts DEF ChildEnvironment
<1>19. CASE Spawn
  BY <1>0, <1>19, Facts DEF Spawn
<1>20. CASE ChildExits
  BY <1>0, <1>20, Facts DEF ChildExits
<1>21. CASE FinishLease
  BY <1>0, <1>21, Facts DEF FinishLease
<1>22. CASE Others
  BY <1>0, <1>22, Facts DEF Others, CatalogChanges, SourceChanges
<1>23. CASE UNCHANGED vars
  BY <1>0, <1>23, Facts DEF vars
<1> QED
  BY <1>1, <1>2, <1>3, <1>4, <1>5, <1>6, <1>7, <1>8, <1>9, <1>10, <1>11, <1>12, <1>13,
      <1>14, <1>15, <1>16, <1>17, <1>18, <1>19, <1>20, <1>21, <1>22, <1>23 DEF Next

\* A due filter stays known, and the managers unasked.
LEMMA DueStep == IInv /\ [Next]_vars => Due'
<1> SUFFICES ASSUME IInv, [Next]_vars PROVE Due'
  OBVIOUS
<1> USE DEF IInv, Path, hosted, gatewayKind, managedNetwork, explicitNetwork, Before, Behind, Final,
        world, decided, outcome, Goto, Refuse, Proceed, Due
<1>1. CASE Look
  BY <1>1 DEF Look
<1>2. CASE LoadDefault
  BY <1>2 DEF LoadDefault, DefaultGatewaySelected
<1>3. CASE ResolveHost
  BY <1>3 DEF ResolveHost, hostChecks, nativeOnly, explicitHosted
<1>4. CASE RecoverMatching
  BY <1>4 DEF RecoverMatching
<1>5. CASE Describe
  BY <1>5 DEF Describe
<1>6. CASE Gates
  BY <1>6 DEF Gates
<1>7. CASE Plan
  BY <1>7 DEF Plan, Permitted
<1>8. CASE Prepare
  BY <1>8 DEF Prepare
<1>9. CASE GuardSource
  BY <1>9 DEF GuardSource, CheckSource
<1>10. CASE Health
  BY <1>10 DEF Health
<1>11. CASE Register
  BY <1>11 DEF Register
<1>12. CASE Cleanup
  BY <1>12 DEF Cleanup
<1>13. CASE ComposePlan
  BY <1>13 DEF ComposePlan
<1>14. CASE Emit
  BY <1>14 DEF Emit
<1>15. CASE Delegate
  BY <1>15 DEF Delegate
<1>16. CASE Boundary
  BY <1>16 DEF Boundary
<1>17. CASE RecheckSource
  BY <1>17 DEF RecheckSource, CheckSource
<1>18. CASE ChildEnvironment
  BY <1>18 DEF ChildEnvironment
<1>19. CASE Spawn
  BY <1>19 DEF Spawn
<1>20. CASE ChildExits
  BY <1>20 DEF ChildExits
<1>21. CASE FinishLease
  BY <1>21 DEF FinishLease
<1>22. CASE Others
  BY <1>22 DEF Others, CatalogChanges, SourceChanges
<1>23. CASE UNCHANGED vars
  BY <1>23 DEF vars
<1> QED
  BY <1>1, <1>2, <1>3, <1>4, <1>5, <1>6, <1>7, <1>8, <1>9, <1>10, <1>11, <1>12, <1>13,
      <1>14, <1>15, <1>16, <1>17, <1>18, <1>19, <1>20, <1>21, <1>22, <1>23 DEF Next

\* A step keeps the types, and what goes with them.
LEMMA TypeStep == IInv /\ [Next]_vars => TypeOK'
<1> SUFFICES ASSUME IInv, [Next]_vars PROVE TypeOK'
  OBVIOUS
<1> USE DEF IInv, Path, hosted, gatewayKind, managedNetwork, explicitNetwork, Before, Behind, Final,
        world, decided, outcome, Goto, Refuse, Proceed
<1>1. CASE Look
  BY <1>1 DEF Look, TypeOK
<1>2. CASE LoadDefault
  BY <1>2 DEF LoadDefault, TypeOK
<1>3. CASE ResolveHost
  BY <1>3 DEF ResolveHost, TypeOK
<1>4. CASE RecoverMatching
  BY <1>4 DEF RecoverMatching, TypeOK
<1>5. CASE Describe
  BY <1>5 DEF Describe, TypeOK
<1>6. CASE Gates
  BY <1>6 DEF Gates, TypeOK
<1>7. CASE Plan
  BY <1>7 DEF Plan, Permitted, TypeOK
<1>8. CASE Prepare
  BY <1>8 DEF Prepare, PrepareRefuses, TypeOK
<1>9. CASE GuardSource
  BY <1>9, GuardLength, Counts DEF GuardSource, CheckSource, TypeOK
<1>10. CASE Health
  BY <1>10 DEF Health, TypeOK
<1>11. CASE Register
  BY <1>11 DEF Register, TypeOK
<1>12. CASE Cleanup
  BY <1>12 DEF Cleanup, TypeOK
<1>13. CASE ComposePlan
  BY <1>13 DEF ComposePlan, TypeOK
<1>14. CASE Emit
  BY <1>14 DEF Emit, TypeOK
<1>15. CASE Delegate
  BY <1>15 DEF Delegate, TypeOK
<1>16. CASE Boundary
  BY <1>16 DEF Boundary, TypeOK
<1>17. CASE RecheckSource
  BY <1>17, GuardLength, Counts DEF RecheckSource, CheckSource, TypeOK
<1>18. CASE ChildEnvironment
  BY <1>18 DEF ChildEnvironment, TypeOK
<1>19. CASE Spawn
  BY <1>19 DEF Spawn, TypeOK
<1>20. CASE ChildExits
  BY <1>20 DEF ChildExits, TypeOK
<1>21. CASE FinishLease
  BY <1>21 DEF FinishLease, TypeOK
<1>22. CASE Others
  <2>1. \A s \in Sources : source'[s] \in Texts[s] \cup {inv'.sources[s]}
    BY <1>22, InvocationFixed DEF Others, CatalogChanges, SourceChanges, TypeOK, Watched
  <2>2. changes' \in 0 .. MaxChanges
    BY <1>22, LaunchAssumption DEF Others, TypeOK
  <2>3. stale' \subseteq Sources /\ catalog' \in Catalogs
    BY <1>22 DEF Others, CatalogChanges, SourceChanges, TypeOK
  <2> QED
    BY <1>22, <2>1, <2>2, <2>3 DEF Others, TypeOK
<1>23. CASE UNCHANGED vars
  BY <1>23 DEF vars, TypeOK
<1> QED
  BY <1>1, <1>2, <1>3, <1>4, <1>5, <1>6, <1>7, <1>8, <1>9, <1>10, <1>11, <1>12, <1>13,
      <1>14, <1>15, <1>16, <1>17, <1>18, <1>19, <1>20, <1>21, <1>22, <1>23 DEF Next

\* No source is stale behind the recheck's back.
LEMMA WatchedStep == IInv /\ [Next]_vars => Watched'
<1> SUFFICES ASSUME IInv, [Next]_vars PROVE Watched'
  OBVIOUS
<1> USE DEF IInv, Path, hosted, gatewayKind, managedNetwork, explicitNetwork, Before, Behind, Final,
        world, decided, outcome, Goto, Refuse, Proceed, Watched
<1>1. CASE Look
  BY <1>1 DEF Look
<1>2. CASE LoadDefault
  BY <1>2 DEF LoadDefault
<1>3. CASE ResolveHost
  BY <1>3 DEF ResolveHost
<1>4. CASE RecoverMatching
  BY <1>4 DEF RecoverMatching
<1>5. CASE Describe
  BY <1>5 DEF Describe
<1>6. CASE Gates
  BY <1>6 DEF Gates
<1>7. CASE Plan
  BY <1>7 DEF Plan, Permitted
<1>8. CASE Prepare
  BY <1>8 DEF Prepare
<1>9. CASE GuardSource
  BY <1>9 DEF GuardSource, CheckSource
<1>10. CASE Health
  BY <1>10 DEF Health
<1>11. CASE Register
  BY <1>11 DEF Register
<1>12. CASE Cleanup
  BY <1>12 DEF Cleanup
<1>13. CASE ComposePlan
  BY <1>13 DEF ComposePlan
<1>14. CASE Emit
  BY <1>14 DEF Emit
<1>15. CASE Delegate
  BY <1>15 DEF Delegate
<1>16. CASE Boundary
  BY <1>16 DEF Boundary, TypeOK
<1>17. CASE RecheckSource
  <2>1. looked \in 0 .. 8 /\ stale \subseteq Sources /\ at = "recheck"
    BY <1>17, GuardLength DEF RecheckSource, CheckSource, TypeOK
  <2>2. CASE at' = "finish" \/ at' = "refused"
    BY <1>17, <2>2 DEF RecheckSource, CheckSource
  <2>3. CASE ~(at' = "finish" \/ at' = "refused")
    <3>1. Guard[looked + 1] \notin stale
      BY <1>17, <2>1, <2>3 DEF RecheckSource, CheckSource, Admits
    <3>2. \A j \in 1 .. looked + 1 : Guard[j] \notin stale
      BY <2>1, <3>1
    <3>3. looked' = 0 => stale = {}
      <4>1. looked' = (looked + 1) % 9
        BY <1>17, <2>3, GuardLength DEF RecheckSource, CheckSource
      <4>2. looked' = 0 => looked = 8
        BY <2>1, <4>1, Counts
      <4> QED
        BY <2>1, <3>2, <4>2, GuardLength
    <3>4. looked' # 0 => looked' = looked + 1
      BY <1>17, <2>1, <2>3, GuardLength, Counts DEF RecheckSource, CheckSource
    <3> QED
      BY <1>17, <2>1, <2>3, <3>2, <3>3, <3>4 DEF RecheckSource, CheckSource
  <2> QED
    BY <2>2, <2>3
<1>18. CASE ChildEnvironment
  BY <1>18 DEF ChildEnvironment
<1>19. CASE Spawn
  BY <1>19 DEF Spawn
<1>20. CASE ChildExits
  BY <1>20 DEF ChildExits
<1>21. CASE FinishLease
  BY <1>21 DEF FinishLease
<1>22. CASE Others
  BY <1>22 DEF Others, CatalogChanges, SourceChanges, TypeOK
<1>23. CASE UNCHANGED vars
  BY <1>23 DEF vars
<1> QED
  BY <1>1, <1>2, <1>3, <1>4, <1>5, <1>6, <1>7, <1>8, <1>9, <1>10, <1>11, <1>12, <1>13,
      <1>14, <1>15, <1>16, <1>17, <1>18, <1>19, <1>20, <1>21, <1>22, <1>23 DEF Next

LEMMA Inductive == Spec => []IInv
<1>1. IInv /\ [Next]_vars => IInv'
  BY TypeStep, PathStep, KeptStep, DueStep, WatchedStep DEF IInv
<1> QED
  BY <1>1, InvInit, PTL DEF Spec

-----------------------------------------------------------------------------
(* The theorems.                                                           *)

\* The launch's decisions fit the step it has reached.
THEOREM TypeCorrect == Spec => []TypeOK
<1>1. IInv => TypeOK
  BY DEF IInv
<1> QED
  BY <1>1, Inductive, PTL

\* Every registration is ended before the launch answers, and none while a child runs.
THEOREM RegistrationsEnd == Spec => []LeaseEnded
<1>1. IInv => LeaseEnded
  BY DEF IInv, Path, LeaseEnded, Final, Behind
<1> QED
  BY <1>1, Inductive, PTL

\* No child starts on a source that was refusable all through the recheck.
THEOREM RecheckIsCurrent == Spec => []RecheckGuardsSpawn
<1>1. IInv => RecheckGuardsSpawn
  BY DEF IInv, Path, Watched, RecheckGuardsSpawn
<1> QED
  BY <1>1, Inductive, PTL

\* A patch that unsets the proxy family leaves it to nobody but the patch.
LEMMA ProxiesUnset ==
    ASSUME NEW f, NEW patch, Proxies \subseteq patch.unset,
           NEW n \in Name, IsProxyFamily(n), n \in DOMAIN applyToMap(f, patch)
    PROVE  n \in DOMAIN patch.set /\ applyToMap(f, patch)[n] = patch.set[n]
<1>1. Upper[n] \in Proxies
  BY NamesAssumption DEF IsProxyFamily, Proxies
<1>2. Upper[n] \in {Upper[m] : m \in patch.unset}
  BY <1>1, NamesAssumption DEF Proxies
<1> QED
  BY <1>2 DEF applyToMap, Over

\* A due or selected filter is never dropped.
THEOREM FilterIsKept == Spec => []FilterNeverDropped
<1> SUFFICES ASSUME IInv PROVE FilterNeverDropped
  BY Inductive, PTL
<1> USE DEF IInv
<1>1. due => ~contacted
  BY DEF Due
<1>2. child # "none" => at \in {"running", "finish", "exited"}
  BY DEF Path
<1>3. child # "none" /\ due /\ ~explicitNetwork /\ inv.proxy = "none" => gatewayKind(prepared)
  BY <1>2 DEF Due, Kept, managedNetwork
<1>4. explicitNetwork \/ inv.proxy # "none" => ~contacted /\ (child # "none" => prepared = selected)
  BY DEF Due, Kept, managedNetwork
<1>5. ASSUME prepared # "none", NEW n \in Name, IsProxyFamily(n)
      PROVE  /\ n \in DOMAIN Value.env => Value.env[n] = "network"
             /\ n \notin Value.names
  <2>1. ~CheckOverlays(inv)
    BY <1>5 DEF Kept
  <2>2. n \notin Value.names
    BY <1>5, <2>1 DEF Value, Compose, CheckOverlays
  <2>3. Proxies \subseteq Patch.unset /\ \A m \in DOMAIN Patch.set : Patch.set[m] = "network"
    BY <1>5 DEF Patch, GenericPatch, gatewayPatch, Layer, Proxies
  <2>4. \E f : Value.env = applyToMap(f, Patch)
    BY DEF Value, Compose
  <2> QED
    BY <1>5, <2>2, <2>3, <2>4, ProxiesUnset
<1> QED
  BY <1>1, <1>3, <1>4, <1>5 DEF FilterNeverDropped

\* What the preparation lets through, behind a gateway, passes the composition check.
LEMMA AdmittedComposes ==
    ASSUME gatewayKind(prepared), ~GatewayRefuses
    PROVE  gatewayCompositionCheck(Value)
<1> DEFINE patch == Patch
           overlays == Over(Layer(inv.prompt, "prompt"), Layer(inv.fragment, "fragment"))
           sources == inv.prompt \cup inv.fragment \cup inv.own \cup inv.parent
<1>1. /\ patch = gatewayPatch(inv.parent, inv.parent \cup inv.own)
      /\ prepared # "none"
  BY DEF Patch, gatewayKind
<1>2. /\ DOMAIN patch.set = Owned
      /\ \A n \in Owned : patch.set[n] = "network"
      /\ \A n \in inv.own \cup inv.parent : gatewayRefusedName(n) => n \in patch.unset
  BY <1>1 DEF gatewayPatch, Layer, inheritedRouteNames
<1>3. \A n \in inv.fragment \cup inv.prompt \cup inv.mcp : ~gatewayRefusedName(n)
  BY DEF GatewayRefuses
<1>4. ASSUME NEW f, DOMAIN f \subseteq sources
      PROVE  /\ \A n \in Owned : /\ n \in DOMAIN applyToMap(f, patch)
                                 /\ applyToMap(f, patch)[n] = "network"
             /\ \A n \in DOMAIN applyToMap(f, patch) \ Owned : ~gatewayRefusedName(n)
  <2>1. DOMAIN applyToMap(f, patch) \subseteq
            Owned \cup {n \in DOMAIN f : Upper[n] \notin {Upper[m] : m \in patch.unset}}
    BY <1>2 DEF applyToMap, Over
  <2>2. \A n \in Owned : n \in DOMAIN applyToMap(f, patch) /\ applyToMap(f, patch)[n] = "network"
    BY <1>2 DEF applyToMap, Over
  <2> QED
    BY <1>2, <1>3, <1>4, <2>1, <2>2
<1>5. /\ DOMAIN Over(overlays, Layer(inv.own, "plan")) \subseteq sources
      /\ DOMAIN Over(overlays, planEnv(inv)) \subseteq sources
  BY DEF Over, Layer, planEnv
<1>6. /\ Value.env = applyToMap(Over(overlays, planEnv(inv)), patch)
      /\ Value.literals = applyToMap(Over(overlays, Layer(inv.own, "plan")), patch)
      /\ Value.names \subseteq inv.mcp
  BY DEF Value, Compose
<1> HIDE DEF patch, overlays, sources
<1> QED
  BY <1>3, <1>4, <1>5, <1>6 DEF gatewayCompositionCheck

\* What a gateway's preparation admitted is never refused by composition.
THEOREM AdmittedPlansCompose == Spec => PreparedComposes
<1>1. ASSUME IInv, Next, at = "compose", lease = "live", inv.carries
      PROVE  at' # "finish"
  <2>1. gatewayKind(prepared) /\ prepared # "none"
    BY <1>1 DEF IInv, TypeOK, gatewayKind
  <2>2. ~GatewayRefuses /\ ~CheckOverlays(inv)
    BY <1>1, <2>1 DEF IInv, Kept
  <2>3. ~ComposeRefuses(inv, Patch)
    BY <1>1, <2>2 DEF ComposeRefuses, musePolicy, GatewayRefuses
  <2>4. CheckComposed(Value)
    BY <2>1, <2>2, AdmittedComposes DEF CheckComposed
  <2>5. ComposePlan \/ Others
    BY <1>1 DEF Next, Look, LoadDefault, ResolveHost, RecoverMatching, Describe, Gates, Plan,
        Prepare, GuardSource, RecheckSource, CheckSource, Health, Register, Cleanup, Emit,
        Delegate, Boundary, ChildEnvironment, Spawn, ChildExits, FinishLease
  <2>6. CASE ComposePlan
    BY <2>3, <2>4, <2>6 DEF ComposePlan, Goto
  <2>7. CASE Others
    BY <1>1, <2>7 DEF Others
  <2> QED
    BY <2>5, <2>6, <2>7
<1>2. IInv /\ [Next]_vars => [at = "compose" /\ lease = "live" /\ inv.carries => at' # "finish"]_at
  BY <1>1 DEF vars
<1> QED
  BY <1>2, Inductive, PTL DEF Spec, PreparedComposes
===============================================================================
