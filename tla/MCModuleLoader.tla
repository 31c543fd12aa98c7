--------------------------- MODULE MCModuleLoader ---------------------------
(***************************************************************************)
(* A catalogue for the loader: an application over a library over a core,  *)
(* an embedded plugin, a second image that calls itself core, and one      *)
(* image for each way a load can fail.                                     *)
(***************************************************************************)
EXTENDS ModuleLoaderInvariant

CONSTANT OnShelf    (* the names the search paths hold an image for *)

(* late was built against another lib; gap depends on plug, which is only  *)
(* found when it was loaded before.                                        *)
MCShelf == [n \in Names |-> IF n \in OnShelf THEN n ELSE None]

MCImportName ==
    [m \in Images |-> IF m = "fork" THEN "core"
                      ELSE IF m \in Names THEN m ELSE "plug"]

MCEmbedded == [m \in Images |-> IF m = "app" THEN <<"plug">> ELSE <<>>]

MCDependsOn ==
    [m \in Images |-> CASE m = "app" -> <<"lib", "core">>
                        [] m = "lib" -> <<"core">>
                        [] m = "plug" -> <<"core">>
                        [] m = "late" -> <<"lib">>
                        [] m = "gap" -> <<"core", "plug">>
                        [] OTHER -> <<>>]

MCNeeds ==
    [m \in Images |-> CASE m = "app" -> {"lib", "core"}
                        [] m = "lib" -> {"core"}
                        [] m = "late" -> {"lib"}
                        [] m = "stub" -> {"lib"}
                        [] OTHER -> {}]

MCCompatible ==
    {<<"app", "lib">>, <<"app", "core">>, <<"lib", "core">>, <<"stub", "lib">>}
        \cap (Images \X Images)

(* The compiler gives a module at most one initializer and one finalizer,  *)
(* under private names made from the module's name.                        *)
Private == [n \in Names |-> {n \o "@init", n \o "@final"}]

MCSymbols == {"f", "g", "h"} \cup UNION {Private[n] : n \in Names}

MCDefines ==
    [m \in Images |-> CASE m = "core" -> {"g"} \cup Private["core"]
                        [] m = "fork" -> {"g", "h"} \cup Private["core"]
                        [] m = "lib" -> {"f"} \cup Private["lib"]
                        [] m = "plug" -> {"g"} \cup Private["plug"]
                        [] m = "twin" -> {"g", "h"}
                        [] OTHER -> {}]

MCDefective == [m \in Images |-> IF m = "twin" THEN {"h"} ELSE {}]

MCRefersTo ==
    [m \in Images |-> CASE m = "app" -> {"f", "g", "lib"}
                        [] m = "lib" -> {"g", "core"}
                        [] m = "plug" -> {"g", "plug"}
                        [] m = "stub" -> {"h"}
                        [] OTHER -> {}]

MCInitializers == [m \in Images |-> MCDefines[m] \cap {n \o "@init" : n \in Names}]
MCFinalizers == [m \in Images |-> MCDefines[m] \cap {n \o "@final" : n \in Names}]

(* The initializer of lib opens plug, which ranks below it. In the other   *)
(* catalogue that of core opens lib, which depends on core: the rank is    *)
(* broken, as by a program whose plugins depend on their host.             *)
MCAsks == [m \in Images |-> IF m = "lib" THEN <<"plug">> ELSE <<>>]
MCAsksBack == [m \in Images |-> IF m = "core" THEN <<"lib">> ELSE <<>>]

(* Dependence ends in the first catalogue, whichever names and images it   *)
(* has.                                                                    *)
MCRank == [n \in Names |-> CASE n = "core" -> 0
                                [] n = "plug" -> 1
                                [] n = "lib" -> 2
                                [] OTHER -> 3]

ASSUME RankAssumption == Asks = MCAsks => Descends(MCRank)
=============================================================================
