--------------------------- MODULE BuiltinCatalog ---------------------------
(***************************************************************************)
(* The models of the built-in provider (get_available_models of            *)
(* summary/summary_engine/models.rs), which the sidecar loads and the      *)
(* download manager fetches: a model stands for its GGUF file too.         *)
(***************************************************************************)
CONSTANTS
    BuiltinModels,
    NONE            \* Rust's Option::None, and no file

ASSUME CatalogAssumption == NONE \notin BuiltinModels
=============================================================================
