--------------------------- MODULE WhisperEngine ---------------------------
(***************************************************************************)
(* The shared Whisper engine of meetily-core:                              *)
(* whisper_engine/whisper_engine.rs, one global instance used by live      *)
(* transcription and by every batch job.                                   *)
(*                                                                         *)
(* The loaded context, the name of the loaded model and the pool of decode *)
(* states sit behind three locks, so changing the model is several steps.  *)
(* A context is identified by the model it was built from.  unload_model   *)
(* holds the write lock of the context to its end: whoever reads or writes *)
(* the context waits for it, whoever reads the name does not.              *)
(***************************************************************************)
EXTENDS Naturals

CONSTANTS
    Models,   \* models that are downloaded
    NONE      \* Rust's Option::None

Purposes == {"Final", "Partial"}

ASSUME ModelsAssumption == NONE \notin Models

VARIABLES
    ctx,       \* current_context: the model it was built from
    name,      \* current_model
    pool,      \* state_pool: the model whose weights each state decodes with
    locked     \* whether an unload_model holds the write lock of ctx

engineVars == <<ctx, name, pool, locked>>

EngineInit ==
    /\ ctx = NONE /\ name = NONE
    /\ pool = [p \in Purposes |-> NONE]
    /\ locked = FALSE

EngineTypeOK ==
    /\ ctx \in Models \cup {NONE}
    /\ name \in Models \cup {NONE}
    /\ pool \in [Purposes -> Models \cup {NONE}]
    /\ locked \in BOOLEAN

IsModelLoaded == ctx # NONE

(* unload_model, first: the context is taken and its lock kept. *)
Evict ==
    /\ ~locked
    /\ locked' = TRUE
    /\ ctx' = NONE
    /\ UNCHANGED <<name, pool>>

(* Mutant: the pooled states are kept. *)
ClearKeepsPool == name' = NONE /\ locked' = FALSE /\ UNCHANGED <<ctx, pool>>

(* unload_model, then: the name is taken, the pool dropped, the lock left. *)
Clear ==
    /\ name' = NONE
    /\ pool' = [p \in Purposes |-> NONE]
    /\ locked' = FALSE
    /\ UNCHANGED ctx

(* load_model, once the weights are read: the context, then the name. *)
SetContext(m) ==
    /\ ~locked
    /\ ctx' = m
    /\ UNCHANGED <<name, pool, locked>>

(* Mutant: the name of a freshly loaded model is not recorded. *)
SetNoName(m) == UNCHANGED engineVars

SetName(m) == name' = m /\ UNCHANGED <<ctx, pool, locked>>

(* An aborted task drops the lock its unload_model was holding. *)
Unlock == locked' = FALSE /\ UNCHANGED <<ctx, name, pool>>

(* get_or_create_state, after its snapshot m of the context: the state     *)
(* another caller has put in the pool since, or one made from m.           *)
StateFor(p, m) == IF pool[p] = NONE THEN m ELSE pool[p]

PoolInsert(p, m) ==
    /\ pool' = [pool EXCEPT ![p] = StateFor(p, m)]
    /\ UNCHANGED <<ctx, name, locked>>
============================================================================
