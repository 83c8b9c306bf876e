------------------------------- MODULE Config -------------------------------
(***************************************************************************)
(* src/yurei_config.c: what the environment makes of the configuration.    *)
(* A variable that is not set and one that is empty are the same.  The     *)
(* program ids are Base58 texts (<<>> when unset); numbers are what        *)
(* strtoull makes of the text, or Unset.  calloc says whether there is     *)
(* memory to decode with; a decode that finds none fails the load, as one  *)
(* of an invalid text does.                                                *)
(***************************************************************************)
EXTENDS Base58

Unset == -1

(* A program id: 32 bytes exactly, or the load fails.                      *)
ProgramId(text, calloc) ==
  LET decoded == base58_decode(text, 32, calloc)
  IN [valid |-> decoded.ret = 32, id |-> decoded.out]

NoProgram == [k \in 1 .. 32 |-> 0]

(* The floor applied to a capacity that is not set only.                   *)
QueueCapacity_NoFloor(value) == IF value = Unset THEN 65536 ELSE value

(* A capacity below 1024 is raised to it.                                  *)
QueueCapacity(value) ==
  LET wanted == IF value = Unset THEN 65536 ELSE value
  IN IF wanted < 1024 THEN 1024 ELSE wanted

(* yurei_config_load: whether it succeeds, and the configuration.          *)
yurei_config_load(env, calloc) ==
  LET pumpfun == ProgramId(env.pumpfun, calloc)
      raydium == ProgramId(env.raydium, calloc)
  IN [ok |-> /\ env.pumpfun # <<>> => pumpfun.valid
             /\ env.raydium # <<>> => raydium.valid,
      config |->
        [pumpfun_enabled |-> env.pumpfun # <<>>,
         pumpfun_program |-> IF env.pumpfun # <<>> THEN pumpfun.id ELSE NoProgram,
         raydium_enabled |-> env.raydium # <<>>,
         raydium_program |-> IF env.raydium # <<>> THEN raydium.id ELSE NoProgram,
         from_slot_set |-> env.from_slot # Unset,
         from_slot |-> IF env.from_slot # Unset THEN env.from_slot ELSE 0,
         queue_capacity |-> QueueCapacity(env.queue_capacity)]]
=============================================================================
