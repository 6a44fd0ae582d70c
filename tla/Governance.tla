----------------------------- MODULE Governance -----------------------------
(* The keys that may sign for a farm and for the global configuration, and   *)
(* how they change: an admin nominates a successor, who has to accept; the   *)
(* other authorities are appointed.  The ids of a strategy and of a vault,   *)
(* for which nobody signs, are left out.                                     *)

CONSTANTS
  Keys,        \* the keys somebody holds
  NoKey        \* Pubkey::default(), for which nobody can sign

ASSUME GovernanceAssumption == NoKey \notin Keys

VARIABLES
  global_keys,    \* the keys of the GlobalConfig account
  farm_keys,      \* the keys of the FarmState account
  nominators      \* history: who nominated each pending admin

vars == <<global_keys, farm_keys, nominators>>

Address == Keys \union {NoKey}

GlobalKeys ==
  [ initialised : BOOLEAN,
    global_admin : Address,
    pending_global_admin : Address ]

FarmKeys ==
  [ initialised : BOOLEAN,
    is_farm_delegated : BOOLEAN,
    farm_admin : Address,
    pending_farm_admin : Address,
    withdraw_authority : Address,
    delegated_rps_admin : Address,
    delegate_authority : Address,
    second_delegated_authority : Address ]

ZeroedFarmKeys ==
  [ initialised |-> FALSE,
    is_farm_delegated |-> FALSE,
    farm_admin |-> NoKey,
    pending_farm_admin |-> NoKey,
    withdraw_authority |-> NoKey,
    delegated_rps_admin |-> NoKey,
    delegate_authority |-> NoKey,
    second_delegated_authority |-> NoKey ]

Init ==
  /\ global_keys = [initialised |-> FALSE, global_admin |-> NoKey, pending_global_admin |-> NoKey]
  /\ farm_keys = ZeroedFarmKeys
  /\ nominators = [global |-> NoKey, farm |-> NoKey]

-----------------------------------------------------------------------------
(* Creation *)

HandleInitializeGlobalConfig(signer) ==
  /\ ~global_keys.initialised
  /\ global_keys' = [initialised |-> TRUE, global_admin |-> signer, pending_global_admin |-> signer]
  /\ nominators' = [nominators EXCEPT !.global = signer]
  /\ UNCHANGED farm_keys

CreateFarm(keys) ==
  /\ global_keys.initialised
  /\ ~farm_keys.initialised
  /\ farm_keys' = keys
  /\ nominators' = [nominators EXCEPT !.farm = keys.farm_admin]
  /\ UNCHANGED global_keys

HandleInitializeFarm(signer) ==
  CreateFarm([ZeroedFarmKeys EXCEPT !.initialised = TRUE,
                                    !.farm_admin = signer,
                                    !.pending_farm_admin = signer])

(* The delegate signs too. *)
HandleInitializeFarmDelegated(signer, farm_delegate) ==
  CreateFarm([ZeroedFarmKeys EXCEPT !.initialised = TRUE,
                                    !.is_farm_delegated = TRUE,
                                    !.farm_admin = signer,
                                    !.pending_farm_admin = signer,
                                    !.delegate_authority = farm_delegate])

-----------------------------------------------------------------------------
(* Succession *)

SetPendingGlobalAdmin(signer, key) ==
  /\ global_keys.initialised
  /\ signer = global_keys.global_admin
  /\ global_keys' = [global_keys EXCEPT !.pending_global_admin = key]
  /\ nominators' = [nominators EXCEPT !.global = signer]
  /\ UNCHANGED farm_keys

(* Mutant: the admin in force confirms the successor. *)
MutGlobalAdminConfirms(signer) ==
  /\ global_keys.initialised
  /\ signer = global_keys.global_admin
  /\ global_keys' = [global_keys EXCEPT !.global_admin = global_keys.pending_global_admin]
  /\ UNCHANGED <<farm_keys, nominators>>

HandleUpdateGlobalConfigAdmin(signer) ==
  /\ global_keys.initialised
  /\ signer = global_keys.pending_global_admin
  /\ global_keys' = [global_keys EXCEPT !.global_admin = global_keys.pending_global_admin]
  /\ UNCHANGED <<farm_keys, nominators>>

(* Mutant: the two keys are swapped. *)
MutSwapAdmins(signer) ==
  /\ farm_keys.initialised
  /\ signer = farm_keys.pending_farm_admin
  /\ farm_keys' = [farm_keys EXCEPT !.farm_admin = farm_keys.pending_farm_admin,
                                    !.pending_farm_admin = farm_keys.farm_admin]
  /\ UNCHANGED <<global_keys, nominators>>

HandleUpdateFarmAdmin(signer) ==
  /\ farm_keys.initialised
  /\ signer = farm_keys.pending_farm_admin
  /\ farm_keys' = [farm_keys EXCEPT !.farm_admin = farm_keys.pending_farm_admin]
  /\ UNCHANGED <<global_keys, nominators>>

-----------------------------------------------------------------------------
(* Appointments: the options of update_farm_config that hold a key, and the  *)
(* second delegated authority, which the global admin may set as well.       *)
KeyOptions ==
  {"pending_farm_admin", "withdraw_authority", "delegated_rps_admin", "second_delegated_authority"}

UpdateFarmConfigKey(signer, option, key) ==
  /\ farm_keys.initialised
  /\ signer = farm_keys.farm_admin
  /\ farm_keys' = [farm_keys EXCEPT ![option] = key]
  /\ nominators' = IF option = "pending_farm_admin"
                   THEN [nominators EXCEPT !.farm = signer] ELSE nominators
  /\ UNCHANGED global_keys

HandleUpdateSecondDelegatedAuthority(signer, key) ==
  /\ farm_keys.initialised
  /\ signer = global_keys.global_admin
  /\ farm_keys' = [farm_keys EXCEPT !.second_delegated_authority = key]
  /\ UNCHANGED <<global_keys, nominators>>

-----------------------------------------------------------------------------
Creation(signer) ==
  \/ HandleInitializeGlobalConfig(signer)
  \/ HandleInitializeFarm(signer)
  \/ \E farm_delegate \in Keys : HandleInitializeFarmDelegated(signer, farm_delegate)

Succession(signer) ==
  \/ \E key \in Address : SetPendingGlobalAdmin(signer, key)
  \/ HandleUpdateGlobalConfigAdmin(signer)
  \/ HandleUpdateFarmAdmin(signer)

Appointment(signer) ==
  \/ \E option \in KeyOptions, key \in Address : UpdateFarmConfigKey(signer, option, key)
  \/ \E key \in Address : HandleUpdateSecondDelegatedAuthority(signer, key)

Next == \E signer \in Keys : Creation(signer) \/ Succession(signer) \/ Appointment(signer)

Spec == Init /\ [][Next]_vars

-----------------------------------------------------------------------------
(* The keys are addresses: held by somebody, or not set. *)
TypeOK ==
  /\ global_keys \in GlobalKeys
  /\ farm_keys \in FarmKeys
  /\ nominators \in [global : Address, farm : Address]

(* Neither account is ever left to a key nobody holds: an admin who          *)
(* nominates a wrong address stays in office and can nominate again, and the *)
(* stakes of a delegated farm keep a delegate who can dictate them, whatever *)
(* becomes of the second one.                                                *)
NobodyIsLockedOut ==
  /\ global_keys.initialised => global_keys.global_admin \in Keys
  /\ farm_keys.initialised => farm_keys.farm_admin \in Keys
  /\ farm_keys.is_farm_delegated => farm_keys.delegate_authority \in Keys
  /\ farm_keys.initialised => global_keys.initialised

(* Only the admin in force has a successor waiting: a nomination does not    *)
(* outlive the term of the one who made it, so that no former admin and      *)
(* nobody a former admin named can take the office.                          *)
NominationsStand ==
  /\ global_keys.pending_global_admin # global_keys.global_admin =>
       nominators.global = global_keys.global_admin
  /\ farm_keys.pending_farm_admin # farm_keys.farm_admin =>
       nominators.farm = farm_keys.farm_admin
=============================================================================
