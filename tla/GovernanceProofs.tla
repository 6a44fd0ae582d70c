-------------------------- MODULE GovernanceProofs --------------------------
(* Offices pass from one holder to the next, for any set of keys. *)
EXTENDS Governance, TLAPS

(* The three facts about the keys hold together. *)
Offices == TypeOK /\ NobodyIsLockedOut /\ NominationsStand

(* Nobody is in office at first. *)
LEMMA InitOffices == Init => Offices
BY GovernanceAssumption
DEF Init, Offices, TypeOK, NobodyIsLockedOut, NominationsStand, GlobalKeys, FarmKeys,
    ZeroedFarmKeys, Address

(* Whoever creates an account takes its office. *)
LEMMA CreationOffices ==
  ASSUME Offices, NEW signer \in Keys, Creation(signer)
  PROVE  Offices'
<1> USE GovernanceAssumption
    DEF Offices, TypeOK, NobodyIsLockedOut, NominationsStand, GlobalKeys, FarmKeys, Address
<1>1. CASE HandleInitializeGlobalConfig(signer)
  BY <1>1 DEF HandleInitializeGlobalConfig
<1>2. ASSUME NEW keys \in FarmKeys, CreateFarm(keys), keys.initialised, keys.farm_admin = signer,
             keys.pending_farm_admin = signer,
             keys.is_farm_delegated => keys.delegate_authority \in Keys
      PROVE  Offices'
  BY <1>2 DEF CreateFarm
<1>3. CASE HandleInitializeFarm(signer)
  <2> DEFINE keys == [ZeroedFarmKeys EXCEPT !.initialised = TRUE,
                                            !.farm_admin = signer,
                                            !.pending_farm_admin = signer]
  <2>1. /\ keys \in FarmKeys /\ keys.initialised /\ keys.farm_admin = signer
        /\ keys.pending_farm_admin = signer /\ ~keys.is_farm_delegated
    BY DEF ZeroedFarmKeys
  <2>2. CreateFarm(keys)
    BY <1>3 DEF HandleInitializeFarm
  <2> HIDE DEF keys
  <2> QED BY <1>2, <2>1, <2>2
<1>4. ASSUME NEW farm_delegate \in Keys, HandleInitializeFarmDelegated(signer, farm_delegate)
      PROVE  Offices'
  <2> DEFINE keys == [ZeroedFarmKeys EXCEPT !.initialised = TRUE,
                                            !.is_farm_delegated = TRUE,
                                            !.farm_admin = signer,
                                            !.pending_farm_admin = signer,
                                            !.delegate_authority = farm_delegate]
  <2>1. /\ keys \in FarmKeys /\ keys.initialised /\ keys.farm_admin = signer
        /\ keys.pending_farm_admin = signer /\ keys.delegate_authority = farm_delegate
    BY DEF ZeroedFarmKeys
  <2>2. CreateFarm(keys)
    BY <1>4 DEF HandleInitializeFarmDelegated
  <2> HIDE DEF keys
  <2> QED BY <1>2, <2>1, <2>2
<1> QED BY <1>1, <1>3, <1>4 DEF Creation

(* The admin in force nominates; the one nominated accepts. *)
LEMMA SuccessionOffices ==
  ASSUME Offices, NEW signer \in Keys, Succession(signer)
  PROVE  Offices'
<1> USE GovernanceAssumption
    DEF Offices, TypeOK, NobodyIsLockedOut, NominationsStand, GlobalKeys, FarmKeys, Address
<1>1. ASSUME NEW key \in Address, SetPendingGlobalAdmin(signer, key) PROVE Offices'
  BY <1>1 DEF SetPendingGlobalAdmin
<1>2. CASE HandleUpdateGlobalConfigAdmin(signer)
  BY <1>2 DEF HandleUpdateGlobalConfigAdmin
<1>3. CASE HandleUpdateFarmAdmin(signer)
  BY <1>3 DEF HandleUpdateFarmAdmin
<1> QED BY <1>1, <1>2, <1>3 DEF Succession

(* Appointments leave the admins and the delegate in office. *)
LEMMA AppointmentOffices ==
  ASSUME Offices, NEW signer \in Keys, Appointment(signer)
  PROVE  Offices'
<1> USE GovernanceAssumption
    DEF Offices, TypeOK, NobodyIsLockedOut, NominationsStand, GlobalKeys, FarmKeys, Address
<1>1. ASSUME NEW option \in KeyOptions, NEW key \in Address,
             UpdateFarmConfigKey(signer, option, key)
      PROVE  Offices'
  <2>1. /\ farm_keys.initialised /\ signer = farm_keys.farm_admin
        /\ farm_keys' = [farm_keys EXCEPT ![option] = key] /\ global_keys' = global_keys
        /\ nominators' = IF option = "pending_farm_admin"
                         THEN [nominators EXCEPT !.farm = signer] ELSE nominators
    BY <1>1 DEF UpdateFarmConfigKey
  <2>2. CASE option = "pending_farm_admin"
    BY <2>1, <2>2
  <2>3. CASE option = "withdraw_authority"
    BY <2>1, <2>3
  <2>4. CASE option = "delegated_rps_admin"
    BY <2>1, <2>4
  <2>5. CASE option = "second_delegated_authority"
    BY <2>1, <2>5
  <2> QED BY <2>2, <2>3, <2>4, <2>5 DEF KeyOptions
<1>2. ASSUME NEW key \in Address, HandleUpdateSecondDelegatedAuthority(signer, key)
      PROVE  Offices'
  BY <1>2 DEF HandleUpdateSecondDelegatedAuthority
<1> QED BY <1>1, <1>2 DEF Appointment

(* Whatever is signed keeps the offices. *)
LEMMA NextOffices == Offices /\ [Next]_vars => Offices'
<1>1. Offices /\ UNCHANGED vars => Offices'
  BY DEF vars, Offices, TypeOK, NobodyIsLockedOut, NominationsStand
<1> QED BY <1>1, CreationOffices, SuccessionOffices, AppointmentOffices DEF Next

(* In every reachable state the offices are in order. *)
LEMMA AlwaysOffices == Spec => []Offices
BY InitOffices, NextOffices, PTL DEF Spec

(* However often admins nominate, accept and appoint, and whatever addresses *)
(* they mistake, each account keeps an admin who can sign, and a delegated   *)
(* farm its delegate.                                                        *)
THEOREM OfficesAreHeld == Spec => []NobodyIsLockedOut
<1>1. Offices => NobodyIsLockedOut
  BY DEF Offices
<1> QED BY <1>1, AlwaysOffices, PTL

(* Nobody waits for an office but whom the admin in force nominated.         *)
THEOREM OnlyTheAdminNominates == Spec => []NominationsStand
<1>1. Offices => NominationsStand
  BY DEF Offices
<1> QED BY <1>1, AlwaysOffices, PTL

=============================================================================
