----------------------------- MODULE FarmCustody -----------------------------
(* What a farm promises about tokens, whatever its books look like: a safe   *)
(* for the staked tokens and a fund for each reward.  One step moves one     *)
(* amount between two owners; shares, deadlines, schedules and tallies have  *)
(* no place here.                                                            *)
EXTENDS Naturals

CONSTANTS
  Users,
  Rewards,
  SUPPLY       \* tokens that exist of each reward

VARIABLES
  wallets,     \* staking tokens of each user
  authority,   \* staking tokens of the farm's authorities
  safe,        \* staking tokens in the farm's keeping
  funds,       \* reward tokens in the farm's keeping, per reward
  treasury     \* reward tokens of the treasury, per reward

stakeSide  == <<wallets, authority, safe>>
rewardSide == <<funds, treasury>>

vars == <<stakeSide, rewardSide>>

Outside(i) == SUPPLY - funds[i] - treasury[i]

Init ==
  /\ wallets \in [Users -> Nat]
  /\ authority \in Nat
  /\ safe = 0
  /\ funds = [i \in Rewards |-> 0]
  /\ treasury = [i \in Rewards |-> 0]

-----------------------------------------------------------------------------
PutIn(u) ==
  \E n \in 1 .. wallets[u] :
    /\ wallets' = [wallets EXCEPT ![u] = @ - n]
    /\ safe' = safe + n
    /\ UNCHANGED <<authority, rewardSide>>

PayOut(u) ==
  \E n \in 1 .. safe :
    /\ wallets' = [wallets EXCEPT ![u] = @ + n]
    /\ safe' = safe - n
    /\ UNCHANGED <<authority, rewardSide>>

Supplement ==
  \E n \in 1 .. authority :
    /\ authority' = authority - n
    /\ safe' = safe + n
    /\ UNCHANGED <<wallets, rewardSide>>

Confiscate ==
  \E n \in 1 .. safe :
    /\ authority' = authority + n
    /\ safe' = safe - n
    /\ UNCHANGED <<wallets, rewardSide>>

Fund(i) ==
  \E n \in 1 .. Outside(i) :
    /\ funds' = [funds EXCEPT ![i] = @ + n]
    /\ UNCHANGED <<stakeSide, treasury>>

(* What leaves a fund leaves the farm, but for the treasury's part. *)
Release(i) ==
  \E n \in 1 .. funds[i] : \E fee \in 0 .. n :
    /\ funds' = [funds EXCEPT ![i] = @ - n]
    /\ treasury' = [treasury EXCEPT ![i] = @ + fee]
    /\ UNCHANGED stakeSide

Collect(i) ==
  \E n \in 1 .. treasury[i] :
    /\ treasury' = [treasury EXCEPT ![i] = @ - n]
    /\ UNCHANGED <<stakeSide, funds>>

Next ==
  \/ \E u \in Users : PutIn(u) \/ PayOut(u)
  \/ Supplement
  \/ Confiscate
  \/ \E i \in Rewards : Fund(i) \/ Release(i) \/ Collect(i)

Spec == Init /\ [][Next]_vars
=============================================================================
